-------------------------- MODULE MC_UpdateChecker --------------------------
(* Model-checking instance of UpdateChecker: model values for the apps and *)
(* the CheckForUpdates invocations.                                        *)
EXTENDS UpdateChecker, TLC

CONSTANTS a1, a2, k1, k2, k3

MCApps == {a1, a2}
MCOneApp == {a1}
MCChecks == {k1, k2, k3}
MCTwoChecks == {k1, k2}
MCSymmetry == Permutations(MCChecks)
\* Every app has its downstream, or the second app has none.
MCAllHaveDownstream == {}
MCSecondNoDownstream == {a2}
=============================================================================
