--------------------------- MODULE MC_JobRegistry ---------------------------
(* Small instances of JobRegistry for TLC.                                 *)
EXTENDS JobRegistry, TLC

CONSTANTS a1, a2, c1, c2

MCApps == {a1, a2}
MCOneApp == {a1}
MCCalls == {c1, c2}
\* Two distinct load-spreading offsets for "@default".
MCOffsets == {1, 2}
MCSymmetry == Permutations(MCCalls)
=============================================================================
