CONSTANTS
    a1 = a1
    a2 = a2
    k1 = k1
    k2 = k2
    k3 = k3
    Apps <- MCOneApp
    Checks <- MCChecks
    MaxCursor = 2
    Downstreamless <- MCAllHaveDownstream
    MaxCrashes = 1
SYMMETRY MCSymmetry
SPECIFICATION Spec
INVARIANT TypeOK
INVARIANT ParentIsExistingVersion
INVARIANT DeployTargetExists
INVARIANT DeployOnlyLastOfBatch
INVARIANT NoLeakedArchiveDir
