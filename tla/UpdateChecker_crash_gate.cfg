CONSTANTS
    a1 = a1
    a2 = a2
    k1 = k1
    k2 = k2
    k3 = k3
    Apps <- MCOneApp
    Checks <- MCTwoChecks
    MaxCursor = 1
    Downstreamless <- MCAllHaveDownstream
    MaxCrashes = 1
SPECIFICATION FairSpec
PROPERTY GateEventuallyReopens
