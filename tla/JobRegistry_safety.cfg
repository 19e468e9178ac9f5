CONSTANTS
    a1 = a1
    a2 = a2
    c1 = c1
    c2 = c2
    Apps <- MCApps
    Calls <- MCCalls
    Offsets <- MCOffsets
SYMMETRY MCSymmetry
SPECIFICATION Spec
INVARIANT TypeOK
