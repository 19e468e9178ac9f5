CONSTANTS
    a1 = a1
    a2 = a2
    c1 = c1
    c2 = c2
    Apps <- MCOneApp
    Calls <- MCCalls
    Offsets <- MCOffsets
SPECIFICATION Spec
INVARIANT ScheduleFollowsStore
