CONSTANTS
    o0 = o0
    o1 = o1
    o2 = o2
    o3 = o3
    Outputs <- MCOutputs
    Stale <- MCStale
    StopStatus <- MCStopStatus
SPECIFICATION Spec
INVARIANTS
    TypeOK
    NothingLost
PROPERTIES
    Finishes
    ChannelRefinement
