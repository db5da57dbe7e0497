SPECIFICATION FairSpec
CONSTANTS
    MaxWorkers = 2
    RunCounts = {2}
    MayFail = {1}
    MaxCancels = 1
    MaxCalls = 3
INVARIANTS
    AloneExclusive
    WaitsForReason
    CancelNotLost
    ShotsAddUp
PROPERTY
    EveryCallSettles
