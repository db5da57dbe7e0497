SPECIFICATION Spec
CONSTANTS
    Schedules <- Some
    Reach = 2
INVARIANTS
    RegionsStayClean
    CommittedOnce
    HoldsWhatItNeeds
    StreamDecodesTheShot
