SPECIFICATION FairSpec
CONSTANTS
    MaxRetry = 1
    MaxRestarts = 1
INVARIANTS
    DispatchedIsTracked
    WorkIsBounded
PROPERTIES
    WorkersNeverRace
    EveryMessageSettles
CHECK_DEADLOCK FALSE
