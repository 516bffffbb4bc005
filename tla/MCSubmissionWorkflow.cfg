SPECIFICATION Spec
CONSTANTS
    Requests = {r1, r2, r3}
    Others = {user}
    MaxRetry = 1
    MaxEvents = 3
SYMMETRY RequestSymmetry
INVARIANTS
    NothingBeforeApproval
    OneSubmissionSeries
PROPERTY
    DecidedOnce
CHECK_DEADLOCK FALSE
