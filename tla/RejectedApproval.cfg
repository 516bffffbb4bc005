SPECIFICATION Spec
CONSTANTS
    Requests = {r1, r2}
    Others = {}
    MaxRetry = 1
    MaxEvents = 3
INVARIANT
    RejectionReachesApplication
CHECK_DEADLOCK FALSE
