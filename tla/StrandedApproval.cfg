SPECIFICATION FairSpec
CONSTANTS
    Requests = {r1, r2}
    Others = {}
    MaxRetry = 1
    MaxEvents = 3
PROPERTY
    DispatchIsRetried
CHECK_DEADLOCK FALSE
