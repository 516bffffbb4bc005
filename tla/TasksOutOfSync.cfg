SPECIFICATION Spec
CONSTANTS
    MaxRetry = 1
    MaxRestarts = 1
INVARIANT
    DoneIsNotFailed
CHECK_DEADLOCK FALSE
