SPECIFICATION FairSpec
CONSTANT MaxSegments = 1
PROPERTY FailureAnswersRequest
CHECK_DEADLOCK FALSE
