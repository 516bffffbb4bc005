SPECIFICATION FairSpec
CONSTANT MaxSegments = 3
INVARIANTS
    InOrder
    FloorIsTrue
PROPERTIES
    NothingAfterEnd
    EveryUtteranceSettles
    EndAnswersRequest
CHECK_DEADLOCK FALSE
