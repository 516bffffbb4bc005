SPECIFICATION Spec
CONSTANTS
    Writers = {w1, w2}
    MaxEvents = 4
PROPERTY
    FollowsTransitionTable
CHECK_DEADLOCK FALSE
