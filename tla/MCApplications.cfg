SPECIFICATION Spec
CONSTANTS
    Writers = {w1, w2, w3}
    MaxEvents = 4
SYMMETRY WriterSymmetry
INVARIANTS
    AuditTrailIsChain
    EveryChangeWasOnceLegal
    StagesFollowSubmission
    TimelineInCommitOrder
CHECK_DEADLOCK FALSE
