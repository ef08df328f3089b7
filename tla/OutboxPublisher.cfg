SPECIFICATION Spec
CONSTANTS
    Polls = {p1, p2}
    Rows <- MCRows
    OUTBOX_BATCH_SIZE = 2
    MaxFailedSends = 1
    MaxAborts = 1
INVARIANTS
    TypeOK
    MarkedWasSent
    CopiesExplained
PROPERTY
    EveryRowPublished
CHECK_DEADLOCK FALSE
