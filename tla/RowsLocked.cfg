SPECIFICATION Spec
CONSTANTS
    Polls = {p1, p2}
    Rows <- MCRows
    OUTBOX_BATCH_SIZE = 2
    MaxFailedSends = 1
    MaxAborts = 0
INVARIANT
    RowsLocked
CHECK_DEADLOCK FALSE
