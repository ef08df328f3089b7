SPECIFICATION TX_FairSpec
CONSTANTS
    w1 = w1
    w2 = w2
    NoTransfer = NoTransfer
    Transfers = {t1, t2}
    WalletIds = {w1, w2}
    Deadlines = {0, 1}
    MaxTime = 2
    STUCK_LIMIT = 1
    Requests <- MCRequests
INVARIANTS
    TX_TypeOK
    AnnouncedOnce
    CompensatedOnce
PROPERTIES
    TerminalIsFinal
    EveryTransferEnds
