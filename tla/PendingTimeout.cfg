SPECIFICATION Spec
CONSTANTS
    w1 = w1
    w2 = w2
    nobody = nobody
    NoTransfer = NoTransfer
    Transfers = {t1}
    Deadlines = {0}
    MaxTime = 1
    STUCK_LIMIT = 1
    WalletIds <- MCWalletIds
    Wallets <- MCWallets
    Seed <- MCSeed
    MaxReplays = 1
    MaxBalance = 9
    Requests <- MCRequests
    Budget <- NoFaults
    MaxFaults = 2
PROPERTY
    PendingTimeoutMeansNoDebit
CHECK_DEADLOCK FALSE
