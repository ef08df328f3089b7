SPECIFICATION Spec
CONSTANTS
    w1 = w1
    w2 = w2
    nobody = nobody
    NoTransfer = NoTransfer
    Transfers = {t1, t2}
    Deadlines = {0}
    MaxTime = 0
    STUCK_LIMIT = 1
    WalletIds <- MCWalletIds
    Wallets <- MCWallets
    Seed <- MCSeed
    MaxReplays = 1
    MaxBalance = 9
    Requests <- MCTwoRequests
    Budget <- Repetitions
    MaxFaults = 2
INVARIANT
    FailedDebitMeansNoDebit
CHECK_DEADLOCK FALSE
