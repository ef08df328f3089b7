SPECIFICATION W_Spec
CONSTANTS
    t1 = t1
    t2 = t2
    w1 = w1
    w2 = w2
    Transfers <- MCTransfers
    WalletIds <- MCWallets
    Wallets <- MCWallets
    Seed <- MCSeed
    Requests <- MCRequests
    Inputs <- MCInputs
    MaxBalance <- MCMaxBalance
    MaxFailures = 2
    MaxReplays = 2
INVARIANTS
    W_TypeOK
    BalanceAccounted
    EntryAnnouncedOnce
    ProcessedMeansRefunded
