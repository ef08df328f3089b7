SPECIFICATION Spec
CONSTANTS
    t1 = t1
    t2 = t2
    w1 = w1
    w2 = w2
    c1 = c1
    c2 = c2
    c3 = c3
    c4 = c4
    c5 = c5
    NoCall = NoCall
    Transfers <- MCTransfers
    WalletIds <- MCWallets
    Wallets <- MCWallets
    Seed <- MCSeed
    MaxBalance = 4
    Requests <- MCRequests
    Calls <- MCCalls
    Arguments <- MCArguments
INVARIANTS
    TypeOK
    ReturnedIsRecorded
PROPERTIES
    CallsAreAtomic
    EveryCallEnds
CHECK_DEADLOCK FALSE
