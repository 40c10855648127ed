CONSTANTS
    c1 = c1
    c2 = c2
    Client <- Clients
    max_ncpus = 1
    TxgFirst = 4
    MaxTxg = 5
    MaxCallbackTxg = 4
    SpuriousWakeups = FALSE
SPECIFICATION FairSpec
PROPERTIES
    WaitSyncedReturns
    StopReturns
    HoldsReachDisk
