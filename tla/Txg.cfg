CONSTANTS
    c1 = c1
    c2 = c2
    Client <- Clients
    max_ncpus = 2
    TxgFirst = 4
    MaxTxg = 7
    MaxCallbackTxg = 5
    SpuriousWakeups = TRUE
SPECIFICATION Spec
SYMMETRY ClientSymmetry
INVARIANTS
    NoLostWakeup
    StopLeavesNothing
PROPERTIES
    ImplementsOrder
