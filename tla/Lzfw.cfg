SPECIFICATION Spec
CONSTANTS
    t1 = t1
    t2 = t2
    i1 = i1
    i2 = i2
    Null = Null
    Root = Root
    Thread <- Threads
    Name <- Names
    Ino <- Inos
    MaxHandles = 1
    Workloads <- MCWorkloads
SYMMETRY Symmetry
INVARIANTS
    RemovedAlone
    UnlinkedSetExact
    GenerationHolds
    NoDirlockCycle
    HoldsBalance
    ChecksBeforeUse
