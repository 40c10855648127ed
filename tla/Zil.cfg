SPECIFICATION Spec
SYMMETRY MCSymmetry
CONSTANTS
    b1 = b1
    b2 = b2
    b3 = b3
    f1 = f1
    f2 = f2
    t1 = t1
    t2 = t2
    Threads = {t1, t2}
    Files = {f1, f2}
    Dir = dir
    Blocks = {b1, b2, b3}
    Workloads <- MCWorkloads
CHECK_DEADLOCK FALSE
INVARIANTS
    CommittedSurvive
    ReplayNeverFails
    LogBlocksExact
    SleepersHaveWakers
    SuspendedLogIsEmpty
