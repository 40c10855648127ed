SPECIFICATION Spec
CONSTANTS
    t1 = t1
    t2 = t2
    t3 = t3
    t4 = t4
    Thread = {t1, t2, t3, t4}
    Workloads <- MCWorkloads
    UINT64_MAX = 15
    z_max_blksz = 2
    SPA_MAXBLOCKSIZE = 4
SYMMETRY ThreadSymmetry
INVARIANTS
    TreeMatchesHandles
    SleepsOnConflict
    AppendNoOverwrite
    NothingPastEof
    LogsWholeBlock
