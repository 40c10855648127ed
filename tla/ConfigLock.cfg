SPECIFICATION FairSpec
CONSTANTS
    sync = sync
    admin = admin
    other = other
    NoThread = NoThread
    SCL_LOCKS = 7
    Thread <- MCThread
    Workloads <- MCWorkloads
INVARIANTS
    SleepersAreWoken
    SomebodyRuns
PROPERTY
    WriterNotStarved
