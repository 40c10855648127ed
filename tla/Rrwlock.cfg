SPECIFICATION FairSpec
CONSTANTS
    t1 = t1
    t2 = t2
    t3 = t3
    Thread <- Threads
    MaxDepth = 3
    SpuriousWakeups = TRUE
INVARIANTS
    WriterExcludesReaders
    ReentryNeverWaits
PROPERTY
    WriterNotStarved
