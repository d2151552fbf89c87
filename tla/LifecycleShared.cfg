CONSTANTS
    s1 = s1
    s2 = s2
    t1 = t1
    t2 = t2
    a1 = a1
    shared = shared
    Starter = {s1, s2}
    Adder = {a1}
    Stopper = {t1, t2}
    Dir = {shared}
    DirFor <- MCSharedDir
    Environment <- MCShared
    None = None
SPECIFICATION FairSpec
INVARIANTS
    AlreadyRunningIsTrue
    OneServingPerDirectory
PROPERTIES
    CommandsEnd
    ShutdownWakes
    ImplementsLease
    WaitsForOwnRun
CHECK_DEADLOCK FALSE
