CONSTANTS
    s1 = s1
    s2 = s2
    t1 = t1
    t2 = t2
    a1 = a1
    shared = shared
    Starter = {s1, s2}
    Adder = {}
    Stopper = {t1}
    Dir <- Launcher
    DirFor <- MCOwnDir
    Environment <- MCOwn
    None = None
SYMMETRY StarterSymmetry
SPECIFICATION Spec
INVARIANTS
    TypeOK
    LiveNotMasked
    StopMeansGone
    RuntimeKept
PROPERTY ImplementsLease
CHECK_DEADLOCK FALSE
