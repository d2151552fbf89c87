SPECIFICATION Spec
CONSTANTS
    Main = main
    Job = {main, lint}
    Worker = {w1, w2}
    Conn = {c1, c2, c3}
    Command = {"start", "wait", "log", "fail", "failIgnored"}
    Awaited = {TRUE, FALSE}
    WaitsFor <- MCEachOther
    WaitsForChildren = FALSE
SYMMETRY ThreadSymmetry
INVARIANTS TypeOK JobsAccountedFor WaitsAgreeWithVerdict
PROPERTY ImplementsJobVerdict
CHECK_DEADLOCK FALSE
