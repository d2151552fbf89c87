SPECIFICATION Spec
CONSTANTS
    Main = main
    Job = {main, lint}
    Worker = {w1, w2}
    Conn = {c1, c2}
    Command = {"start", "wait"}
    Awaited = {TRUE}
    WaitsFor <- MCEachOther
    WaitsForChildren = FALSE
SYMMETRY ThreadSymmetry
INVARIANTS AcknowledgedJobsCounted
CHECK_DEADLOCK FALSE
