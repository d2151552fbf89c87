SPECIFICATION Spec
CONSTANTS
    Main = main
    Job = {main, lint}
    Worker = {w1, w2}
    Conn = {c1, c2, c3, c4}
    Command = {"start", "wait", "log", "fail"}
    Awaited = {TRUE}
    WaitsFor <- MCEachOther
    WaitsForChildren = TRUE
SYMMETRY ThreadSymmetry
INVARIANTS AcknowledgedJobsCounted FatalStepFails
CHECK_DEADLOCK FALSE
