SPECIFICATION Spec
CONSTANTS
    Main = main
    Job = {main, lint}
    Worker = {w1, w2}
    Conn = {c1, c2, c3}
    Command = {"log", "fail", "failIgnored"}
    Awaited = {TRUE}
    WaitsFor <- MCEachOther
    WaitsForChildren = TRUE
SYMMETRY ThreadSymmetry
INVARIANTS FatalStepFails
CHECK_DEADLOCK FALSE
