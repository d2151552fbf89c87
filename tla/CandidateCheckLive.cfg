SPECIFICATION FairSpec
CONSTANTS
    Main = main
    Job = {main, lint}
    Worker = {w1, w2}
    Conn = {c1, c2, c3}
    Command = {"start", "wait"}
    Awaited = {TRUE}
    WaitsFor <- MCEachOther
    WaitsForChildren = FALSE
PROPERTIES CompletedWaitReturns CheckEnds ThreadsWindDown
CHECK_DEADLOCK FALSE
