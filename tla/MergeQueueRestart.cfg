CONSTANTS
    a = a
    b = b
    x = x
    Change <- MCChange
    Candidate <- MCOneCandidate
    Outsider <- MCOutsider
    Conn = {h1, h2, h3}
    VCS = "jj"
    MergeMode = "merge"
    MaxRuns = 1
    MaxMoves = 1
    MaxLives = 2
SPECIFICATION FairSpec
PROPERTIES
    ImplementsLanding
    AckedWaitAnswered
    ShutdownCompletes
CHECK_DEADLOCK FALSE
