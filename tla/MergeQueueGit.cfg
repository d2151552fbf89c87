CONSTANTS
    a = a
    b = b
    x = x
    Change <- MCChange
    Candidate <- MCCandidate
    Outsider <- MCOutsider
    Conn = {h1, h2, h3}
    VCS = "git"
    MergeMode = "rebase"
    MaxRuns = 2
    MaxMoves = 1
    MaxLives = 1
SYMMETRY ConnSymmetry
SPECIFICATION Spec
INVARIANTS
    TypeOK
    VerdictMatchesBase
    OneHolder
    ServedInAckOrder
    DrainedBeforeExit
PROPERTIES
    ImplementsLanding
    ResultIsFinal
CHECK_DEADLOCK FALSE
