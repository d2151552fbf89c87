CONSTANTS
    a = a
    b = b
    x = x
    Change <- MCChange
    Candidate <- MCCandidate
    Outsider <- MCOutsider
    Conn = {h1}
    VCS = "jj"
    MergeMode = "rebase"
    MaxRuns = 1
    MaxMoves = 1
    MaxLives = 1
SYMMETRY ChangeSymmetry
SPECIFICATION Spec
INVARIANTS
    VerdictsMatchBase
    LandingsStay
PROPERTIES
    EachImplementsLanding
    BaseOnlyAdvances
CHECK_DEADLOCK FALSE
