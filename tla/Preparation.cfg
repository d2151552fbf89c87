CONSTANTS
    a = a
    b = b
    x = x
    Change <- MCChange
    Setting <- MCSetting
    Process = {p1, p2, p3}
    Pid = {i1, i2}
    Base <- MCBase
    Candidate <- MCCandidate
    MergeMode = "rebase"
    None = None
SYMMETRY PidSymmetry
SPECIFICATION Spec
INVARIANTS
    TypeOK
    OwnTree
    PassedAsPrepared
    NoLeftovers
    LeftoversPurged
    NotBlocked
CHECK_DEADLOCK FALSE
