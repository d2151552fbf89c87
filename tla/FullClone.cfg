CONSTANTS
    a = a
    b = b
    x = x
    Change <- MCChange
    Setting <- MCFullClone
    Process = {p1}
    Pid = {i1}
    Base <- MCBase
    Candidate <- MCCandidate
    MergeMode = "rebase"
    None = None
SPECIFICATION Spec
PROPERTY EveryModeExports
CHECK_DEADLOCK FALSE
