CONSTANTS
    N = 2
    MaxLen = 1
    Tag = {t1, t2}
    Base = {1}
    MaxSize = 10
    MaxCommits = 2
    MaxLost = 1
    Modes = {1}
    Faults = {"write"}
SPECIFICATION Spec
INVARIANTS
    SuccessIsTrue
SYMMETRY Tags
CHECK_DEADLOCK FALSE
