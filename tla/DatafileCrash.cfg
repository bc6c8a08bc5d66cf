CONSTANTS
    N = 2
    MaxLen = 1
    Tag = {t1, t2}
    Base = {0}
    MaxSize = 11
    MaxCommits = 3
    MaxLost = 1
    Modes = {1}
    Faults = {"crash"}
SPECIFICATION Spec
INVARIANTS
    Recovers
SYMMETRY Tags
CHECK_DEADLOCK FALSE
