CONSTANTS
    N = 2
    MaxLen = 1
    Tag = {t1, t2}
    Base = {1}
    MaxSize = 10
    MaxCommits = 3
    MaxLost = 1
    Modes = {1, 2}
    Faults = {"write"}
SPECIFICATION Spec
INVARIANTS
    TypeOK
    ReadsBack
    HeaderLeads
    RecoversInPlace
    CommitTells
PROPERTIES
    ReadersUndisturbed
    ImplementsStore
SYMMETRY Tags
CHECK_DEADLOCK FALSE
