SPECIFICATION Spec
CONSTANTS
    UnitIds = {u1, u2}
    Names = {n1, n2}
    Labels = {l1, l2}
    Places = {p1}
    Times = {0}
    Precision = 1
    Cutoffs = {1}
    Remotes = {r1, r2}
    Calls = {c1, c2, c3}
    MaxCommits = 3
    Local = Local
    Absent = Absent
    NoPosition = NoPosition
    Idle = Idle
SYMMETRY Symmetry
CHECK_DEADLOCK FALSE
INVARIANTS
    TableConsistent
    EveryChangeAnnounced
    NewestEventTellsTruth
    FeedEndsInOrder
PROPERTIES
    OnlyOwnerWrites
