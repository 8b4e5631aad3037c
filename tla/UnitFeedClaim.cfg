SPECIFICATION Spec
CONSTANTS
    UnitIds = {u1}
    Names = {n1, n2}
    Labels = {l1}
    Places = {p1}
    Times = {0, 1}
    Precision = 1
    Cutoffs = {1}
    Remotes = {r1}
    Calls = {c1, c2}
    MaxCommits = 3
    Local = Local
    Absent = Absent
    NoPosition = NoPosition
    Idle = Idle
CHECK_DEADLOCK FALSE
INVARIANTS
    FeedEndsAtTable
