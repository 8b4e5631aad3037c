SPECIFICATION Spec
CONSTANTS
    UnitIds = {u1, u2}
    Names = {n1, n2}
    Labels = {l1}
    Places = {p1, p2}
    Times = {0, 1, 2}
    Precision = 2
    Cutoffs = {1, 3}
    Remotes = {r1}
    Calls = {c1}
    MaxCommits = 4
    Local = Local
    Absent = Absent
    NoPosition = NoPosition
    Idle = Idle
SYMMETRY Symmetry
CHECK_DEADLOCK FALSE
INVARIANTS
    TypeOK
    NewestBacksPosition
PROPERTIES
    NewestNeverRegresses
