SPECIFICATION HistorySpec
CONSTANTS
    Nodes <- McNodes
    Edges <- McEdges
    Home <- McHome
    UnitIds = {u1, u2}
    Names = {x, y}
    Clients = {c1}
    a = a
    b = b
    Local = Local
    Absent = Absent
    Nothing = Nothing
    Buffer = 1
    MaxWrites = 2
CHECK_DEADLOCK FALSE
INVARIANTS
    TypeOK
PROPERTIES
    KeepsCopy
    PassNeverRegresses
    MirrorCatchesUp
