SPECIFICATION HistorySpec
CONSTANTS
    Nodes <- McNodes
    Edges <- McMutualEdges
    Home <- McHome
    UnitIds = {u1}
    Names = {x}
    Clients = {c1}
    a = a
    b = b
    Local = Local
    Absent = Absent
    Nothing = Nothing
    Buffer = 0
    MaxWrites = 1
CHECK_DEADLOCK FALSE
PROPERTIES
    DeletedEverywhere
