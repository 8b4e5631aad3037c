SPECIFICATION Spec
CONSTANTS
    Remotes = {r1}
    Configs = {a, b}
    Requests = {q1}
    Main = Main
    NoRow = NoRow
    Nobody = Nobody
    MaxWrites = 2
CHECK_DEADLOCK FALSE
INVARIANTS
    TypeOK
    OneWorkerPerRemote
    WorkersInHand
    RequestRemembered
PROPERTIES
    ReconcileExact
    WorkersFollowTable
    RunReturnsInTheEnd
    TriggerHonoured
