SPECIFICATION Safe
CONSTANTS
    Remotes = {r1}
    Configs = {a}
    Requests = {q1}
    Main = Main
    NoRow = NoRow
    Nobody = Nobody
    MaxWrites = 1
CHECK_DEADLOCK FALSE
INVARIANTS
    RunStopsEveryWorker
