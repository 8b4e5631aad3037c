SPECIFICATION Spec
CONSTANTS
    Subs = {s1, s2}
    Cap = 1
    MaxEvents = 3
CHECK_DEADLOCK FALSE
INVARIANTS
    TypeOK
    GapFree
    NoPanic
PROPERTIES
    ShutdownEndsStreams
    RevokedEnds
    KeepsPromise
