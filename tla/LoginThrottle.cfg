SPECIFICATION Spec
CONSTANTS
    Attempts = {a1, a2}
    c = c
    p = p
    Clients = {c, p}
    Proxies = {p}
    Junk = Junk
    Users = {u}
    FakeHops <- McFakeHops
    Chains <- McChains
    Limit = 2
    Window = 2
    PruneSize = 1
INVARIANTS
    TypeOK
    ThrottleExact
    WindowBounded
    CountedAtOrigin
PROPERTIES
    BlockEnds
