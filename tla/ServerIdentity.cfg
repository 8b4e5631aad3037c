SPECIFICATION Spec
CONSTANTS
    Keys = {k1, k2, k3}
    Uuids = {u1, u2}
    None = None
    Torn = Torn
INVARIANTS
    TypeOK
    PublicMatchesPrivate
    RegistrationHolds
    RefusedOnlyIfCutShort
