SPECIFICATION Spec
CONSTANTS
    Names = {x, y}
    Passwords = {p, q}
    NoPassword = NoPassword
    Keep = Keep
    Issuers = {i}
    Subjects = {s}
    Local = Local
    NoRole = NoRole
    Issued = Issued
    SessionIds = {t1, t2}
    KeyIds = {k}
    NoOne = NoOne
    Absent = Absent
    Requests = {r1, r2}
    x = x
    y = y
    p = p
    i = i
    s = s
    FirstRows <- McFirstRows
    AdminName = x
    AdminPassword = p
    MaxUsers = 3
    MaxRequests = 3
SYMMETRY McSymmetry
INVARIANTS
    TypeOK
    SignedInAsSubject
    ResetIsFinal
    RoleAsGranted
PROPERTIES
    AdminRemains
