SPECIFICATION Spec
CONSTANTS
    Slots = {s1, s2}
    Users = {u1}
    Tokens = {t1, t2}
    Types = {mobile}
    Messages = {m1}
    Notes = {n1, n2}
    ClientStatuses = {"read"}
    NoUser = NoUser
    NoToken = NoToken
    NoType = NoType
    NoMessage = NoMessage
    NoNote = NoNote
SYMMETRY Symmetry
INVARIANTS
    TypeOK
    ActiveTokensBounded
    DuplicatesBounded
    ReadForGood
    FailedUndelivered
PROPERTIES
    DuplicatesAdmitted
