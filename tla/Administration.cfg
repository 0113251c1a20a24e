SPECIFICATION Spec
CONSTANTS
    Slots = {s1, s2}
    Admins = {a1, a2}
    Emails = {e1, e2}
    Names = {n1, n2}
    Phones = {p1}
    Insts = {i1}
    Domains = {d1}
    Domain <- OneDomain
    GroupMade = {TRUE}
    MaxRenames = 1
    MaxFailures = 1
    NoAdmin = NoAdmin
    NoEmail = NoEmail
    NoName = NoName
    NoPhone = NoPhone
    NoInst = NoInst
    NoDomain = NoDomain
CHECK_DEADLOCK FALSE
SYMMETRY Symmetry
INVARIANTS
    TypeOK
    FailedOnboardingsUndone
    AccountsMatch
    PhonesSharedByRaces
PROPERTIES
    Compensated
