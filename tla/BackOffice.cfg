SPECIFICATION Spec
CONSTANTS
    u1 = u1
    u2 = u2
    i1 = i1
    Users = {u1, u2}
    Insts = {i1}
    Friends <- MCFriends
    Slots = {s1, s2}
    Reports = {r1}
    NoInst = NoInst
    Super = Super
    NoUser = NoUser
    NoReport = NoReport
    OldUsers <- MCOldUsers
    OldAdmins <- MCOldAdmins
    OldPhones <- MCOldPhones
    MaxOutside = 1
SYMMETRY Symmetry
INVARIANTS
    TypeOK
    ScriptsComplete
PROPERTIES
    ReportsSound
    BlockedStay
    SyncVouched
