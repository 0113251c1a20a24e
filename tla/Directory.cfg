SPECIFICATION Spec
CONSTANTS
    u1 = u1
    u2 = u2
    u3 = u3
    u4 = u4
    Me = Me
    NoUser = NoUser
    Users = {Me, u1, u2, u3, u4}
    Known <- MCKnown
    Related <- MCRelated
    Asks <- MCAsks
    Limit = 1
    MaxOutside = 3
INVARIANTS
    TypeOK
    PagesAccounted
    StrangersOffered
CHECK_DEADLOCK FALSE
