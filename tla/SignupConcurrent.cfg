SPECIFICATION OverlapSpec
CONSTANTS
    Slots = {s1, s2}
    Phones = {p1, p2}
    Ids = {u1, u2, u3}
    AllowedCounts = {1, 2}
    DefaultAllowed = 2
    Requests = {"unified", "managed", "delete"}
    NoPhone = NoPhone
    NoId = NoId
SYMMETRY Symmetry
INVARIANTS
    TypeOK
    QuotaOvershootBounded
    PhoneOvershootBounded
    OneAtATime
PROPERTIES
    ChecksAreAdmission
