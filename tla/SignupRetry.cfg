SPECIFICATION RetrySpec
CONSTANTS
    Slots = {s1, s2}
    Phones = {p1}
    Ids = {u1, u2}
    AllowedCounts = {2}
    DefaultAllowed = 2
    Requests = {"unified", "managed"}
    MaxFailures = 2
    NoPhone = NoPhone
    NoId = NoId
PROPERTIES
    Registers
