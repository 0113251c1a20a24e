SPECIFICATION Spec
CONSTANTS
    Users = {u1}
    Devices = {d1, d2}
    Slots = {s1, s2}
    NoUser = NoUser
    NoDevice = NoDevice
    MaxOtps = 3
    MaxOutside = 2
SYMMETRY Symmetry
INVARIANTS
    TypeOK
    SingleDevice
PROPERTIES
    SessionsVouched
