SPECIFICATION Spec
CONSTANTS
    Slots = {s1, s2}
    MaxUsers = 2
    Emails = {e1, e2}
    Phones = {p1, p2}
    Insts = {i1, i2}
    Limits = {1, 2}
    MaxRows = 2
    Names = {n1}
    NoName = NoName
    NoEmail = NoEmail
    NoPhone = NoPhone
    NoInst = NoInst
CONSTRAINT NamesAlone
SYMMETRY Symmetry
INVARIANTS
    TypeOK
    AdmittedFits
    DryRunsPredict
PROPERTIES
    OthersStay
    SharedByRaces
