SPECIFICATION SmoothSpec
CONSTANTS
    Slots = {s1}
    Users = {u1}
    Names = {n1}
    Emails = {e1, e2, e3}
    Institutions = {i1, i2}
    Belongs <- InstitutionOf
    AdminEmails = {e3}
    Operations = {"verifyOtp", "setUsername", "changeUsername", "profile", "verifyEmail", "confirmEmail", "activate", "manage", "detach", "delete", "moderate"}
    NewStatuses = {"active", "blocked"}
    Blank = Blank
    Rivals = {}
    NoUser = NoUser
    NoName = NoName
    NoEmail = NoEmail
    NoInst = NoInst
SYMMETRY Symmetry
INVARIANTS
    VerifiedEmailVouched
CHECK_DEADLOCK FALSE
