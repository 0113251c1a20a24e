SPECIFICATION Spec
CONSTANTS
    Slots = {s1}
    Users = {u1}
    Names = {n1}
    Emails = {e1, e2}
    Institutions = {i1, i2}
    Belongs <- InstitutionOf
    AdminEmails = {}
    Operations = {"verifyOtp", "setUsername", "verifyEmail", "confirmEmail"}
    NewStatuses = {"active"}
    Blank = Blank
    Rivals = {}
    NoUser = NoUser
    NoName = NoName
    NoEmail = NoEmail
    NoInst = NoInst
INVARIANTS
    VerifiedEmailVouched
CHECK_DEADLOCK FALSE
