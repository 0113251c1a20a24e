SPECIFICATION Spec
CONSTANTS
    Slots = {s1, s2}
    Users = {u1, u2}
    Names = {n1, Blank}
    Emails = {e1}
    Institutions = {i1}
    Belongs <- InstitutionOf
    AdminEmails = {}
    Operations = {"verifyOtp", "setUsername", "changeUsername", "profile", "verifyEmail", "confirmEmail", "activate", "manage", "detach", "delete", "moderate"}
    NewStatuses = {"blocked"}
    Blank = Blank
    Rivals = {u2}
    NoUser = NoUser
    NoName = NoName
    NoEmail = NoEmail
    NoInst = NoInst
SYMMETRY Symmetry
CONSTRAINT RivalsStayPending
INVARIANTS
    TypeOK
    EmailComesLast
    UserNamesUnique
PROPERTIES
    SetUsernameOnlyPending
    DeletedStaysDeleted
CHECK_DEADLOCK FALSE
