SPECIFICATION LiveSpec
CONSTANTS
    Slots = {s1, s2}
    Users = {u1}
    Names = {n1, n2}
    Emails = {e1}
    Institutions = {i1}
    Belongs <- OneInstitution
    AddressOf <- OwnAddress
    AdminEmails = {}
    Operations = {"verifyOtp", "setUsername", "verifyEmail", "confirmEmail"}
    NewStatuses = {"active"}
    MaxFailures = 1
    Blank = Blank
    NoUser = NoUser
    NoName = NoName
    NoEmail = NoEmail
    NoInst = NoInst
PROPERTIES
    Onboards
