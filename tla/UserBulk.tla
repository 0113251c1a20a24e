------------------------------- MODULE UserBulk -------------------------------
(***************************************************************************)
(* UserBulkUploadService: files of users that an institution creates or    *)
(* links, one row after the other, with createInstitutionManagedUser and   *)
(* updateInstitutionManagedUser.                                           *)
(*                                                                         *)
(* What becomes of a row is settled before the first one is written, from  *)
(* one reading of the users; by the time its turn has come the users may   *)
(* have changed, by earlier rows, by another upload, by sign-ups and       *)
(* deletions.  A dry run does the reading and settling only.               *)
(*                                                                         *)
(* A sign-up takes the steps of a row that creates a user: it counts, it   *)
(* looks for its phone number, and it writes.                              *)
(***************************************************************************)
EXTENDS Integers, FiniteSets, Sequences, Functions

CONSTANTS
    Slots,    \* uploads and sign-ups the service handles at the same time
    MaxUsers, \* bound: documents of users that are ever made
    Emails, Phones, Insts, Names,
    Limits,   \* what allowedUserCount may be
    MaxRows,  \* bound: rows of the files under way
    NoEmail, NoPhone, NoInst,
    NoName    \* no user name, or a temporary one, which is nobody else's

ASSUME SlotsAssumption == IsFiniteSet(Slots)
ASSUME NatAssumption == Limits \subseteq Nat /\ MaxUsers \in Nat /\ MaxRows \in Nat
ASSUME NoneAssumption ==
    /\ NoEmail \notin Emails /\ NoPhone \notin Phones
    /\ NoInst \notin Insts /\ NoName \notin Names

VARIABLES
    users,     \* the documents of users, in the order they were made
    allowed,   \* the limit on the number of users, while it is enforced
    slot,      \* the state of each upload and each sign-up
    disturbed  \* history: whether someone else wrote since the upload read the users of its
               \* file (a sign-up has read none), and since it looked for those of its row

vars == <<users, allowed, slot, disturbed>>

User == [live : BOOLEAN, email : Emails \cup {NoEmail},
         phone : Phones \cup {NoPhone}, inst : Insts \cup {NoInst}, name : Names \cup {NoName}]
Users == 1 .. Len(users)
\* Nothing looks at a deleted document again: its fields are left out.  Its user name is
\* another.
Gone == [live |-> FALSE, email |-> NoEmail, phone |-> NoPhone, inst |-> NoInst, name |-> NoName]
NoUser == 0

\* A row that is written: it links a user, or it creates one.  The others are counted only.
Row == [user : 0 .. MaxUsers, email : Emails \cup {NoEmail}, phone : Phones \cup {NoPhone},
        name : Names \cup {NoName}]
\* Those that are still to be written, by their place in the file.
Rows == UNION {[N -> Row] : N \in SUBSET (1 .. MaxRows)}
NoRows == <<>>
Linking == {"findEmail", "findName", "link"}
Creating == {"find", "insert"}
Labels == {"idle", "row"} \cup Linking \cup Creating
\* was: the name of the user that is linked, as it was read.
Request == [pc : Labels, inst : Insts \cup {NoInst}, rows : Rows, was : Names \cup {NoName}]
Idle == [pc |-> "idle", inst |-> NoInst, rows |-> NoRows, was |-> NoName]

Busy(s) == slot[s].pc \in Linking \cup Creating
Left(s) == DOMAIN slot[s].rows
\* The next row, or the one that is being written.
First(s) == CHOOSE n \in Left(s) : \A m \in Left(s) : n <= m
Row1(s) == slot[s].rows[First(s)]

TypeOK ==
    /\ users \in Seq(User) /\ Len(users) <= MaxUsers
    /\ \A u \in Users : users[u].live => users[u].phone \in Phones
    /\ allowed \in Limits
    /\ slot \in [Slots -> Request]
    /\ \A s \in Slots :
          /\ Busy(s) => Left(s) # {}
          /\ slot[s].pc \in Linking => Row1(s).user \in Users
    /\ disturbed \in [Slots -> {"no", "file", "row"}]
    /\ \A s \in Slots : disturbed[s] = "row" => Busy(s)

-----------------------------------------------------------------------------
At(s, l) == slot[s].pc = l
Live(u) == users[u].live
Living == {u \in Users : Live(u)}
WithEmail(e) == {u \in Living : users[u].email = e}
WithPhone(p) == {u \in Living : users[u].phone = p}
\* Nobody but user u has the name.
NameFree(name, u) == name = NoName \/ \A v \in Living \ {u} : users[v].name # name
Total == Cardinality(Living)

Init ==
    /\ users = <<>>
    /\ allowed \in Limits
    /\ slot = [s \in Slots |-> Idle]
    /\ disturbed = [s \in Slots |-> "no"]

Become(s, r) == slot' = [slot EXCEPT ![s] = r]
Goto(s, l) == Become(s, [slot[s] EXCEPT !.pc = l])
\* A row is over, whatever has become of it; its outcome is counted.
NextRow(s) ==
    Become(s, [slot[s] EXCEPT !.pc = "row", !.was = NoName,
                              !.rows = Restrict(@, Left(s) \ {First(s)})])

Disturbing(t) == CASE At(t, "idle") -> "no" [] At(t, "row") -> "file" [] OTHER -> "row"
Quiet(s) == IF disturbed[s] = "no" THEN "no" ELSE "file"
\* Whoever writes disturbs the others.
Disturb(s) ==
    disturbed' = [t \in Slots |-> IF t = s THEN Quiet(s) ELSE Disturbing(t)]
\* A look at the users starts the row, and the end of the row ends it.
Settle(s) == disturbed' = [disturbed EXCEPT ![s] = Quiet(s)]
Reads == UNCHANGED <<users, allowed>>

-----------------------------------------------------------------------------
(* Settling what becomes of the rows of a file, from one reading of the users *)

\* A row of the file, once it is normalized; complete: the name, the department and the
\* form of what is given are right (or it makes no difference: address or number is missing).
\* The user name makes a difference to a valid row only.
Valid(line) == line.email # NoEmail /\ line.phone # NoPhone /\ line.complete

Line == {line \in [email : Emails \cup {NoEmail}, phone : Phones \cup {NoPhone},
                   name : Names \cup {NoName}, complete : BOOLEAN] :
            /\ ~line.complete => line.email # NoEmail /\ line.phone # NoPhone
            /\ line.name # NoName => Valid(line)}

SameEmail(file, m, n) == file[m].email = file[n].email /\ file[n].email # NoEmail
SamePhone(file, m, n) == file[m].phone = file[n].phone /\ file[n].phone # NoPhone

\* Mutant: a phone number may be repeated.
RepeatsEmail(file, n) == \E m \in 1 .. n - 1 : SameEmail(file, m, n)

\* An address seen before, or else a phone number that a row with a new address had.
Repeats(file, n) ==
    \/ \E m \in 1 .. n - 1 : SameEmail(file, m, n)
    \/ \E m \in 1 .. n - 1 :
          SamePhone(file, m, n) /\ \A k \in 1 .. m - 1 : ~SameEmail(file, k, m)

\* Of several the map keeps the one it is given last.
Pick(S) == IF S = {} THEN NoUser ELSE CHOOSE u \in S : \A v \in S : v <= u
ByEmail(line) == IF line.email = NoEmail THEN NoUser ELSE Pick(WithEmail(line.email))
ByPhone(line) == Pick(WithPhone(line.phone))

\* The user a row is about: by address, or else by phone number.
Found(line) == IF ByEmail(line) # NoUser THEN ByEmail(line) ELSE ByPhone(line)

\* Address and phone number lead to different users, or the user has another address.
Conflicts(line) ==
    /\ ByPhone(line) # NoUser
    /\ IF ByEmail(line) # NoUser
       THEN ByEmail(line) # ByPhone(line)
       ELSE line.email # NoEmail /\ users[ByPhone(line)].email # NoEmail

\* Linked without being asked: the address is the user's, the user has none, or the user
\* is in no institution.
AutoLinks(line, u) ==
    users[u].email \in {line.email, NoEmail} \/ users[u].inst = NoInst

\* Such a row is rejected: there is nothing to update.
AlreadyIn(u, i) == users[u].inst = i

\* A user that is in the institution is written again only when that is asked for.
Links(line, i, update) ==
    LET u == Found(line)
    IN  /\ u # NoUser
        /\ AlreadyIn(u, i) => update
        /\ AutoLinks(line, u) \/ update
        /\ users[u].inst \in {i, NoInst}

Writes(file, n, i, update) ==
    /\ ~Repeats(file, n)
    /\ Valid(file[n])
    /\ ~Conflicts(file[n])
    /\ Found(file[n]) = NoUser \/ Links(file[n], i, update)

\* The number matters to a new user only.
\* Mutant: it does not go with the row.
RowWithoutPhone(line) ==
    [user |-> Found(line), email |-> line.email, phone |-> NoPhone, name |-> line.name]

RowOf(line) ==
    [user |-> Found(line), email |-> line.email, name |-> line.name,
     phone |-> IF Found(line) = NoUser THEN line.phone ELSE NoPhone]

\* The rows to be written, in the order of the file.
Settled(file, i, update) ==
    [n \in {m \in DOMAIN file : Writes(file, m, i, update)} |-> RowOf(file[n])]

\* Mutant: the rows whose phone number is unknown are forgotten.
ProjectedSome(file) ==
    Cardinality({n \in DOMAIN file :
        ~Repeats(file, n) /\ ~Conflicts(file[n]) /\ WithPhone(file[n].phone) # {}})

\* The rows nobody is found for, those that turn out to be invalid included.
Projected(file) ==
    Cardinality({n \in DOMAIN file :
        ~Repeats(file, n) /\ ~Conflicts(file[n]) /\ Found(file[n]) = NoUser})

-----------------------------------------------------------------------------
(* The upload *)

UnderWay == Cardinality({p \in Slots \X (1 .. MaxRows) : p[2] \in Left(p[1])})

\* processUpload, up to the first row.  The whole file is refused when its new users do not
\* fit; a dry run ends here, with the outcomes it has settled.
StartUpload(s, i, file, update) ==
    /\ At(s, "idle")
    /\ Total + Projected(file) <= allowed
    /\ Become(s, [Idle EXCEPT !.pc = "row", !.inst = i, !.rows = Settled(file, i, update)])
    /\ disturbed' = [disturbed EXCEPT ![s] = "no"]
    /\ UNCHANGED <<users, allowed>>

HasRow(s) == At(s, "row") /\ Left(s) # {}

\* The name of the row, or else the one that the user had.
Resolved(r, was) == IF r.name # NoName THEN r.name ELSE was
\* A name is looked for when it is new to the user.
Renamed(r, was) == IF Resolved(r, was) # was THEN "findName" ELSE "link"

\* updateInstitutionManagedUser reads the user, and looks for an address that is new to it.
ReadUser(s, u) ==
    Become(s, [slot[s] EXCEPT !.was = users[u].name,
        !.pc = IF users[u].email = Row1(s).email THEN Renamed(Row1(s), users[u].name) ELSE "findEmail"])

\* Mutant: the institution of the user is not looked at again.
ReadLinkedAnywhere(s) ==
    LET u == Row1(s).user
    IN  /\ HasRow(s) /\ u # NoUser
        /\ IF Live(u) THEN ReadUser(s, u) ELSE NextRow(s)
        /\ Settle(s) /\ Reads

ReadLinked(s) ==
    LET u == Row1(s).user
    IN  /\ HasRow(s) /\ u # NoUser
        /\ IF Live(u) /\ users[u].inst \in {slot[s].inst, NoInst} THEN ReadUser(s, u) ELSE NextRow(s)
        /\ Settle(s) /\ Reads

FindEmail(s) ==
    /\ At(s, "findEmail")
    /\ IF WithEmail(Row1(s).email) \ {Row1(s).user} = {}
       THEN Goto(s, Renamed(Row1(s), slot[s].was)) /\ UNCHANGED disturbed
       ELSE NextRow(s) /\ Settle(s)
    /\ Reads

FindName(s) ==
    /\ At(s, "findName")
    /\ IF NameFree(Resolved(Row1(s), slot[s].was), Row1(s).user)
       THEN Goto(s, "link") /\ UNCHANGED disturbed
       ELSE NextRow(s) /\ Settle(s)
    /\ Reads

\* What a row writes to the user it links.
Written(s, user) ==
    [user EXCEPT !.email = Row1(s).email, !.inst = slot[s].inst,
                 !.name = Resolved(Row1(s), slot[s].was)]

\* Mutant: a deleted user is written too.
LinkAny(s) ==
    LET u == Row1(s).user
    IN  /\ At(s, "link")
        /\ users' = [users EXCEPT ![u] = [Written(s, @) EXCEPT !.live = TRUE]]
        /\ NextRow(s) /\ Disturb(s)
        /\ UNCHANGED allowed

\* The write asks only that the user is there still; the row succeeds in any case.  A name
\* that is taken by now is rejected by its unique index: Abort.
Link(s) ==
    LET u == Row1(s).user
    IN  /\ At(s, "link")
        /\ Live(u) => NameFree(Resolved(Row1(s), slot[s].was), u)
        /\ users' = IF Live(u) THEN [users EXCEPT ![u] = Written(s, @)] ELSE users
        /\ NextRow(s) /\ Disturb(s)
        /\ UNCHANGED allowed

\* createInstitutionManagedUser: the limit again, then address, number and name, then the
\* user.
CheckLimit(s) ==
    /\ HasRow(s) /\ Row1(s).user = NoUser
    /\ IF Total + 1 <= allowed THEN Goto(s, "find") ELSE NextRow(s)
    /\ Settle(s) /\ Reads

\* A row without an address, which is a sign-up, is looked for by its number alone.
EmailFree(r) == r.email = NoEmail \/ WithEmail(r.email) = {}

\* Mutant: only address and name are looked for.
FindEmailOnly(s) ==
    /\ At(s, "find")
    /\ IF EmailFree(Row1(s)) /\ NameFree(Row1(s).name, NoUser) THEN Goto(s, "insert") ELSE NextRow(s)
    /\ Settle(s) /\ Reads

FindUsers(s) ==
    /\ At(s, "find")
    /\ IF EmailFree(Row1(s)) /\ WithPhone(Row1(s).phone) = {} /\ NameFree(Row1(s).name, NoUser)
       THEN Goto(s, "insert") ELSE NextRow(s)
    /\ Settle(s) /\ Reads

\* The unique index again: Abort.
Insert(s) ==
    /\ At(s, "insert")
    /\ Len(users) < MaxUsers /\ NameFree(Row1(s).name, NoUser)
    /\ users' = Append(users, [live |-> TRUE, email |-> Row1(s).email, phone |-> Row1(s).phone,
                               inst |-> slot[s].inst, name |-> Row1(s).name])
    /\ NextRow(s) /\ Disturb(s)
    /\ UNCHANGED allowed

\* An awaited call of a row is rejected: the row fails, the rows before it stay.  So does
\* the sign-up.
Abort(s) == Busy(s) /\ NextRow(s) /\ Settle(s) /\ Reads

EndUpload(s) == At(s, "row") /\ Left(s) = {} /\ Become(s, Idle) /\ Reads
               /\ disturbed' = [disturbed EXCEPT ![s] = "no"]

-----------------------------------------------------------------------------
(* The others that write users *)

\* A person signs up with a phone number, the only row of its own.  The authentication
\* provider's part in it is left out.
StartSignup(s, p) ==
    /\ At(s, "idle")
    /\ Become(s, [Idle EXCEPT !.pc = "row",
           !.rows = <<[user |-> NoUser, email |-> NoEmail, phone |-> p, name |-> NoName]>>])
    /\ disturbed' = [disturbed EXCEPT ![s] = "file"]
    /\ Reads

DisturbAll == disturbed' = [s \in Slots |-> Disturbing(s)]

\* The later requests of the user itself, which decide on what they have read before.
VerifyEmail(u, e) ==
    /\ Live(u)
    /\ users' = [users EXCEPT ![u].email = e]
    /\ DisturbAll
    /\ UNCHANGED <<allowed, slot>>

ConfirmEmail(u, i) ==
    /\ Live(u) /\ users[u].email # NoEmail
    /\ users' = [users EXCEPT ![u].inst = i]
    /\ DisturbAll
    /\ UNCHANGED <<allowed, slot>>

ChangeUsername(u, name) ==
    /\ Live(u) /\ NameFree(name, u)
    /\ users' = [users EXCEPT ![u].name = name]
    /\ DisturbAll
    /\ UNCHANGED <<allowed, slot>>

Delete(u) ==
    /\ Live(u)
    /\ users' = [users EXCEPT ![u] = Gone]
    /\ DisturbAll
    /\ UNCHANGED <<allowed, slot>>

-----------------------------------------------------------------------------
\* What a file is read as; one that cannot be read, or lacks a column, is refused before.
\* bound: the rows of a file or a sign-up and those under way are no more than MaxRows.
Files == UNION {[1 .. n -> Line] : n \in 1 .. MaxRows - UnderWay}

Handle(s) ==
    \/ \E i \in Insts, update \in BOOLEAN, file \in Files : StartUpload(s, i, file, update)
    \/ \E p \in Phones : UnderWay < MaxRows /\ StartSignup(s, p)
    \/ ReadLinked(s) \/ FindEmail(s) \/ FindName(s) \/ Link(s)
    \/ CheckLimit(s) \/ FindUsers(s) \/ Insert(s)
    \/ Abort(s) \/ EndUpload(s)

Next ==
    \/ \E s \in Slots : Handle(s)
    \/ \E u \in Users :
          \/ \E e \in Emails : VerifyEmail(u, e)
          \/ \E i \in Insts : ConfirmEmail(u, i)
          \/ \E name \in Names : ChangeUsername(u, name)
          \/ Delete(u)

Spec == Init /\ [][Next]_vars

-----------------------------------------------------------------------------
(* Properties *)

\* What an upload has still to create.
ToCreate(s) == Cardinality({n \in Left(s) : slot[s].rows[n].user = NoUser})

\* An upload that was let in fits, row by row to its end: while nobody else has written, the
\* users there are and those it has still to create are within the limit.
\* (assertBulkUploadUserLimitNotExceeded counts before the first row.)
AdmittedFits == \A s \in Slots : disturbed[s] = "no" /\ ~At(s, "idle") => Total + ToCreate(s) <= allowed

\* What a dry run announces is what the upload does: while nobody else has written, no row
\* that was settled as a success is refused by the checks of the row itself.  Those of its user
\* name are the exception: processUpload does not settle them, and announces as a success what
\* they refuse.
\* (processUpload reports success without calling the service when dryRun is set.)
DryRunsPredict ==
    \A s \in {t \in Slots : disturbed[t] = "no"} :
        LET u == Row1(s).user
        IN  /\ HasRow(s) /\ u # NoUser => Live(u) /\ users[u].inst \in {slot[s].inst, NoInst}
            /\ HasRow(s) /\ u = NoUser => Total < allowed
            /\ At(s, "findEmail") => WithEmail(Row1(s).email) \subseteq {u}
            /\ At(s, "find") => WithEmail(Row1(s).email) = {} /\ WithPhone(Row1(s).phone) = {}

\* A request takes a step; it writes while someone else has written since it looked.
Steps(s) == slot'[s] # slot[s]
LateWrite(s) == disturbed[s] = "row" /\ slot[s].pc \in {"link", "insert"}

\* An upload moves a user from one institution to another only when another writer overtook it
\* between its look at that user and its write.
\* (updateInstitutionManagedUser refuses the users of another institution.)
MembersStay ==
    [][\A s \in Slots, u \in Users :
          /\ Steps(s)
          /\ users[u].inst # NoInst /\ users'[u].live /\ users'[u].inst # users[u].inst
          => LateWrite(s)]_vars

Shares(us, u, v) ==
    /\ us[u].live /\ us[v].live
    /\ \/ us[u].phone = us[v].phone
       \/ us[u].email = us[v].email /\ us[u].email # NoEmail

\* An upload or a sign-up makes two users share an address or a phone number only when another
\* writer, which may be a sign-up as well, overtook it between its look-ups and its write:
\* neither has a unique index.  (The requests that change the address of a user look and write
\* apart too: the module of the onboarding has them.)
SharedByRaces ==
    [][\A s \in Slots, u, v \in 1 .. Len(users') :
          Steps(s) /\ u # v /\ Shares(users', u, v) =>
              \/ u \in Users /\ v \in Users /\ Shares(users, u, v)
              \/ LateWrite(s)]_vars

\* A deleted user stays deleted, also when an upload read it before it was deleted.
\* (the write of updateInstitutionManagedUser asks for isDeleted: false.)
DeletedStay ==
    [][\A u \in Users : ~Live(u) => users'[u] = users[u]]_vars

\* An upload leaves where they are both the members of other institutions and the deleted.
OthersStay == MembersStay /\ DeletedStay
=============================================================================
