---------------------------- MODULE UserBulkProofs ----------------------------
(***************************************************************************)
(* Proofs about UserBulk, for any uploads, files, users and limits: what   *)
(* was settled for a file holds to its last row while nobody else writes,  *)
(* and where somebody does it is the late write that does the harm.        *)
(***************************************************************************)
EXTENDS UserBulk, TLAPS, FiniteSetTheorems, WellFoundedInduction

-----------------------------------------------------------------------------
(* The inductive invariant *)

\* The row a request is at, and the types of a request when there are k users.
Next1(q) == q.rows[CHOOSE n \in DOMAIN q.rows : \A m \in DOMAIN q.rows : n <= m]

RowOK(r, k) == r.user \in 0 .. k /\ (r.user = NoUser => r.phone \in Phones)

RequestOK(q, k) ==
    /\ q \in Request
    /\ \A n \in DOMAIN q.rows : RowOK(q.rows[n], k)
    /\ q.pc \in Linking \cup Creating => DOMAIN q.rows # {}
    /\ q.pc \in Linking => Next1(q).user # NoUser
    /\ q.pc \in Creating => Next1(q).user = NoUser

UsersOK(us) ==
    /\ us \in Seq(User) /\ Len(us) <= MaxUsers
    /\ \A u \in 1 .. Len(us) : us[u].live => us[u].phone \in Phones

Typed ==
    /\ UsersOK(users)
    /\ allowed \in Limits
    /\ slot \in [Slots -> Request]
    /\ \A s \in Slots : RequestOK(slot[s], Len(users))
    /\ disturbed \in [Slots -> {"no", "file", "row"}]
    /\ \A s \in Slots : disturbed[s] = "row" => Busy(s)

\* The living users with an address, and those with a phone number.
Holders(us, e) == {u \in 1 .. Len(us) : us[u].live /\ us[u].email = e}
Callers(us, p) == {u \in 1 .. Len(us) : us[u].live /\ us[u].phone = p}

\* The user is there, and where institution i may take it from.
Takes(us, i, u) == us[u].live /\ us[u].inst \in {i, NoInst}

\* What a row has been told of the users holds while nobody else has written.
Seen(s) ==
    disturbed[s] # "row" =>
        LET r == Row1(s)
            i == slot[s].inst
        IN  /\ At(s, "findEmail") => Takes(users, i, r.user) /\ users[r.user].email # r.email
            /\ At(s, "findName") \/ At(s, "link") =>
                  /\ Takes(users, i, r.user)
                  /\ users[r.user].email = r.email \/ Holders(users, r.email) \subseteq {r.user}
            /\ At(s, "insert") =>
                  /\ r.email = NoEmail \/ Holders(users, r.email) = {}
                  /\ Callers(users, r.phone) = {}

\* A row that would succeed now.
Ready(us, i, r) ==
    IF r.user = NoUser THEN Holders(us, r.email) = {} /\ Callers(us, r.phone) = {}
    ELSE Takes(us, i, r.user) /\ (us[r.user].email = r.email \/ Holders(us, r.email) = {})

\* Two rows that do not get into each other's way.
Apart(q, r) ==
    /\ q.email # r.email
    /\ q.user = r.user => q.user = NoUser /\ q.phone # r.phone

\* Every row would succeed, whatever becomes of the others.
AllReady(us, i, rows) ==
    /\ \A n \in DOMAIN rows : Ready(us, i, rows[n])
    /\ \A m, n \in DOMAIN rows : m # n => Apart(rows[m], rows[n])

Prepared(s) ==
    disturbed[s] = "no" /\ ~At(s, "idle") =>
        /\ AllReady(users, slot[s].inst, slot[s].rows)
        /\ Total + ToCreate(s) <= allowed

BulkInv == Typed /\ \A s \in Slots : Seen(s) /\ Prepared(s)

-----------------------------------------------------------------------------
(* Numbers and rows *)

LEMMA LeastExists ==
    ASSUME NEW T, T \subseteq Nat, T # {}
    PROVE  \E n \in T : \A m \in T : n <= m
<1> DEFINE R == OpToRel(<, Nat)
<1>1. PICK n \in T : \A m \in T : <<m, n>> \notin R
  <2>1. IsWellFoundedOn(R, Nat) BY NatLessThanWellFounded
  <2> HIDE DEF R
  <2> QED BY <2>1, WFMin
<1>2. \A m \in T : ~(m < n) BY <1>1 DEF OpToRel
<1> QED BY <1>2

LEMMA GreatestExists ==
    ASSUME NEW k \in Nat, NEW T, T \subseteq 1 .. k, T # {}
    PROVE  \E n \in T : \A m \in T : m <= n
<1>0. \A m \in T : m \in Int OBVIOUS
<1> DEFINE D == {k - n : n \in T}
<1>1. PICK d \in D : \A e \in D : d <= e
  <2>1. \A n \in T : k - n \in Nat OBVIOUS
  <2>2. D # {} OBVIOUS
  <2>3. D \subseteq Nat BY <2>1
  <2> HIDE DEF D
  <2> QED BY <2>2, <2>3, LeastExists
<1>2. PICK n \in T : d = k - n OBVIOUS
<1>3. \A m \in T : k - m \in D OBVIOUS
<1>4. \A m \in T : k - n <= k - m BY <1>1, <1>2, <1>3
<1> HIDE DEF D
<1> QED BY <1>0, <1>4

\* pickExisting: of several users the last one, which is one of them.
LEMMA PickIn ==
    ASSUME Typed, NEW T, T \subseteq Users
    PROVE  /\ T = {} <=> Pick(T) = NoUser
           /\ T # {} => Pick(T) \in T
<1>1. Len(users) \in Nat BY DEF Typed, UsersOK
<1>2. CASE T = {} BY <1>2 DEF Pick
<1>3. CASE T # {}
  <2>1. \E n \in T : \A m \in T : m <= n BY <1>1, <1>3, GreatestExists DEF Users
  <2> DEFINE p == CHOOSE u \in T : \A v \in T : v <= u
  <2>2. p \in T BY <2>1
  <2>3. Pick(T) = p BY <1>3 DEF Pick
  <2> HIDE DEF p
  <2> QED BY <1>1, <1>3, <2>2, <2>3 DEF Users, NoUser
<1> QED BY <1>2, <1>3

LEMMA RowsTyped ==
    ASSUME NEW q \in Request
    PROVE  /\ q.rows \in [DOMAIN q.rows -> Row] /\ DOMAIN q.rows \subseteq 1 .. MaxRows
           /\ DOMAIN q.rows # {} =>
                 (CHOOSE n \in DOMAIN q.rows : \A m \in DOMAIN q.rows : n <= m) \in DOMAIN q.rows
<1>1. PICK N \in SUBSET (1 .. MaxRows) : q.rows \in [N -> Row] BY DEF Request, Rows
<1>2. DOMAIN q.rows = N BY <1>1
<1>3. N \subseteq Nat OBVIOUS
<1>4. N # {} => \E n \in N : \A m \in N : n <= m BY <1>3, LeastExists
<1> QED BY <1>1, <1>2, <1>4

LEMMA Row1Typed ==
    ASSUME Typed, NEW s \in Slots, Left(s) # {}
    PROVE  /\ First(s) \in Left(s)
           /\ Row1(s) = Next1(slot[s]) /\ Row1(s) \in Row /\ RowOK(Row1(s), Len(users))
<1>1. slot[s] \in Request BY DEF Typed
<1>2. First(s) \in Left(s) BY <1>1, RowsTyped DEF First, Left
<1>3. Row1(s) \in Row BY <1>1, <1>2, RowsTyped DEF Row1, Left
<1>4. RowOK(Row1(s), Len(users)) BY <1>2 DEF Typed, RequestOK, Row1, Left
<1> QED BY <1>2, <1>3, <1>4 DEF Row1, Next1, First, Left

-----------------------------------------------------------------------------
(* Types: what a step leaves to its own request and to those of the others *)

LEMMA IdleOK == ASSUME NEW k \in Nat PROVE RequestOK(Idle, k)
<1>1. NoRows \in [{} -> Row] /\ DOMAIN NoRows = {} BY DEF NoRows
<1>2. NoRows \in Rows BY <1>1 DEF Rows
<1> QED BY <1>1, <1>2 DEF RequestOK, Idle, Request, Labels, Linking, Creating

LEMMA Becomes ==
    ASSUME Typed, NEW s \in Slots, NEW q, Become(s, q), RequestOK(q, Len(users)),
           Len(users') \in Nat, Len(users) <= Len(users')
    PROVE  /\ slot' \in [Slots -> Request]
           /\ \A t \in Slots : RequestOK(slot'[t], Len(users'))
           /\ slot'[s] = q
           /\ \A t \in Slots : t # s => slot'[t] = slot[t]
<1>1. Len(users) \in Nat BY DEF Typed, UsersOK
<1>2. slot' = [slot EXCEPT ![s] = q] BY DEF Become
<1>3. \A t \in Slots : RequestOK(slot'[t], Len(users)) BY <1>2 DEF Typed
<1>4. \A t \in Slots : RequestOK(slot'[t], Len(users')) BY <1>1, <1>3 DEF RequestOK, RowOK
<1> QED BY <1>2, <1>4 DEF Typed, RequestOK

\* A row goes on to label l, with the name of the user that was read, or without.
Onward(s, l) == \E w \in Names \cup {NoName} : Become(s, [slot[s] EXCEPT !.was = w, !.pc = l])

LEMMA GotoIs == ASSUME Typed, NEW s \in Slots, NEW l, Goto(s, l) PROVE Onward(s, l)
<1>1. slot[s] \in Request BY DEF Typed
<1>2. [slot[s] EXCEPT !.was = slot[s].was, !.pc = l] = [slot[s] EXCEPT !.pc = l] BY <1>1 DEF Request
<1>3. slot[s].was \in Names \cup {NoName} BY <1>1 DEF Request
<1> QED BY <1>2, <1>3 DEF Goto, Onward

LEMMA OnwardOK ==
    ASSUME Typed, NEW s \in Slots, NEW l, Onward(s, l), Left(s) # {},
           \/ l \in Linking /\ Row1(s).user # NoUser
           \/ l \in Creating /\ Row1(s).user = NoUser
    PROVE  \E q : /\ Become(s, q) /\ RequestOK(q, Len(users))
                  /\ q.pc = l /\ q.inst = slot[s].inst /\ q.rows = slot[s].rows
<1>1. PICK w \in Names \cup {NoName} : Become(s, [slot[s] EXCEPT !.was = w, !.pc = l])
  BY DEF Onward
<1> DEFINE q == [slot[s] EXCEPT !.was = w, !.pc = l]
<1>2. q \in Request /\ q.pc = l /\ q.inst = slot[s].inst /\ q.rows = slot[s].rows
  BY DEF Typed, Request, Labels
<1>3. Next1(q) = Row1(s) BY <1>2 DEF Next1, Row1, First, Left
<1>4. RequestOK(q, Len(users)) BY <1>2, <1>3 DEF RequestOK, Typed, Left, Linking, Creating
<1> QED BY <1>1, <1>2, <1>4

LEMMA NextRowOK ==
    ASSUME Typed, NEW s \in Slots, NextRow(s), Left(s) # {}
    PROVE  \E q : /\ Become(s, q) /\ RequestOK(q, Len(users))
                  /\ q.pc = "row" /\ q.inst = slot[s].inst
                  /\ DOMAIN q.rows = Left(s) \ {First(s)}
                  /\ \A n \in Left(s) \ {First(s)} : q.rows[n] = slot[s].rows[n]
<1> DEFINE f == Restrict(slot[s].rows, Left(s) \ {First(s)})
           q == [slot[s] EXCEPT !.pc = "row", !.was = NoName, !.rows = f]
<1>1. slot[s] \in Request BY DEF Typed
<1>2. DOMAIN f = Left(s) \ {First(s)} /\ \A n \in Left(s) \ {First(s)} : f[n] = slot[s].rows[n]
  BY DEF Restrict
<1>3. f \in [Left(s) \ {First(s)} -> Row] BY <1>1, RowsTyped DEF Restrict, Left
<1>4. Left(s) \ {First(s)} \in SUBSET (1 .. MaxRows) BY <1>1, RowsTyped DEF Left
<1>5. f \in Rows BY <1>3, <1>4 DEF Rows
<1>6. Become(s, q) BY DEF NextRow
<1> HIDE DEF f
<1>7. q \in Request /\ q.pc = "row" /\ q.inst = slot[s].inst /\ q.rows = f
  BY <1>1, <1>5 DEF Request, Labels
<1>8. RequestOK(q, Len(users)) BY <1>2, <1>7 DEF RequestOK, Typed, Left, Linking, Creating
<1> QED BY <1>2, <1>6, <1>7, <1>8

\* Whoever writes disturbs the others.
LEMMA DisturbOK ==
    ASSUME Typed, NEW t \in Slots, slot'[t] = slot[t]
    PROVE  /\ Disturbing(t) \in {"no", "file", "row"}
           /\ Disturbing(t) = "row" => Busy(t)'
           /\ Disturbing(t) = "no" => At(t, "idle")
           /\ Disturbing(t) # "row" => slot[t].pc \in {"idle", "row"}
<1>1. slot[t].pc \in Labels BY DEF Typed, Request
<1> QED BY <1>1 DEF Disturbing, Busy, At, Labels, Linking, Creating

-----------------------------------------------------------------------------
(* Steps of an upload that write no user *)

\* They keep the types, and what the other uploads know.
LEMMA ReadStep ==
    ASSUME BulkInv, NEW s \in Slots, NEW q, Become(s, q), RequestOK(q, Len(users)), Reads,
           \/ \E d \in {"no", "file"} : disturbed' = [disturbed EXCEPT ![s] = d]
           \/ UNCHANGED disturbed /\ (disturbed[s] = "row" => Busy(s)')
    PROVE  /\ Typed' /\ slot'[s] = q
           /\ \A t \in Slots : t # s => Seen(t)' /\ Prepared(t)'
<1>1. Typed /\ \A t \in Slots : Seen(t) /\ Prepared(t) BY DEF BulkInv
<1>2. users' = users /\ allowed' = allowed BY DEF Reads
<1>3. Len(users') \in Nat /\ Len(users) <= Len(users') BY <1>1, <1>2 DEF Typed, UsersOK
<1>4. /\ slot' \in [Slots -> Request] /\ slot'[s] = q
      /\ \A t \in Slots : RequestOK(slot'[t], Len(users'))
      /\ \A t \in Slots : t # s => slot'[t] = slot[t]
  BY <1>1, <1>3, Becomes
<1>5. /\ disturbed' \in [Slots -> {"no", "file", "row"}]
      /\ \A t \in Slots : disturbed'[t] = "row" => Busy(t)'
      /\ \A t \in Slots : t # s => disturbed'[t] = disturbed[t]
  <2>1. \A t \in Slots : t # s => (Busy(t)' <=> Busy(t)) BY <1>4 DEF Busy
  <2>2. CASE \E d \in {"no", "file"} : disturbed' = [disturbed EXCEPT ![s] = d]
    BY <1>1, <2>1, <2>2 DEF Typed
  <2>3. CASE UNCHANGED disturbed /\ (disturbed[s] = "row" => Busy(s)')
    BY <1>1, <2>1, <2>3 DEF Typed
  <2> QED BY <2>2, <2>3
<1>6. UsersOK(users)' BY <1>1, <1>2 DEF Typed, UsersOK
<1>7. Typed' BY <1>1, <1>2, <1>4, <1>5, <1>6 DEF Typed
<1>8. ASSUME NEW t \in Slots, t # s PROVE Seen(t)' /\ Prepared(t)'
  <2>1. Seen(t) /\ Prepared(t) /\ slot'[t] = slot[t] /\ disturbed'[t] = disturbed[t]
    BY <1>1, <1>4, <1>5, <1>8
  <2>2. Seen(t)' BY <1>2, <2>1 DEF Seen, At, Row1, First, Left
  <2>3. Prepared(t)'
    BY <1>2, <2>1 DEF Prepared, Total, ToCreate, Left, Living, Live, Users, At
  <2> QED BY <2>2, <2>3
<1> QED BY <1>4, <1>7, <1>8

\* A row that goes on is as it was.
LEMMA GoOn ==
    ASSUME BulkInv, NEW s \in Slots, NEW l, Onward(s, l), Left(s) # {}, Reads,
           \/ l \in Linking /\ Row1(s).user # NoUser
           \/ l \in Creating /\ Row1(s).user = NoUser,
           ~At(s, "idle"),
           Settle(s) \/ UNCHANGED disturbed
    PROVE  /\ Typed'
           /\ slot'[s].pc = l /\ Row1(s)' = Row1(s) /\ slot'[s].inst = slot[s].inst
           /\ Prepared(s)'
           /\ \A t \in Slots : t # s => Seen(t)' /\ Prepared(t)'
           /\ disturbed'[s] \in {disturbed[s], Quiet(s)}
<1>1. Typed /\ Prepared(s) BY DEF BulkInv
<1>2. PICK q : /\ Become(s, q) /\ RequestOK(q, Len(users))
               /\ q.pc = l /\ q.inst = slot[s].inst /\ q.rows = slot[s].rows
  BY <1>1, OnwardOK
<1>3. slot'[s] = q BY <1>2, <1>1 DEF Become, Typed
<1>4. Busy(s)' BY <1>2, <1>3 DEF Busy
<1>5. /\ Typed' /\ disturbed'[s] \in {disturbed[s], Quiet(s)}
      /\ \A t \in Slots : t # s => Seen(t)' /\ Prepared(t)'
  <2>1. Settle(s) => disturbed' = [disturbed EXCEPT ![s] = Quiet(s)] /\ Quiet(s) \in {"no", "file"}
    BY DEF Settle, Quiet
  <2>2. Typed' /\ \A t \in Slots : t # s => Seen(t)' /\ Prepared(t)'
    BY <1>2, <1>4, <2>1, ReadStep
  <2>3. disturbed'[s] \in {disturbed[s], Quiet(s)} BY <1>1, <2>1 DEF Typed
  <2> QED BY <2>2, <2>3
<1>6. Left(s)' = Left(s) /\ Row1(s)' = Row1(s) /\ ToCreate(s)' = ToCreate(s) /\ Total' = Total
  BY <1>2, <1>3 DEF Left, Row1, First, ToCreate, Total, Living, Live, Users, Reads
<1>7. disturbed'[s] = "no" => disturbed[s] = "no" BY <1>5 DEF Quiet
<1>8. allowed' = allowed /\ users' = users BY DEF Reads
<1>9. Prepared(s)' BY <1>1, <1>2, <1>3, <1>6, <1>7, <1>8 DEF Prepared
<1> QED BY <1>2, <1>3, <1>5, <1>6, <1>9

\* Fewer rows are left, and no more to create.
LEMMA FewerRows ==
    ASSUME Typed, NEW s \in Slots, Left(s) # {},
           Left(s)' = Left(s) \ {First(s)},
           \A n \in Left(s) \ {First(s)} : slot'[s].rows[n] = slot[s].rows[n]
    PROVE  /\ ToCreate(s) \in Nat /\ ToCreate(s)' \in Nat
           /\ ToCreate(s)' = IF Row1(s).user = NoUser THEN ToCreate(s) - 1 ELSE ToCreate(s)
<1> DEFINE N == {n \in Left(s) : slot[s].rows[n].user = NoUser}
<1>1. First(s) \in Left(s) BY Row1Typed
<1>2. Left(s) \subseteq 1 .. MaxRows BY RowsTyped DEF Typed, Left
<1>3. IsFiniteSet(1 .. MaxRows) BY NatAssumption, FS_Interval
<1>4. N \in SUBSET (1 .. MaxRows) BY <1>2
<1>5. IsFiniteSet(N) BY <1>3, <1>4, FS_Subset
<1>6. {n \in Left(s) : slot[s].rows[n].user = NoUser}' = N \ {First(s)} BY <1>1
<1>7. First(s) \in N <=> Row1(s).user = NoUser BY <1>1 DEF Row1
<1>8. ToCreate(s) = Cardinality(N) /\ ToCreate(s)' = Cardinality(N \ {First(s)})
  BY <1>6 DEF ToCreate
<1> HIDE DEF N
<1>9. /\ Cardinality(N) \in Nat /\ Cardinality(N \ {First(s)}) \in Nat
      /\ Cardinality(N \ {First(s)}) = IF First(s) \in N THEN Cardinality(N) - 1 ELSE Cardinality(N)
  BY <1>5, FS_CardinalityType, FS_RemoveElement
<1> QED BY <1>7, <1>8, <1>9

LEMMA TotalTyped == ASSUME UsersOK(users) PROVE IsFiniteSet(Living) /\ Total \in Nat
<1>1. Len(users) \in Nat BY DEF UsersOK
<1>2. IsFiniteSet(1 .. Len(users)) BY <1>1, FS_Interval
<1>3. Living \in SUBSET (1 .. Len(users)) BY DEF Living, Users
<1>4. IsFiniteSet(Living) BY <1>2, <1>3, FS_Subset
<1> QED BY <1>4, FS_CardinalityType DEF Total

\* A row that ends without a write leaves the rest of the file as it was.
LEMMA GiveUp ==
    ASSUME BulkInv, NEW s \in Slots, NextRow(s), Left(s) # {}, ~At(s, "idle"), Settle(s), Reads
    PROVE  BulkInv'
<1>1. Typed /\ Prepared(s) BY DEF BulkInv
<1>2. PICK q : /\ Become(s, q) /\ RequestOK(q, Len(users))
               /\ q.pc = "row" /\ q.inst = slot[s].inst
               /\ DOMAIN q.rows = Left(s) \ {First(s)}
               /\ \A n \in Left(s) \ {First(s)} : q.rows[n] = slot[s].rows[n]
  BY <1>1, NextRowOK
<1>3. /\ Typed' /\ slot'[s] = q /\ disturbed'[s] = Quiet(s)
      /\ \A t \in Slots : t # s => Seen(t)' /\ Prepared(t)'
  <2>1. disturbed' = [disturbed EXCEPT ![s] = Quiet(s)] /\ Quiet(s) \in {"no", "file"}
    BY DEF Settle, Quiet
  <2>2. disturbed'[s] = Quiet(s) BY <1>1, <2>1 DEF Typed
  <2> QED BY <1>2, <2>1, <2>2, ReadStep
<1>4. Seen(s)' BY <1>2, <1>3 DEF Seen, At
<1>5. /\ Left(s)' = Left(s) \ {First(s)}
      /\ \A n \in Left(s) \ {First(s)} : slot'[s].rows[n] = slot[s].rows[n]
  BY <1>2, <1>3 DEF Left
<1>6. ToCreate(s) \in Nat /\ ToCreate(s)' \in Nat /\ ToCreate(s)' <= ToCreate(s)
  BY <1>1, <1>5, FewerRows
<1>7. Total \in Nat /\ Total' = Total /\ allowed' = allowed /\ allowed \in Nat
  BY <1>1, TotalTyped, NatAssumption DEF Typed, Total, Living, Live, Users, Reads
<1>8. disturbed'[s] = "no" => disturbed[s] = "no" BY <1>3 DEF Quiet
<1>9. Prepared(s)'
  <2> SUFFICES ASSUME disturbed'[s] = "no"
               PROVE  /\ AllReady(users, slot'[s].inst, slot'[s].rows)
                      /\ Total' + ToCreate(s)' <= allowed'
    BY DEF Prepared, Reads
  <2>1. AllReady(users, slot[s].inst, slot[s].rows) /\ Total + ToCreate(s) <= allowed
    BY <1>1, <1>8 DEF Prepared
  <2>2. AllReady(users, slot'[s].inst, slot'[s].rows)
    BY <1>2, <1>3, <2>1 DEF AllReady, Left
  <2>3. Total' + ToCreate(s)' <= allowed' BY <1>6, <1>7, <2>1
  <2> QED BY <2>2, <2>3
<1> QED BY <1>3, <1>4, <1>9 DEF BulkInv

-----------------------------------------------------------------------------
(* The steps *)

LEMMA Found1 ==
    ASSUME Typed, NEW e, NEW p
    PROVE  /\ WithEmail(e) = Holders(users, e) /\ WithPhone(p) = Callers(users, p)
BY DEF WithEmail, WithPhone, Holders, Callers, Living, Live, Users

LEMMA ReadLinkedStep == ASSUME BulkInv, NEW s \in Slots, ReadLinked(s) PROVE BulkInv'
<1> DEFINE u == Row1(s).user
           l == IF users[u].email = Row1(s).email THEN Renamed(Row1(s), users[u].name) ELSE "findEmail"
<1>1. /\ Typed /\ Left(s) # {} /\ u # NoUser /\ Settle(s) /\ Reads /\ ~At(s, "idle")
      /\ disturbed[s] \in {"no", "file", "row"}
  BY DEF ReadLinked, HasRow, BulkInv, At, Typed
<1>2. CASE Live(u) /\ users[u].inst \in {slot[s].inst, NoInst}
  <2>1. users[u].name \in Names \cup {NoName}
    <3>1. u \in 0 .. Len(users) /\ Len(users) \in Nat BY <1>1, Row1Typed DEF RowOK, Typed, UsersOK
    <3>2. u \in 1 .. Len(users) BY <1>1, <3>1 DEF NoUser
    <3>3. users[u] \in User BY <1>1, <3>2 DEF Typed, UsersOK
    <3> QED BY <3>3 DEF User
  <2>2. Onward(s, l) BY <1>2, <2>1 DEF ReadLinked, ReadUser, Onward
  <2>3. l \in Linking BY DEF Linking, Renamed
  <2>4. /\ Typed' /\ slot'[s].pc = l /\ Row1(s)' = Row1(s) /\ slot'[s].inst = slot[s].inst
        /\ Prepared(s)' /\ \A t \in Slots : t # s => Seen(t)' /\ Prepared(t)'
    BY <1>1, <2>2, <2>3, GoOn
  <2>5. /\ l = "findEmail" => users[u].email # Row1(s).email
        /\ l \in {"findName", "link"} => users[u].email = Row1(s).email
        /\ l \in {"findEmail", "findName", "link"}
    BY DEF Renamed
  <2> HIDE DEF l
  <2>6. Seen(s)' BY <1>1, <1>2, <2>4, <2>5 DEF Seen, At, Takes, Live, Reads
  <2> QED BY <2>4, <2>6 DEF BulkInv
<1>3. CASE ~(Live(u) /\ users[u].inst \in {slot[s].inst, NoInst})
  BY <1>1, <1>3, GiveUp DEF ReadLinked
<1> QED BY <1>2, <1>3

LEMMA FindEmailStep == ASSUME BulkInv, NEW s \in Slots, FindEmail(s) PROVE BulkInv'
<1>1. /\ Typed /\ Left(s) # {} /\ Row1(s).user # NoUser /\ Reads /\ ~At(s, "idle") /\ Seen(s)
  <2>1. Typed /\ Seen(s) /\ Left(s) # {} BY DEF FindEmail, BulkInv, At, Typed, RequestOK, Left, Linking, Creating
  <2>2. Row1(s).user # NoUser BY <2>1, Row1Typed DEF FindEmail, At, Typed, RequestOK, Linking, Creating
  <2> QED BY <2>1, <2>2 DEF FindEmail, At
<1>2. CASE WithEmail(Row1(s).email) \ {Row1(s).user} = {}
  <2> DEFINE l == Renamed(Row1(s), slot[s].was)
  <2>0. l \in {"findName", "link"} BY DEF Renamed
  <2>1. Onward(s, l) /\ UNCHANGED disturbed BY <1>1, <1>2, GotoIs DEF FindEmail
  <2> HIDE DEF l
  <2>2. /\ Typed' /\ slot'[s].pc = l /\ Row1(s)' = Row1(s) /\ slot'[s].inst = slot[s].inst
        /\ Prepared(s)' /\ \A t \in Slots : t # s => Seen(t)' /\ Prepared(t)'
    BY <1>1, <2>0, <2>1, GoOn DEF Linking
  <2>3. Holders(users, Row1(s).email) \subseteq {Row1(s).user} BY <1>1, <1>2, Found1
  <2>4. disturbed[s] # "row" => Takes(users, slot[s].inst, Row1(s).user)
    BY <1>1 DEF FindEmail, Seen
  <2>5. Seen(s)' BY <1>1, <2>0, <2>1, <2>2, <2>3, <2>4 DEF Seen, At, Reads
  <2> QED BY <2>2, <2>5 DEF BulkInv
<1>3. CASE WithEmail(Row1(s).email) \ {Row1(s).user} # {}
  BY <1>1, <1>3, GiveUp DEF FindEmail
<1> QED BY <1>2, <1>3

LEMMA FindNameStep == ASSUME BulkInv, NEW s \in Slots, FindName(s) PROVE BulkInv'
<1> DEFINE free == NameFree(Resolved(Row1(s), slot[s].was), Row1(s).user)
<1>1. /\ Typed /\ Left(s) # {} /\ Row1(s).user # NoUser /\ Reads /\ ~At(s, "idle") /\ Seen(s)
  <2>1. Typed /\ Seen(s) /\ Left(s) # {}
    BY DEF FindName, BulkInv, At, Typed, RequestOK, Left, Linking
  <2>2. Row1(s).user # NoUser BY <2>1, Row1Typed DEF FindName, At, Typed, RequestOK, Linking
  <2> QED BY <2>1, <2>2 DEF FindName, At
<1>2. CASE free
  <2>1. Onward(s, "link") /\ UNCHANGED disturbed BY <1>1, <1>2, GotoIs DEF FindName
  <2>2. /\ Typed' /\ slot'[s].pc = "link" /\ Row1(s)' = Row1(s) /\ slot'[s].inst = slot[s].inst
        /\ Prepared(s)' /\ \A t \in Slots : t # s => Seen(t)' /\ Prepared(t)'
    BY <1>1, <2>1, GoOn DEF Linking
  <2>3. Seen(s)' BY <1>1, <2>1, <2>2 DEF FindName, Seen, At, Reads
  <2> QED BY <2>2, <2>3 DEF BulkInv
<1>3. CASE ~free
  BY <1>1, <1>3, GiveUp DEF FindName
<1> QED BY <1>2, <1>3

LEMMA CheckLimitStep == ASSUME BulkInv, NEW s \in Slots, CheckLimit(s) PROVE BulkInv'
<1>1. Left(s) # {} /\ Row1(s).user = NoUser /\ Settle(s) /\ Reads /\ ~At(s, "idle")
  BY DEF CheckLimit, HasRow, At
<1>2. CASE Goto(s, "find")
  <2>1. /\ Typed' /\ slot'[s].pc = "find" /\ Prepared(s)'
        /\ \A t \in Slots : t # s => Seen(t)' /\ Prepared(t)'
    BY <1>1, <1>2, GotoIs, GoOn DEF Creating, BulkInv
  <2>2. Seen(s)' BY <2>1 DEF Seen, At
  <2> QED BY <2>1, <2>2 DEF BulkInv
<1>3. CASE NextRow(s) BY <1>1, <1>3, GiveUp
<1> QED BY <1>2, <1>3 DEF CheckLimit

LEMMA FindUsersStep == ASSUME BulkInv, NEW s \in Slots, FindUsers(s) PROVE BulkInv'
<1>1. /\ Typed /\ Left(s) # {} /\ Row1(s).user = NoUser /\ Settle(s) /\ Reads /\ ~At(s, "idle")
  <2>1. Typed /\ Left(s) # {} BY DEF FindUsers, BulkInv, At, Typed, RequestOK, Left, Linking, Creating
  <2>2. Row1(s).user = NoUser BY <2>1, Row1Typed DEF FindUsers, At, Typed, RequestOK, Linking, Creating
  <2> QED BY <2>1, <2>2 DEF FindUsers, At
<1> DEFINE free == EmailFree(Row1(s)) /\ WithPhone(Row1(s).phone) = {} /\ NameFree(Row1(s).name, NoUser)
<1>2. CASE free
  <2>1. Onward(s, "insert") BY <1>1, <1>2, GotoIs DEF FindUsers
  <2>2. /\ Typed' /\ slot'[s].pc = "insert" /\ Row1(s)' = Row1(s) /\ slot'[s].inst = slot[s].inst
        /\ Prepared(s)' /\ \A t \in Slots : t # s => Seen(t)' /\ Prepared(t)'
    BY <1>1, <2>1, GoOn DEF Creating
  <2>3. /\ Row1(s).email = NoEmail \/ Holders(users, Row1(s).email) = {}
        /\ Callers(users, Row1(s).phone) = {}
    BY <1>1, <1>2, Found1 DEF EmailFree
  <2>4. Seen(s)' BY <1>1, <2>2, <2>3 DEF Seen, At, Reads
  <2> QED BY <2>2, <2>4 DEF BulkInv
<1>3. CASE ~free
  BY <1>1, <1>3, GiveUp DEF FindUsers
<1> QED BY <1>2, <1>3

LEMMA AbortStep == ASSUME BulkInv, NEW s \in Slots, Abort(s) PROVE BulkInv'
<1>1. Left(s) # {} /\ ~At(s, "idle")
  BY DEF Abort, Busy, BulkInv, Typed, RequestOK, Left, At, Linking, Creating
<1> QED BY <1>1, GiveUp DEF Abort

LEMMA EndUploadStep == ASSUME BulkInv, NEW s \in Slots, EndUpload(s) PROVE BulkInv'
<1>1. Typed /\ Len(users) \in Nat BY DEF BulkInv, Typed, UsersOK
<1>2. /\ Typed' /\ slot'[s] = Idle
      /\ \A t \in Slots : t # s => Seen(t)' /\ Prepared(t)'
  BY <1>1, IdleOK, ReadStep DEF EndUpload
<1>3. Seen(s)' /\ Prepared(s)' BY <1>2 DEF Seen, Prepared, At, Idle
<1> QED BY <1>2, <1>3 DEF BulkInv

\* An upload that another one overtakes knows nothing any more.
LEMMA Overtaken ==
    ASSUME Typed, NEW t \in Slots, slot'[t] = slot[t], disturbed'[t] = Disturbing(t)
    PROVE  Seen(t)' /\ Prepared(t)'
<1>1. disturbed'[t] = "no" => At(t, "idle")' BY DisturbOK DEF At
<1>2. disturbed'[t] # "row" => slot'[t].pc \in {"idle", "row"} BY DisturbOK
<1>3. Seen(t)' BY <1>2 DEF Seen, At
<1>4. Prepared(t)' BY <1>1 DEF Prepared
<1> QED BY <1>3, <1>4

\* The end of a row that has written.
LEMMA WriteStep ==
    ASSUME BulkInv, NEW s \in Slots, NextRow(s), Disturb(s), Busy(s),
           UsersOK(users'), Len(users) <= Len(users'), UNCHANGED allowed
    PROVE  /\ Typed'
           /\ \A t \in Slots : t # s => Seen(t)' /\ Prepared(t)'
           /\ Seen(s)'
           /\ slot'[s].pc = "row" /\ slot'[s].inst = slot[s].inst
           /\ Left(s)' = Left(s) \ {First(s)}
           /\ \A n \in Left(s) \ {First(s)} : slot'[s].rows[n] = slot[s].rows[n]
           /\ disturbed'[s] = "no" => disturbed[s] = "no"
<1>1. Typed /\ Left(s) # {} BY DEF BulkInv, Typed, RequestOK, Busy, Left
<1>2. PICK q : /\ Become(s, q) /\ RequestOK(q, Len(users))
               /\ q.pc = "row" /\ q.inst = slot[s].inst
               /\ DOMAIN q.rows = Left(s) \ {First(s)}
               /\ \A n \in Left(s) \ {First(s)} : q.rows[n] = slot[s].rows[n]
  BY <1>1, NextRowOK
<1>3. Len(users') \in Nat BY DEF UsersOK
<1>4. /\ slot' \in [Slots -> Request] /\ slot'[s] = q
      /\ \A t \in Slots : RequestOK(slot'[t], Len(users'))
      /\ \A t \in Slots : t # s => slot'[t] = slot[t]
  BY <1>1, <1>2, <1>3, Becomes
<1>5. disturbed'[s] = Quiet(s) /\ \A t \in Slots : t # s => disturbed'[t] = Disturbing(t)
  BY DEF Disturb
<1>6. \A t \in Slots : t # s => Seen(t)' /\ Prepared(t)' BY <1>1, <1>4, <1>5, Overtaken
<1>7. disturbed' \in [Slots -> {"no", "file", "row"}] /\ \A t \in Slots : disturbed'[t] = "row" => Busy(t)'
  <2>1. Quiet(s) \in {"no", "file"} BY DEF Quiet
  <2>2. \A t \in Slots : t # s => Disturbing(t) \in {"no", "file", "row"} /\ (Disturbing(t) = "row" => Busy(t)')
    BY <1>1, <1>4, DisturbOK
  <2>3. \A t \in Slots : disturbed'[t] \in {"no", "file", "row"} /\ (disturbed'[t] = "row" => Busy(t)')
    BY <1>5, <2>1, <2>2
  <2> QED BY <2>3 DEF Disturb
<1>8. Typed' BY <1>1, <1>4, <1>7 DEF Typed
<1>9. Seen(s)' BY <1>2, <1>4 DEF Seen, At
<1>10. Left(s)' = Left(s) \ {First(s)} BY <1>2, <1>4 DEF Left
<1>11. disturbed'[s] = "no" => disturbed[s] = "no" BY <1>5 DEF Quiet
<1> QED BY <1>2, <1>4, <1>6, <1>8, <1>9, <1>10, <1>11

\* What a link does to the users, while the user is there.
LEMMA Linked ==
    ASSUME UsersOK(users), NEW u \in Users, NEW x \in User,
           x.live = users[u].live, x.phone = users[u].phone,
           users' = [users EXCEPT ![u] = x]
    PROVE  /\ UsersOK(users') /\ Len(users') = Len(users) /\ Living' = Living
           /\ \A v \in Users : v # u => users'[v] = users[v]
           /\ users'[u] = x
<1>1. Len(users) \in Nat /\ users \in [1 .. Len(users) -> User] BY DEF UsersOK
<1>2. users' \in Seq(User) /\ Len(users') = Len(users) BY DEF UsersOK, Users
<1>3. users'[u] = x /\ \A v \in Users : v # u => users'[v] = users[v] BY <1>1 DEF Users
<1>4. \A v \in Users : users'[v].live = users[v].live /\ users'[v].phone = users[v].phone BY <1>3
<1>5. UsersOK(users') BY <1>2, <1>4 DEF UsersOK, Users
<1>6. Living' = Living BY <1>2, <1>4 DEF Living, Live, Users
<1> QED BY <1>2, <1>3, <1>5, <1>6

LEMMA WrittenIs ==
    ASSUME NEW s \in Slots, slot[s] \in Request, Row1(s) \in Row, NEW user \in User
    PROVE  LET x == Written(s, user)
           IN  /\ x \in User /\ x.live = user.live /\ x.phone = user.phone
               /\ x.email = Row1(s).email /\ x.inst = slot[s].inst
<1> DEFINE e == Row1(s).email
           i == slot[s].inst
           n == Resolved(Row1(s), slot[s].was)
<1>1. /\ e \in Emails \cup {NoEmail} /\ i \in Insts \cup {NoInst} /\ n \in Names \cup {NoName}
  BY DEF Row, Request, Resolved
<1>2. Written(s, user) = [user EXCEPT !.email = e, !.inst = i, !.name = n] BY DEF Written
<1> HIDE DEF e, i, n
<1>3. LET x == [user EXCEPT !.email = e, !.inst = i, !.name = n]
      IN  x \in User /\ x.live = user.live /\ x.phone = user.phone /\ x.email = e /\ x.inst = i
  BY <1>1 DEF User
<1> QED BY <1>2, <1>3 DEF e, i

LEMMA LinkStep == ASSUME BulkInv, NEW s \in Slots, Link(s) PROVE BulkInv'
<1> DEFINE u == Row1(s).user
           e == Row1(s).email
           i == slot[s].inst
<1>1. /\ Typed /\ Left(s) # {} /\ u # NoUser /\ Busy(s) /\ ~At(s, "idle") /\ Prepared(s)
      /\ Row1(s) \in Row /\ RowOK(Row1(s), Len(users)) /\ First(s) \in Left(s)
  <2>1. Typed /\ Left(s) # {} /\ Busy(s) /\ ~At(s, "idle") /\ Prepared(s)
    BY DEF Link, BulkInv, At, Typed, RequestOK, Left, Busy, Linking, Creating
  <2>2. u # NoUser /\ Row1(s) \in Row /\ RowOK(Row1(s), Len(users)) /\ First(s) \in Left(s)
    BY <2>1, Row1Typed DEF Link, At, Typed, RequestOK, Linking, Creating
  <2> QED BY <2>1, <2>2
<1>2. u \in Users /\ slot[s] \in Request /\ UsersOK(users) /\ Len(users) \in Nat
  <2>1. slot[s] \in Request /\ Len(users) \in Nat BY <1>1 DEF Typed, UsersOK
  <2> QED BY <1>1, <2>1 DEF RowOK, Users, NoUser, Row, Typed, Request
<1>3. CASE ~Live(u)
  <2>1. users' = users BY <1>3 DEF Link
  <2>2. disturbed[s] # "no"
    <3> SUFFICES ASSUME disturbed[s] = "no" PROVE FALSE OBVIOUS
    <3>1. AllReady(users, i, slot[s].rows) BY <1>1 DEF Prepared
    <3>2. Ready(users, i, Row1(s)) BY <1>1, <3>1 DEF AllReady, Row1, Left
    <3> QED BY <1>1, <1>3, <3>2 DEF Ready, Takes, Live
  <2>3. /\ Typed' /\ Seen(s)' /\ \A t \in Slots : t # s => Seen(t)' /\ Prepared(t)'
        /\ disturbed'[s] = "no" => disturbed[s] = "no"
    BY <1>1, <1>2, <2>1, WriteStep DEF Link
  <2>4. Prepared(s)' BY <2>2, <2>3 DEF Prepared
  <2> QED BY <2>3, <2>4 DEF BulkInv
<1>4. CASE Live(u)
  <2> DEFINE x == Written(s, users[u])
  <2>1. /\ users' = [users EXCEPT ![u] = x]
        /\ x \in User /\ x.live = users[u].live /\ x.phone = users[u].phone
        /\ x.email = e /\ x.inst = i
    <3>1. users \in [Users -> User] BY <1>2 DEF UsersOK, Users
    <3>2. users[u] \in User BY <1>2, <3>1
    <3>3. users' = [users EXCEPT ![u] = x] BY <1>2, <1>4, <3>1 DEF Link
    <3> QED BY <1>1, <1>2, <3>2, <3>3, WrittenIs
  <2>0. /\ First(s) \in Left(s) /\ slot[s].rows[First(s)] = Row1(s) /\ Row1(s).user = u
        /\ Row1(s).email = e /\ slot[s].inst = i
    BY <1>1 DEF Row1
  <2> HIDE DEF u, e, i, x
  <2>2. /\ UsersOK(users') /\ Len(users') = Len(users) /\ Living' = Living
        /\ \A v \in Users : v # u => users'[v] = users[v]
        /\ users'[u].live = users[u].live /\ users'[u].phone = users[u].phone
        /\ users'[u].email = e /\ users'[u].inst = i
    BY <1>2, <2>1, Linked
  <2>3. /\ Typed' /\ Seen(s)' /\ \A t \in Slots : t # s => Seen(t)' /\ Prepared(t)'
        /\ slot'[s].inst = i /\ Left(s)' = Left(s) \ {First(s)}
        /\ \A n \in Left(s) \ {First(s)} : slot'[s].rows[n] = slot[s].rows[n]
        /\ disturbed'[s] = "no" => disturbed[s] = "no"
    <3>1. /\ NextRow(s) /\ Disturb(s) /\ UNCHANGED allowed /\ Len(users) <= Len(users')
          /\ UsersOK(users')
      BY <1>2, <2>2 DEF Link
    <3> QED BY <1>1, <2>0, <3>1, WriteStep
  <2>4. Prepared(s)'
    <3> SUFFICES ASSUME disturbed[s] = "no"
                 PROVE  /\ AllReady(users', i, slot'[s].rows)
                        /\ Total' + ToCreate(s)' <= allowed'
      BY <2>3 DEF Prepared
    <3>1. AllReady(users, i, slot[s].rows) /\ Total + ToCreate(s) <= allowed
      BY <1>1, <2>0 DEF Prepared
    <3>2. \A p : Callers(users', p) = Callers(users, p) BY <2>2 DEF Callers, Users
    <3>3. \A f : f # e => Holders(users', f) \subseteq Holders(users, f) BY <2>2 DEF Holders, Users
    <3>4. ASSUME NEW n \in Left(s) \ {First(s)} PROVE Ready(users', i, slot[s].rows[n])
      <4> DEFINE r == slot[s].rows[n]
      <4>1. Ready(users, i, r) /\ Apart(r, Row1(s)) BY <2>0, <3>1 DEF AllReady, Left
      <4>2. RowOK(r, Len(users)) BY <1>1 DEF Typed, RequestOK, Left
      <4>3. r.email # e /\ r.user # u BY <1>1, <2>0, <4>1 DEF Apart
      <4> SUFFICES Ready(users', i, r) OBVIOUS
      <4> HIDE DEF r
      <4>4. CASE r.user = NoUser BY <3>2, <3>3, <4>1, <4>3, <4>4 DEF Ready
      <4>5. CASE r.user # NoUser
        <5>1. r.user \in Users BY <1>2, <4>2, <4>5 DEF RowOK, Users, NoUser
        <5>2. users'[r.user] = users[r.user] BY <2>2, <4>3, <5>1
        <5> QED BY <3>3, <4>1, <4>3, <4>5, <5>2 DEF Ready, Takes
      <4> QED BY <4>4, <4>5
    <3>5. AllReady(users', i, slot'[s].rows)
      BY <2>3, <3>1, <3>4 DEF AllReady, Left
    <3>6. ToCreate(s)' = ToCreate(s) BY <1>1, <2>0, <2>3, FewerRows
    <3>7. Total' = Total /\ allowed' = allowed BY <2>2 DEF Total, Link
    <3> QED BY <3>1, <3>5, <3>6, <3>7
  <2> QED BY <2>3, <2>4 DEF BulkInv
<1> QED BY <1>3, <1>4

\* What a new user does to the users.
LEMMA Appended ==
    ASSUME UsersOK(users), NEW x \in User, x.live => x.phone \in Phones, Len(users) < MaxUsers,
           users' = Append(users, x)
    PROVE  /\ UsersOK(users') /\ Len(users') = Len(users) + 1
           /\ \A v \in Users : users'[v] = users[v]
           /\ users'[Len(users) + 1] = x
           /\ Len(users) \in Nat /\ Users' = Users \cup {Len(users) + 1} /\ Len(users) + 1 \notin Users
<1>1. Len(users) \in Nat BY DEF UsersOK
<1>2. /\ users' \in Seq(User) /\ Len(users') = Len(users) + 1
      /\ \A v \in Users : users'[v] = users[v]
      /\ users'[Len(users) + 1] = x
  BY <1>1 DEF UsersOK, Users
<1>3. Users' = Users \cup {Len(users) + 1} /\ Len(users) + 1 \notin Users BY <1>1, <1>2 DEF Users
<1>4. Len(users') <= MaxUsers BY <1>1, <1>2, NatAssumption
<1>5. \A v \in 1 .. Len(users') : users'[v].live => users'[v].phone \in Phones
  BY <1>2, <1>3 DEF UsersOK, Users
<1> QED BY <1>1, <1>2, <1>3, <1>4, <1>5 DEF UsersOK

LEMMA InsertStep == ASSUME BulkInv, NEW s \in Slots, Insert(s) PROVE BulkInv'
<1> DEFINE r1 == Row1(s)
           x == [live |-> TRUE, email |-> r1.email, phone |-> r1.phone, inst |-> slot[s].inst,
                 name |-> r1.name]
<1>1. /\ Typed /\ Left(s) # {} /\ r1.user = NoUser /\ Busy(s) /\ ~At(s, "idle") /\ Prepared(s)
      /\ r1 \in Row /\ RowOK(r1, Len(users)) /\ First(s) \in Left(s)
      /\ slot[s].rows[First(s)] = r1
  <2>1. Typed /\ Left(s) # {} /\ Busy(s) /\ ~At(s, "idle") /\ Prepared(s)
    BY DEF Insert, BulkInv, At, Typed, RequestOK, Left, Busy, Linking, Creating
  <2>2. r1.user = NoUser /\ r1 \in Row /\ RowOK(r1, Len(users)) /\ First(s) \in Left(s)
    BY <2>1, Row1Typed DEF Insert, At, Typed, RequestOK, Linking, Creating
  <2> QED BY <2>1, <2>2 DEF Row1
<1>2. /\ r1.email \in Emails \cup {NoEmail} /\ r1.phone \in Phones /\ slot[s].inst \in Insts \cup {NoInst}
      /\ r1.name \in Names \cup {NoName}
  BY <1>1 DEF RowOK, Row, Typed, Request
<1>3. x \in User /\ x.phone \in Phones BY <1>2 DEF User
<1>4. users' = Append(users, x) /\ Len(users) < MaxUsers BY DEF Insert
<1>5. x.live /\ x.email = r1.email /\ x.phone = r1.phone OBVIOUS
<1> HIDE DEF x, r1
<1>6. /\ UsersOK(users') /\ Len(users') = Len(users) + 1
      /\ \A v \in Users : users'[v] = users[v]
      /\ users'[Len(users) + 1] = x
      /\ Len(users) \in Nat /\ Users' = Users \cup {Len(users) + 1} /\ Len(users) + 1 \notin Users
  BY <1>1, <1>3, <1>4, Appended DEF Typed
<1>7. /\ Typed' /\ Seen(s)' /\ \A t \in Slots : t # s => Seen(t)' /\ Prepared(t)'
      /\ slot'[s].inst = slot[s].inst /\ Left(s)' = Left(s) \ {First(s)}
      /\ \A n \in Left(s) \ {First(s)} : slot'[s].rows[n] = slot[s].rows[n]
      /\ disturbed'[s] = "no" => disturbed[s] = "no"
  <2>1. NextRow(s) /\ Disturb(s) /\ UNCHANGED allowed BY DEF Insert
  <2> QED BY <1>1, <1>6, <2>1, WriteStep
<1>8. Prepared(s)'
  <2> SUFFICES ASSUME disturbed[s] = "no"
               PROVE  /\ AllReady(users', slot[s].inst, slot'[s].rows)
                      /\ Total' + ToCreate(s)' <= allowed'
    BY <1>7 DEF Prepared
  <2>1. AllReady(users, slot[s].inst, slot[s].rows) /\ Total + ToCreate(s) <= allowed
    BY <1>1 DEF Prepared
  <2>2. \A e : e # r1.email => Holders(users', e) \subseteq Holders(users, e)
    BY <1>5, <1>6 DEF Holders, Users
  <2>3. \A p : p # r1.phone => Callers(users', p) \subseteq Callers(users, p)
    BY <1>5, <1>6 DEF Callers, Users
  <2>4. ASSUME NEW n \in Left(s) \ {First(s)} PROVE Ready(users', slot[s].inst, slot[s].rows[n])
    <3> DEFINE r == slot[s].rows[n]
    <3>1. Ready(users, slot[s].inst, r) /\ Apart(r, r1) BY <1>1, <2>1 DEF AllReady, Left
    <3>2. RowOK(r, Len(users)) BY <1>1 DEF Typed, RequestOK, Left
    <3> SUFFICES Ready(users', slot[s].inst, r) OBVIOUS
    <3> HIDE DEF r
    <3>3. CASE r.user = NoUser
      <4>1. r.email # r1.email /\ r.phone # r1.phone BY <1>1, <3>1, <3>3 DEF Apart
      <4> QED BY <2>2, <2>3, <3>1, <3>3, <4>1 DEF Ready
    <3>4. CASE r.user # NoUser
      <4>1. r.email # r1.email BY <3>1 DEF Apart
      <4>2. r.user \in Users BY <1>6, <3>2, <3>4 DEF RowOK, Users, NoUser
      <4>3. users'[r.user] = users[r.user] BY <1>6, <4>2
      <4> QED BY <2>2, <3>1, <3>4, <4>1, <4>3 DEF Ready, Takes
    <3> QED BY <3>3, <3>4
  <2>5. AllReady(users', slot[s].inst, slot'[s].rows) BY <1>7, <2>1, <2>4 DEF AllReady, Left
  <2>6. ToCreate(s) \in Nat /\ ToCreate(s)' = ToCreate(s) - 1
    BY <1>1, <1>7, FewerRows DEF r1
  <2>7. Total \in Nat /\ Total' = Total + 1
    <3>1. Living' = Living \cup {Len(users) + 1} BY <1>5, <1>6 DEF Living, Live
    <3>2. Len(users) + 1 \notin Living BY <1>6 DEF Living
    <3>3. IsFiniteSet(Living) /\ Total \in Nat BY <1>1, TotalTyped DEF Typed
    <3> QED BY <3>1, <3>2, <3>3, FS_AddElement DEF Total
  <2>8. allowed' = allowed /\ allowed \in Nat BY <1>1, NatAssumption DEF Insert, Typed
  <2> QED BY <2>1, <2>5, <2>6, <2>7, <2>8
<1> QED BY <1>7, <1>8 DEF BulkInv

\* The others write users, and touch no upload.
LEMMA OutsideStep ==
    ASSUME BulkInv, UsersOK(users'), Len(users) <= Len(users'), UNCHANGED <<allowed, slot>>, DisturbAll
    PROVE  BulkInv'
<1>1. Typed /\ slot' = slot /\ allowed' = allowed BY DEF BulkInv
<1>2. Len(users) \in Nat /\ Len(users') \in Nat BY <1>1 DEF Typed, UsersOK
<1>3. \A t \in Slots : disturbed'[t] = Disturbing(t) /\ slot'[t] = slot[t] BY <1>1 DEF DisturbAll
<1>4. \A t \in Slots : Seen(t)' /\ Prepared(t)' BY <1>1, <1>3, Overtaken
<1>5. \A t \in Slots : RequestOK(slot'[t], Len(users'))
  BY <1>1, <1>2 DEF Typed, RequestOK, RowOK
<1>6. disturbed' \in [Slots -> {"no", "file", "row"}] /\ \A t \in Slots : disturbed'[t] = "row" => Busy(t)'
  BY <1>1, <1>3, DisturbOK DEF DisturbAll
<1>7. Typed' BY <1>1, <1>5, <1>6 DEF Typed
<1> QED BY <1>4, <1>7 DEF BulkInv

\* The requests of a user itself change its address, its institution or its name.
LEMMA EditStep ==
    ASSUME BulkInv, NEW u \in Users, NEW x \in User, users' = [users EXCEPT ![u] = x],
           x.live = users[u].live, x.phone = users[u].phone, UNCHANGED <<allowed, slot>>, DisturbAll
    PROVE  BulkInv'
<1>1. UsersOK(users) /\ Len(users) \in Nat BY DEF BulkInv, Typed, UsersOK
<1>2. UsersOK(users') /\ Len(users') = Len(users) BY <1>1, Linked
<1> QED BY <1>1, <1>2, OutsideStep

LEMMA Edited ==
    ASSUME BulkInv, NEW u \in Users
    PROVE  /\ \A e \in Emails : VerifyEmail(u, e) =>
                 /\ users' = [users EXCEPT ![u] = [users[u] EXCEPT !.email = e]]
                 /\ [users[u] EXCEPT !.email = e] \in User
           /\ \A i \in Insts : ConfirmEmail(u, i) =>
                 /\ users' = [users EXCEPT ![u] = [users[u] EXCEPT !.inst = i]]
                 /\ [users[u] EXCEPT !.inst = i] \in User
           /\ \A n \in Names : ChangeUsername(u, n) =>
                 /\ users' = [users EXCEPT ![u] = [users[u] EXCEPT !.name = n]]
                 /\ [users[u] EXCEPT !.name = n] \in User
           /\ users[u] \in User
<1>1. users \in [Users -> User] BY DEF BulkInv, Typed, UsersOK, Users
<1>2. users[u] \in User BY <1>1
<1> QED BY <1>1, <1>2 DEF VerifyEmail, ConfirmEmail, ChangeUsername, User

LEMMA VerifyEmailStep ==
    ASSUME BulkInv, NEW u \in Users, NEW e \in Emails, VerifyEmail(u, e) PROVE BulkInv'
<1> DEFINE x == [users[u] EXCEPT !.email = e]
<1>1. users' = [users EXCEPT ![u] = x] /\ x \in User /\ users[u] \in User BY Edited
<1>2. x.live = users[u].live /\ x.phone = users[u].phone BY <1>1 DEF User
<1> HIDE DEF x
<1> QED BY <1>1, <1>2, EditStep DEF VerifyEmail

LEMMA ConfirmEmailStep ==
    ASSUME BulkInv, NEW u \in Users, NEW i \in Insts, ConfirmEmail(u, i) PROVE BulkInv'
<1> DEFINE x == [users[u] EXCEPT !.inst = i]
<1>1. users' = [users EXCEPT ![u] = x] /\ x \in User /\ users[u] \in User BY Edited
<1>2. x.live = users[u].live /\ x.phone = users[u].phone BY <1>1 DEF User
<1> HIDE DEF x
<1> QED BY <1>1, <1>2, EditStep DEF ConfirmEmail

LEMMA ChangeUsernameStep ==
    ASSUME BulkInv, NEW u \in Users, NEW name \in Names, ChangeUsername(u, name) PROVE BulkInv'
<1> DEFINE x == [users[u] EXCEPT !.name = name]
<1>1. users' = [users EXCEPT ![u] = x] /\ x \in User /\ users[u] \in User BY Edited
<1>2. x.live = users[u].live /\ x.phone = users[u].phone BY <1>1 DEF User
<1> HIDE DEF x
<1> QED BY <1>1, <1>2, EditStep DEF ChangeUsername

\* A sign-up has read no file, and promises nothing.
LEMMA StartSignupStep ==
    ASSUME BulkInv, NEW s \in Slots, NEW p \in Phones, UnderWay < MaxRows, StartSignup(s, p)
    PROVE  BulkInv'
<1> DEFINE r == [user |-> NoUser, email |-> NoEmail, phone |-> p, name |-> NoName]
           rows == <<r>>
           q == [Idle EXCEPT !.pc = "row", !.rows = rows]
<1>1. Typed /\ Len(users) \in Nat /\ MaxRows \in Nat /\ MaxUsers \in Nat
  BY NatAssumption DEF BulkInv, Typed, UsersOK
<1>2. 1 \in 1 .. MaxRows
  <2>1. IsFiniteSet(1 .. MaxRows) BY <1>1, FS_Interval
  <2>2. IsFiniteSet(Slots \X (1 .. MaxRows)) BY <2>1, SlotsAssumption, FS_Product
  <2>3. {x \in Slots \X (1 .. MaxRows) : x[2] \in Left(x[1])} \in SUBSET (Slots \X (1 .. MaxRows))
    OBVIOUS
  <2>4. UnderWay \in Nat BY <2>2, <2>3, FS_Subset, FS_CardinalityType DEF UnderWay
  <2> QED BY <1>1, <2>4
<1>3. r \in Row /\ r.user = NoUser /\ r.phone = p BY <1>1 DEF Row, NoUser
<1>4. DOMAIN rows = {1} /\ rows[1] = r OBVIOUS
<1> HIDE DEF r
<1>5. rows \in [{1} -> Row] BY <1>3
<1>6. rows \in Rows BY <1>2, <1>5 DEF Rows
<1>7. Become(s, q) /\ disturbed' = [disturbed EXCEPT ![s] = "file"] /\ Reads
  BY DEF StartSignup, r
<1> HIDE DEF rows
<1>8. q.pc = "row" /\ q.rows = rows /\ q \in Request
  BY <1>6 DEF Idle, Request, Labels
<1> HIDE DEF q
<1>9. RequestOK(q, Len(users))
  BY <1>1, <1>3, <1>4, <1>8 DEF RequestOK, RowOK, NoUser, Linking, Creating
<1>10. /\ Typed' /\ slot'[s] = q
       /\ \A t \in Slots : t # s => Seen(t)' /\ Prepared(t)'
  BY <1>7, <1>9, ReadStep
<1>11. disturbed'[s] = "file" BY <1>1, <1>7 DEF Typed
<1>12. Seen(s)' /\ Prepared(s)' BY <1>8, <1>10, <1>11 DEF Seen, Prepared, At
<1> QED BY <1>10, <1>12 DEF BulkInv

LEMMA DeleteStep == ASSUME BulkInv, NEW u \in Users, Delete(u) PROVE BulkInv'
<1>1. UsersOK(users) /\ Len(users) \in Nat BY DEF BulkInv, Typed, UsersOK
<1>2. Gone \in User /\ ~Gone.live BY DEF Gone, User
<1>3. users' = [users EXCEPT ![u] = Gone] BY DEF Delete
<1>4. users' \in Seq(User) /\ Len(users') = Len(users) BY <1>1, <1>2, <1>3 DEF UsersOK, Users
<1>5. \A v \in Users : users'[v] \in {users[v], Gone} BY <1>1, <1>3 DEF UsersOK, Users
<1>6. UsersOK(users') BY <1>1, <1>2, <1>4, <1>5 DEF UsersOK, Users
<1> QED BY <1>1, <1>4, <1>6, OutsideStep DEF Delete

-----------------------------------------------------------------------------
(* Settling a file *)

\* Who a line is about: a user with its address, or else one with its phone number.
LEMMA FoundIs ==
    ASSUME Typed, NEW line \in Line
    PROVE  LET a == ByEmail(line)
               b == ByPhone(line)
           IN  /\ a # NoUser => a \in Holders(users, line.email) /\ line.email # NoEmail
               /\ a = NoUser /\ line.email # NoEmail => Holders(users, line.email) = {}
               /\ b # NoUser => b \in Callers(users, line.phone)
               /\ b = NoUser => Callers(users, line.phone) = {}
               /\ Found(line) = IF a # NoUser THEN a ELSE b
               /\ Found(line) \in 0 .. Len(users)
<1> DEFINE a == ByEmail(line)
           b == ByPhone(line)
<1>1. WithEmail(line.email) \subseteq Users /\ WithPhone(line.phone) \subseteq Users
  BY DEF WithEmail, WithPhone, Living
<1>2. /\ a # NoUser => a \in Holders(users, line.email) /\ line.email # NoEmail
      /\ a = NoUser /\ line.email # NoEmail => Holders(users, line.email) = {}
  BY <1>1, PickIn, Found1 DEF ByEmail
<1>3. /\ b # NoUser => b \in Callers(users, line.phone)
      /\ b = NoUser => Callers(users, line.phone) = {}
  BY <1>1, PickIn, Found1 DEF ByPhone
<1>4. Found(line) = IF a # NoUser THEN a ELSE b BY DEF Found
<1>5. Len(users) \in Nat /\ NoUser = 0 BY DEF Typed, UsersOK, NoUser
<1> HIDE DEF a, b
<1>6. Found(line) \in 0 .. Len(users) BY <1>2, <1>3, <1>4, <1>5 DEF Holders, Callers
<1> QED BY <1>2, <1>3, <1>4, <1>6 DEF a, b

\* A settled row would succeed now.
LEMMA SettledReady ==
    ASSUME Typed, NEW k \in Nat, NEW file \in [1 .. k -> Line], NEW i \in Insts,
           NEW update \in BOOLEAN, NEW n \in 1 .. k, Writes(file, n, i, update)
    PROVE  /\ Ready(users, i, RowOf(file[n])) /\ RowOf(file[n]) \in Row
           /\ RowOK(RowOf(file[n]), Len(users))
<1> DEFINE line == file[n]
           a == ByEmail(line)
           b == ByPhone(line)
           r == RowOf(line)
<1>1. line \in Line OBVIOUS
<1>2. /\ line.email \in Emails /\ line.phone \in Phones /\ ~Conflicts(line)
      /\ Found(line) = NoUser \/ Links(line, i, update)
  BY <1>1 DEF Writes, Valid, Line
<1>3. /\ r.user = Found(line) /\ r.email = line.email
      /\ r.phone = IF Found(line) = NoUser THEN line.phone ELSE NoPhone
      /\ r = [user |-> r.user, email |-> r.email, name |-> r.name, phone |-> r.phone]
      /\ r.name \in Names \cup {NoName}
  BY <1>1 DEF RowOf, Line
<1>4. /\ a # NoUser => a \in Holders(users, line.email) /\ line.email # NoEmail
      /\ a = NoUser /\ line.email # NoEmail => Holders(users, line.email) = {}
      /\ b # NoUser => b \in Callers(users, line.phone)
      /\ b = NoUser => Callers(users, line.phone) = {}
      /\ Found(line) = IF a # NoUser THEN a ELSE b
      /\ Found(line) \in 0 .. Len(users)
  BY <1>1, FoundIs
<1>5. Len(users) \in Nat /\ Len(users) <= MaxUsers /\ MaxUsers \in Nat
  BY NatAssumption DEF Typed, UsersOK
<1>6. line.email # NoEmail BY <1>2, NoneAssumption
<1>7. Found(line) # NoUser => /\ users[Found(line)].inst \in {i, NoInst}
  BY <1>2 DEF Links
<1> HIDE DEF line, a, b, r
<1>8. r \in Row BY <1>2, <1>3, <1>4, <1>5 DEF Row
<1>9. RowOK(r, Len(users)) BY <1>2, <1>3, <1>4 DEF RowOK
<1>10. Ready(users, i, r)
  <2>1. CASE Found(line) = NoUser BY <1>3, <1>4, <1>6, <2>1 DEF Ready
  <2>2. CASE Found(line) # NoUser
    <3>1. users[Found(line)].live BY <1>4, <2>2 DEF Holders, Callers
    <3>2. users[Found(line)].email = line.email \/ Holders(users, line.email) = {}
      BY <1>4, <1>6, <2>2 DEF Holders
    <3> QED BY <1>3, <1>7, <2>2, <3>1, <3>2 DEF Ready, Takes
  <2> QED BY <2>1, <2>2
<1> QED BY <1>8, <1>9, <1>10 DEF r, line

\* Two settled rows do not get into each other's way.
LEMMA SettledApart ==
    ASSUME Typed, NEW k \in Nat, NEW file \in [1 .. k -> Line], NEW i \in Insts,
           NEW update \in BOOLEAN, NEW m \in 1 .. k, NEW n \in 1 .. k, m < n,
           Writes(file, m, i, update), Writes(file, n, i, update)
    PROVE  Apart(RowOf(file[m]), RowOf(file[n])) /\ Apart(RowOf(file[n]), RowOf(file[m]))
<1> DEFINE p == file[m]
           q == file[n]
<1>1. p \in Line /\ q \in Line OBVIOUS
<1>2. /\ p.email \in Emails /\ q.email \in Emails /\ p.phone \in Phones /\ q.phone \in Phones
      /\ ~Conflicts(p) /\ ~Conflicts(q)
  BY <1>1 DEF Writes, Valid, Line
<1>3. p.email # NoEmail /\ q.email # NoEmail /\ p.phone # NoPhone /\ q.phone # NoPhone
  BY <1>2, NoneAssumption
<1>4. p.email # q.email
  <2>1. m \in 1 .. n - 1 OBVIOUS
  <2>2. ~SameEmail(file, m, n) BY <2>1 DEF Writes, Repeats
  <2> QED BY <1>3, <2>2 DEF SameEmail
<1>5. p.phone # q.phone
  <2>1. m \in 1 .. n - 1 OBVIOUS
  <2>2. \A l \in 1 .. m - 1 : ~SameEmail(file, l, m) BY DEF Writes, Repeats
  <2>3. ~SamePhone(file, m, n) BY <2>1, <2>2 DEF Writes, Repeats
  <2> QED BY <1>3, <2>3 DEF SamePhone
<1>6. Found(p) = Found(q) => Found(p) = NoUser
  <2> SUFFICES ASSUME Found(p) = Found(q), Found(p) # NoUser PROVE FALSE OBVIOUS
  <2> DEFINE u == Found(p)
  <2>1. /\ ByEmail(p) # NoUser => ByEmail(p) \in Holders(users, p.email) /\ u = ByEmail(p)
        /\ ByEmail(p) = NoUser => u = ByPhone(p) /\ u \in Callers(users, p.phone)
    BY <1>1, FoundIs
  <2>2. /\ ByEmail(q) # NoUser => ByEmail(q) \in Holders(users, q.email) /\ u = ByEmail(q)
        /\ ByEmail(q) = NoUser => u = ByPhone(q) /\ u \in Callers(users, q.phone)
    BY <1>1, FoundIs
  <2>3. ByEmail(p) = NoUser => users[u].email = NoEmail
    BY <1>2, <1>3, <2>1 DEF Conflicts
  <2>4. ByEmail(q) = NoUser => users[u].email = NoEmail
    BY <1>2, <1>3, <2>2 DEF Conflicts
  <2> HIDE DEF u, p, q
  <2>5. ByEmail(p) # NoUser => users[u].email = p.email BY <2>1 DEF Holders
  <2>6. ByEmail(q) # NoUser => users[u].email = q.email BY <2>2 DEF Holders
  <2>7. ByEmail(p) = NoUser /\ ByEmail(q) = NoUser => FALSE BY <1>5, <2>1, <2>2 DEF Callers
  <2> QED BY <1>3, <1>4, <2>3, <2>4, <2>5, <2>6, <2>7
<1> HIDE DEF p, q
<1>7. /\ RowOf(p).email = p.email /\ RowOf(p).user = Found(p)
      /\ Found(p) = NoUser => RowOf(p).phone = p.phone
      /\ RowOf(q).email = q.email /\ RowOf(q).user = Found(q)
      /\ Found(q) = NoUser => RowOf(q).phone = q.phone
  BY DEF RowOf
<1>8. Apart(RowOf(p), RowOf(q)) /\ Apart(RowOf(q), RowOf(p))
  BY <1>4, <1>5, <1>6, <1>7 DEF Apart
<1> QED BY <1>8 DEF p, q

\* A file's rows, once settled, are all to succeed, and fit.
LEMMA StartUploadStep ==
    ASSUME BulkInv, NEW s \in Slots, NEW i \in Insts, NEW update \in BOOLEAN, NEW file \in Files,
           StartUpload(s, i, file, update)
    PROVE  BulkInv'
<1> DEFINE rows == Settled(file, i, update)
           q == [Idle EXCEPT !.pc = "row", !.inst = i, !.rows = rows]
<1>1. Typed /\ Len(users) \in Nat /\ MaxRows \in Nat /\ MaxUsers \in Nat
  BY NatAssumption DEF BulkInv, Typed, UsersOK
<1>2. PICK k \in 1 .. MaxRows : file \in [1 .. k -> Line]
  <2>1. IsFiniteSet(1 .. MaxRows) BY <1>1, FS_Interval
  <2>2. IsFiniteSet(Slots \X (1 .. MaxRows)) BY <2>1, SlotsAssumption, FS_Product
  <2>3. {p \in Slots \X (1 .. MaxRows) : p[2] \in Left(p[1])} \in SUBSET (Slots \X (1 .. MaxRows))
    OBVIOUS
  <2>4. UnderWay \in Nat BY <2>2, <2>3, FS_Subset, FS_CardinalityType DEF UnderWay
  <2>5. PICK k \in 1 .. MaxRows - UnderWay : file \in [1 .. k -> Line] BY DEF Files
  <2>6. k \in 1 .. MaxRows BY <1>1, <2>4, <2>5
  <2> QED BY <2>5, <2>6
<1> DEFINE N == {n \in 1 .. k : Writes(file, n, i, update)}
<1>3. DOMAIN file = 1 .. k /\ k \in Nat BY <1>2
<1>4. DOMAIN rows = N /\ \A n \in N : rows[n] = RowOf(file[n])
  BY <1>3 DEF Settled
<1>5. \A n \in N : /\ Ready(users, i, RowOf(file[n])) /\ RowOf(file[n]) \in Row
                   /\ RowOK(RowOf(file[n]), Len(users))
  BY <1>1, <1>2, <1>3, SettledReady
<1>6. \A m, n \in N : m # n => Apart(RowOf(file[m]), RowOf(file[n]))
  <2> TAKE m, n \in N
  <2> HAVE m # n
  <2>1. CASE m < n BY <1>1, <1>2, <1>3, <2>1, SettledApart
  <2>2. CASE n < m BY <1>1, <1>2, <1>3, <2>2, SettledApart
  <2> QED BY <2>1, <2>2
<1>7. rows \in [N -> Row] BY <1>3, <1>5 DEF Settled
<1>8. N \in SUBSET (1 .. MaxRows) BY <1>1, <1>2
<1>9. q.pc = "row" /\ q.inst = i /\ q.rows = rows BY DEF Idle
<1>10. Become(s, q) /\ disturbed' = [disturbed EXCEPT ![s] = "no"] /\ Reads
  BY DEF StartUpload, Reads
<1> HIDE DEF rows
<1>11. q \in Request BY <1>7, <1>8 DEF Idle, Request, Labels, Rows
<1> HIDE DEF N, q
<1>12. RequestOK(q, Len(users)) BY <1>4, <1>5, <1>9, <1>11 DEF RequestOK, Linking, Creating
<1>13. /\ Typed' /\ slot'[s] = q
       /\ \A t \in Slots : t # s => Seen(t)' /\ Prepared(t)'
  BY <1>10, <1>12, ReadStep
<1>14. Seen(s)' BY <1>9, <1>13 DEF Seen, At
<1>15. Prepared(s)'
  <2>1. AllReady(users, i, rows) BY <1>4, <1>5, <1>6 DEF AllReady
  <2>2. users' = users /\ allowed' = allowed /\ Total' = Total
    BY DEF StartUpload, Total, Living, Live, Users
  <2>3. ToCreate(s)' \in Nat /\ ToCreate(s)' <= Projected(file)
    <3> DEFINE C == {n \in N : rows[n].user = NoUser}
               P == {n \in 1 .. k : ~Repeats(file, n) /\ ~Conflicts(file[n]) /\ Found(file[n]) = NoUser}
    <3>1. ToCreate(s)' = Cardinality(C) BY <1>4, <1>9, <1>13 DEF ToCreate, Left
    <3>2. Projected(file) = Cardinality(P) BY <1>3 DEF Projected
    <3>3. C \in SUBSET P
      <4>1. \A n \in C : n \in 1 .. k /\ Writes(file, n, i, update) /\ Found(file[n]) = NoUser
        BY <1>4 DEF N, RowOf
      <4> QED BY <4>1 DEF Writes
    <3>4. IsFiniteSet(P)
      <4>1. IsFiniteSet(1 .. k) /\ P \in SUBSET (1 .. k) BY <1>3, FS_Interval
      <4> QED BY <4>1, FS_Subset
    <3> HIDE DEF C, P
    <3>5. IsFiniteSet(C) /\ Cardinality(C) <= Cardinality(P) BY <3>3, <3>4, FS_Subset
    <3> QED BY <3>1, <3>2, <3>5, FS_CardinalityType
  <2>4. Total \in Nat /\ Projected(file) \in Nat /\ allowed \in Nat
    <3>1. IsFiniteSet(1 .. k) BY <1>3, FS_Interval
    <3>2. {n \in 1 .. k : ~Repeats(file, n) /\ ~Conflicts(file[n]) /\ Found(file[n]) = NoUser}
            \in SUBSET (1 .. k)
      OBVIOUS
    <3>3. Projected(file) \in Nat
      BY <1>3, <3>1, <3>2, FS_Subset, FS_CardinalityType DEF Projected
    <3> QED BY <1>1, <3>3, TotalTyped, NatAssumption DEF Typed
  <2>5. Total + Projected(file) <= allowed BY DEF StartUpload
  <2>6. Total' + ToCreate(s)' <= allowed' BY <2>2, <2>3, <2>4, <2>5
  <2> QED BY <1>9, <1>13, <2>1, <2>2, <2>6 DEF Prepared
<1> QED BY <1>13, <1>14, <1>15 DEF BulkInv

-----------------------------------------------------------------------------
(* The theorems *)

LEMMA InitBulk == ASSUME Init PROVE BulkInv
<1>1. users = <<>> /\ Len(users) = 0 BY DEF Init
<1>2. UsersOK(users) BY <1>1, NatAssumption DEF UsersOK
<1>3. \A s \in Slots : slot[s] = Idle /\ disturbed[s] = "no" BY DEF Init
<1>4. RequestOK(Idle, 0) BY IdleOK
<1>5. \A s \in Slots : RequestOK(slot[s], Len(users)) BY <1>1, <1>3, <1>4
<1>6. slot \in [Slots -> Request] BY <1>4 DEF Init, RequestOK
<1>7. Typed BY <1>2, <1>3, <1>5, <1>6 DEF Typed, Init
<1>8. \A s \in Slots : Seen(s) /\ Prepared(s) BY <1>3 DEF Seen, Prepared, At, Idle
<1> QED BY <1>7, <1>8 DEF BulkInv

LEMMA NextBulk == ASSUME BulkInv, Next PROVE BulkInv'
<1>1. ASSUME NEW s \in Slots, Handle(s) PROVE BulkInv'
  BY <1>1, StartUploadStep, StartSignupStep, ReadLinkedStep, FindEmailStep, FindNameStep, LinkStep,
     CheckLimitStep, FindUsersStep, InsertStep, AbortStep, EndUploadStep DEF Handle
<1> QED BY <1>1, VerifyEmailStep, ConfirmEmailStep, ChangeUsernameStep, DeleteStep DEF Next

LEMMA StutterBulk == ASSUME BulkInv, UNCHANGED vars PROVE BulkInv'
<1>1. users' = users /\ allowed' = allowed /\ slot' = slot /\ disturbed' = disturbed BY DEF vars
<1>2. Typed' BY <1>1 DEF BulkInv, Typed, UsersOK, Busy
<1>3. \A s \in Slots : Seen(s)' BY <1>1 DEF BulkInv, Seen, At, Row1, First, Left
<1>4. \A s \in Slots : Prepared(s)'
  BY <1>1 DEF BulkInv, Prepared, At, Total, ToCreate, Left, Living, Live, Users
<1> QED BY <1>2, <1>3, <1>4 DEF BulkInv

LEMMA AlwaysBulk == Spec => []BulkInv
<1>1. Init => BulkInv BY InitBulk
<1>2. BulkInv /\ [Next]_vars => BulkInv' BY NextBulk, StutterBulk
<1> QED BY <1>1, <1>2, PTL DEF Spec

\* Type correctness: the documents, the rows that are left and the requests have the types
\* of the service, for any uploads, files and limits.
THEOREM BulkTyped == Spec => []TypeOK
<1>1. BulkInv => TypeOK
  <2> SUFFICES ASSUME BulkInv PROVE TypeOK OBVIOUS
  <2>1. Typed BY DEF BulkInv
  <2>2. \A s \in Slots : Busy(s) => Left(s) # {} BY <2>1 DEF Typed, RequestOK, Busy, Left
  <2>3. ASSUME NEW s \in Slots, slot[s].pc \in Linking PROVE Row1(s).user \in Users
    <3>1. Left(s) # {} BY <2>2, <2>3 DEF Busy
    <3>2. Row1(s).user # NoUser BY <2>1, <2>3, <3>1, Row1Typed DEF Typed, RequestOK
    <3>3. Row1(s).user \in 0 .. Len(users) BY <2>1, <3>1, Row1Typed DEF RowOK
    <3>4. Len(users) \in Nat BY <2>1 DEF Typed, UsersOK
    <3> QED BY <3>2, <3>3, <3>4 DEF Users, NoUser
  <2> QED BY <2>1, <2>2, <2>3 DEF TypeOK, Typed, UsersOK, Users, Live
<1> QED BY <1>1, AlwaysBulk, PTL

\* An upload that was let in fits to its last row, while nobody else writes:
\* assertBulkUploadUserLimitNotExceeded counts enough.
THEOREM AdmittedUploadsFit == Spec => []AdmittedFits
<1>1. BulkInv => AdmittedFits BY DEF BulkInv, Prepared, AdmittedFits
<1> QED BY <1>1, AlwaysBulk, PTL

LEMMA SomeToCreate ==
    ASSUME Typed, NEW s \in Slots, Left(s) # {}
    PROVE  ToCreate(s) \in Nat /\ (Row1(s).user = NoUser => ToCreate(s) # 0)
<1> DEFINE C == {n \in Left(s) : slot[s].rows[n].user = NoUser}
<1>1. Left(s) \subseteq 1 .. MaxRows BY RowsTyped DEF Typed, Left
<1>2. C \in SUBSET (1 .. MaxRows) BY <1>1
<1>3. Row1(s).user = NoUser => First(s) \in C BY Row1Typed DEF Row1
<1>4. ToCreate(s) = Cardinality(C) BY DEF ToCreate
<1>5. IsFiniteSet(1 .. MaxRows) BY NatAssumption, FS_Interval
<1> HIDE DEF C
<1>6. IsFiniteSet(C) BY <1>2, <1>5, FS_Subset
<1> QED BY <1>3, <1>4, <1>6, FS_EmptySet, FS_CardinalityType

\* What a dry run announces is what the upload does, while nobody else writes: no row that
\* processUpload settled as a success is refused by the checks of the row itself, but for those
\* of its user name.
THEOREM DryRunsHold == Spec => []DryRunsPredict
<1>1. BulkInv => DryRunsPredict
  <2> SUFFICES ASSUME BulkInv, NEW s \in Slots, disturbed[s] = "no"
               PROVE  LET r == Row1(s) IN
                      /\ HasRow(s) /\ r.user # NoUser =>
                            Live(r.user) /\ users[r.user].inst \in {slot[s].inst, NoInst}
                      /\ HasRow(s) /\ r.user = NoUser => Total < allowed
                      /\ At(s, "findEmail") => WithEmail(r.email) \subseteq {r.user}
                      /\ At(s, "find") => WithEmail(r.email) = {} /\ WithPhone(r.phone) = {}
    BY DEF DryRunsPredict
  <2> DEFINE r == Row1(s)
  <2>1. Typed /\ Seen(s) /\ Prepared(s) BY DEF BulkInv
  <2>2. At(s, "findEmail") \/ At(s, "find") \/ HasRow(s) => ~At(s, "idle") /\ Left(s) # {}
    BY <2>1 DEF Typed, RequestOK, Left, At, HasRow, Linking, Creating
  <2> SUFFICES ASSUME ~At(s, "idle"), Left(s) # {}
               PROVE  /\ HasRow(s) /\ r.user # NoUser =>
                            Live(r.user) /\ users[r.user].inst \in {slot[s].inst, NoInst}
                      /\ HasRow(s) /\ r.user = NoUser => Total < allowed
                      /\ At(s, "findEmail") => WithEmail(r.email) \subseteq {r.user}
                      /\ At(s, "find") => WithEmail(r.email) = {} /\ WithPhone(r.phone) = {}
    BY <2>2
  <2>3. AllReady(users, slot[s].inst, slot[s].rows) /\ Total + ToCreate(s) <= allowed
    BY <2>1 DEF Prepared
  <2>4. First(s) \in Left(s) /\ r = slot[s].rows[First(s)] BY <2>1, Row1Typed DEF Row1
  <2>5. Ready(users, slot[s].inst, r) BY <2>3, <2>4 DEF AllReady, Left
  <2>6. At(s, "findEmail") => r.user # NoUser /\ users[r.user].email # r.email
    BY <2>1, Row1Typed DEF Seen, At, Typed, RequestOK, Linking
  <2>7. At(s, "find") => r.user = NoUser BY <2>1, Row1Typed DEF At, Typed, RequestOK, Creating
  <2>8. r.user = NoUser => Total < allowed
    <3>1. Total \in Nat /\ allowed \in Nat BY <2>1, TotalTyped, NatAssumption DEF Typed
    <3>2. ToCreate(s) \in Nat /\ (r.user = NoUser => ToCreate(s) # 0) BY <2>1, SomeToCreate
    <3> HIDE DEF r
    <3> QED BY <2>3, <3>1, <3>2
  <2> HIDE DEF r
  <2>9. /\ r.user # NoUser => Live(r.user) /\ users[r.user].inst \in {slot[s].inst, NoInst}
        /\ r.user # NoUser /\ users[r.user].email # r.email => WithEmail(r.email) = {}
        /\ r.user = NoUser => WithEmail(r.email) = {} /\ WithPhone(r.phone) = {}
    BY <2>1, <2>5, Found1 DEF Ready, Takes, Live
  <2> QED BY <2>6, <2>7, <2>8, <2>9
<1> QED BY <1>1, AlwaysBulk, PTL

-----------------------------------------------------------------------------
(* What a step does to the users *)

\* Only a link and an insert write users, of the steps of a request.
LEMMA Writers ==
    ASSUME Next
    PROVE  \/ users' = users
           \/ \E s \in Slots : Link(s) \/ Insert(s)
           \/ \E u \in Users : \/ \E e \in Emails : VerifyEmail(u, e)
                               \/ \E i \in Insts : ConfirmEmail(u, i)
                               \/ \E name \in Names : ChangeUsername(u, name)
                               \/ Delete(u)
<1>1. ASSUME NEW s \in Slots, Handle(s) PROVE users' = users \/ Link(s) \/ Insert(s)
  BY <1>1 DEF Handle, StartUpload, StartSignup, ReadLinked, FindEmail, FindName, CheckLimit, FindUsers,
              Abort, EndUpload, Reads
<1> QED BY <1>1 DEF Next

\* A step of a request is its own.
LEMMA OwnStep ==
    ASSUME Typed, Next, NEW s \in Slots, Steps(s)
    PROVE  users' = users \/ Link(s) \/ Insert(s)
<1>1. ASSUME NEW t \in Slots, Handle(t)
      PROVE  (users' = users \/ Link(t) \/ Insert(t)) /\ \E q : Become(t, q)
  <2>1. users' = users \/ Link(t) \/ Insert(t)
    BY <1>1 DEF Handle, StartUpload, StartSignup, ReadLinked, FindEmail, FindName, CheckLimit, FindUsers,
                Abort, EndUpload, Reads
  <2>2. \E q : Become(t, q)
    BY <1>1 DEF Handle, StartUpload, StartSignup, ReadLinked, ReadUser, FindEmail, FindName, Link,
                CheckLimit, FindUsers, Insert, Abort, EndUpload, NextRow, Goto
  <2> QED BY <2>1, <2>2
<1>2. slot' # slot BY DEF Steps
<1>3. PICK t \in Slots : Handle(t)
  BY <1>2 DEF Next, VerifyEmail, ConfirmEmail, ChangeUsername, Delete
<1>4. PICK q : Become(t, q) BY <1>1, <1>3
<1>5. slot \in [Slots -> Request] /\ slot' = [slot EXCEPT ![t] = q] BY <1>4 DEF Typed, Become
<1>6. t = s BY <1>5 DEF Steps
<1> QED BY <1>1, <1>3, <1>6

\* A link, as the users see it.
LEMMA LinkIs ==
    ASSUME BulkInv, NEW s \in Slots, Link(s)
    PROVE  /\ Row1(s).user \in Users
           /\ ~LateWrite(s) =>
                 /\ Takes(users, slot[s].inst, Row1(s).user)
                 /\ \/ users[Row1(s).user].email = Row1(s).email
                    \/ Holders(users, Row1(s).email) \subseteq {Row1(s).user}
           /\ users' = users \/
                 /\ Live(Row1(s).user)
                 /\ Len(users') = Len(users)
                 /\ \A v \in Users : v # Row1(s).user => users'[v] = users[v]
                 /\ users'[Row1(s).user].live
                 /\ users'[Row1(s).user].phone = users[Row1(s).user].phone
                 /\ users'[Row1(s).user].email = Row1(s).email
                 /\ users'[Row1(s).user].inst = slot[s].inst
<1> DEFINE u == Row1(s).user
           e == Row1(s).email
           i == slot[s].inst
           x == Written(s, users[u])
<1>1. Typed /\ Seen(s) /\ Left(s) # {} /\ u # NoUser /\ Row1(s) \in Row /\ RowOK(Row1(s), Len(users))
  <2>1. Typed /\ Seen(s) /\ Left(s) # {} BY DEF Link, BulkInv, At, Typed, RequestOK, Left, Linking, Creating
  <2>2. u # NoUser /\ Row1(s) \in Row /\ RowOK(Row1(s), Len(users))
    BY <2>1, Row1Typed DEF Link, At, Typed, RequestOK, Linking, Creating
  <2> QED BY <2>1, <2>2
<1>2. u \in Users /\ slot[s] \in Request /\ UsersOK(users)
  <2>1. slot[s] \in Request /\ Len(users) \in Nat BY <1>1 DEF Typed, UsersOK
  <2> QED BY <1>1, <2>1 DEF RowOK, Users, NoUser, Row, Typed, Request
<1>3. slot[s].pc = "link" BY DEF Link, At
<1>4. ~LateWrite(s) => disturbed[s] # "row" BY <1>3 DEF LateWrite
<1>5. disturbed[s] # "row" => Takes(users, i, u) /\ (users[u].email = e \/ Holders(users, e) \subseteq {u})
  BY <1>1, <1>3 DEF Seen, At
<1>6. Live(u) => /\ Len(users') = Len(users)
                 /\ \A v \in Users : v # u => users'[v] = users[v]
                 /\ users'[u].live /\ users'[u].phone = users[u].phone
                 /\ users'[u].email = e /\ users'[u].inst = i
  <2> SUFFICES ASSUME Live(u)
               PROVE  /\ Len(users') = Len(users)
                      /\ \A v \in Users : v # u => users'[v] = users[v]
                      /\ users'[u].live /\ users'[u].phone = users[u].phone
                      /\ users'[u].email = e /\ users'[u].inst = i
    OBVIOUS
  <2>2. users \in [Users -> User] BY <1>2 DEF UsersOK, Users
  <2>1. users' = [users EXCEPT ![u] = x] BY <1>2, <2>2 DEF Link
  <2>3. users[u] \in User BY <1>2, <2>2
  <2>4. /\ users' = [users EXCEPT ![u] = x] /\ x \in User
        /\ x.live = users[u].live /\ x.phone = users[u].phone /\ x.email = e /\ x.inst = i
    BY <1>1, <1>2, <2>1, <2>3, WrittenIs
  <2> HIDE DEF x, u, e, i
  <2>5. Len(users') = Len(users) /\ users'[u] = x /\ \A v \in Users : v # u => users'[v] = users[v]
    BY <1>2, <2>4, Linked
  <2> QED BY <2>4, <2>5 DEF Live
<1>7. ~Live(u) => users' = users BY DEF Link
<1> QED BY <1>2, <1>4, <1>5, <1>6, <1>7

\* An insert, as the users see it.
LEMMA InsertIs ==
    ASSUME BulkInv, NEW s \in Slots, Insert(s)
    PROVE  \E x \in User :
              /\ users' = Append(users, x) /\ x.live /\ x.phone \in Phones /\ Len(users) < MaxUsers
              /\ ~LateWrite(s) =>
                    /\ x.email = NoEmail \/ Holders(users, x.email) = {}
                    /\ Callers(users, x.phone) = {}
<1> DEFINE x == [live |-> TRUE, email |-> Row1(s).email, phone |-> Row1(s).phone,
                 inst |-> slot[s].inst, name |-> Row1(s).name]
<1>1. /\ Typed /\ Seen(s) /\ Left(s) # {} /\ Row1(s).user = NoUser /\ Row1(s) \in Row
      /\ RowOK(Row1(s), Len(users))
  <2>1. Typed /\ Seen(s) /\ Left(s) # {} BY DEF Insert, BulkInv, At, Typed, RequestOK, Left, Linking, Creating
  <2>2. Row1(s).user = NoUser /\ Row1(s) \in Row /\ RowOK(Row1(s), Len(users))
    BY <2>1, Row1Typed DEF Insert, At, Typed, RequestOK, Linking, Creating
  <2> QED BY <2>1, <2>2
<1>2. x \in User /\ x.phone \in Phones BY <1>1 DEF RowOK, Row, Typed, Request, User
<1>3. slot[s].pc = "insert" BY DEF Insert, At
<1>4. ~LateWrite(s) => disturbed[s] # "row" BY <1>3 DEF LateWrite
<1>5. disturbed[s] # "row" =>
         /\ x.email = NoEmail \/ Holders(users, x.email) = {}
         /\ Callers(users, x.phone) = {}
  BY <1>1, <1>3 DEF Seen, At
<1>6. users' = Append(users, x) /\ x.live /\ Len(users) < MaxUsers BY DEF Insert
<1> HIDE DEF x
<1> QED BY <1>2, <1>4, <1>5, <1>6



\* A new user, as the others see it.
LEMMA AppendedIs ==
    ASSUME BulkInv, NEW x \in User, users' = Append(users, x), x.live, x.phone \in Phones,
           Len(users) < MaxUsers
    PROVE  /\ Len(users) \in Nat /\ Len(users') = Len(users) + 1
           /\ \A v \in Users : users'[v] = users[v]
           /\ users'[Len(users) + 1] = x
BY Appended DEF BulkInv, Typed

Moves(u) == users[u].inst # NoInst /\ users'[u].live /\ users'[u].inst # users[u].inst
Revives(u) == ~Live(u) /\ users'[u] # users[u]

\* A link moves nobody from another institution, unless it is late, and revives nobody.
LEMMA LinkStays ==
    ASSUME BulkInv, NEW s \in Slots, Link(s), NEW u \in Users
    PROVE  (Moves(u) => LateWrite(s)) /\ ~Revives(u)
<1> DEFINE w == Row1(s).user
           i == slot[s].inst
<1>1. /\ LateWrite(s) \/ Takes(users, i, w)
      /\ users' = users \/ /\ Live(w) /\ \A v \in Users : v # w => users'[v] = users[v]
                           /\ users'[w].inst = i
  BY LinkIs
<1> HIDE DEF w, i
<1>2. CASE users' = users BY <1>2 DEF Moves, Revives
<1>3. CASE u # w BY <1>1, <1>3 DEF Moves, Revives
<1>4. CASE u = w /\ users' # users
  <2>1. ~Revives(u) BY <1>1, <1>4 DEF Revives
  <2>2. Moves(u) => LateWrite(s) BY <1>1, <1>4 DEF Moves, Takes
  <2> QED BY <2>1, <2>2
<1> QED BY <1>2, <1>3, <1>4

LEMMA InsertStays ==
    ASSUME BulkInv, NEW s \in Slots, Insert(s), NEW u \in Users
    PROVE  users'[u] = users[u]
BY InsertIs, AppendedIs

LEMMA NextMoves ==
    ASSUME BulkInv, Next, NEW s \in Slots, Steps(s), NEW u \in Users, Moves(u)
    PROVE  LateWrite(s)
<1>1. users' = users \/ Link(s) \/ Insert(s) BY OwnStep DEF BulkInv
<1>2. users'[u] # users[u] BY DEF Moves
<1> QED BY <1>1, <1>2, LinkStays, InsertStays

LEMMA NextStays ==
    ASSUME BulkInv, Next, NEW u \in Users
    PROVE  ~Revives(u)
<1>1. CASE users' = users BY <1>1 DEF Revives
<1>2. ASSUME NEW s \in Slots, Link(s) \/ Insert(s) PROVE ~Revives(u)
  BY <1>2, LinkStays, InsertStays DEF Revives
<1>3. ASSUME NEW v \in Users, NEW x, Live(v), users' = [users EXCEPT ![v] = x] PROVE ~Revives(u)
  <2>1. users \in [Users -> User] BY DEF BulkInv, Typed, UsersOK, Users
  <2>2. u # v => users'[u] = users[u] BY <1>3, <2>1
  <2> QED BY <1>3, <2>2 DEF Revives
<1>4. ASSUME NEW v \in Users,
             \/ \E e \in Emails : VerifyEmail(v, e)
             \/ \E i \in Insts : ConfirmEmail(v, i)
             \/ \E name \in Names : ChangeUsername(v, name)
             \/ Delete(v)
      PROVE  ~Revives(u)
  <2>1. CASE \E e \in Emails : VerifyEmail(v, e) BY <1>3, <2>1, Edited DEF VerifyEmail
  <2>2. CASE \E i \in Insts : ConfirmEmail(v, i) BY <1>3, <2>2, Edited DEF ConfirmEmail
  <2>3. CASE \E name \in Names : ChangeUsername(v, name) BY <1>3, <2>3, Edited DEF ChangeUsername
  <2>4. CASE Delete(v) BY <1>3, <2>4 DEF Delete
  <2> QED BY <1>4, <2>1, <2>2, <2>3, <2>4
<1> QED BY <1>1, <1>2, <1>4, Writers

\* The members of other institutions stay there, unless an upload was overtaken before its
\* write, and the deleted stay deleted: updateInstitutionManagedUser sees to both.
THEOREM UploadsLeaveOthers == Spec => OthersStay
<1>1. BulkInv /\ [Next]_vars =>
         [\A s \in Slots, u \in Users :
             /\ Steps(s)
             /\ users[u].inst # NoInst /\ users'[u].live /\ users'[u].inst # users[u].inst
             => LateWrite(s)]_vars
  BY NextMoves DEF Moves
<1>2. BulkInv /\ [Next]_vars => [\A u \in Users : ~Live(u) => users'[u] = users[u]]_vars
  BY NextStays DEF Revives
<1> QED BY <1>1, <1>2, AlwaysBulk, PTL DEF Spec, OthersStay, MembersStay, DeletedStay

Clash(u, v) == u # v /\ Shares(users', u, v) /\ ~(u \in Users /\ v \in Users /\ Shares(users, u, v))

\* A clash that a request makes concerns the user that it writes.
LEMMA NextShares ==
    ASSUME BulkInv, Next, NEW s \in Slots, Steps(s),
           NEW u \in 1 .. Len(users'), NEW v \in 1 .. Len(users'), Clash(u, v)
    PROVE  LateWrite(s)
<1>1. users' # users
  BY DEF Clash, Users
<1>2. CASE Link(s)
  <2> DEFINE w == Row1(s).user
             e == Row1(s).email
  <2>1. /\ LateWrite(s) \/ users[w].email = e \/ Holders(users, e) \subseteq {w}
        /\ Live(w) /\ Len(users') = Len(users)
        /\ \A x \in Users : x # w => users'[x] = users[x]
        /\ users'[w].live /\ users'[w].phone = users[w].phone /\ users'[w].email = e
    BY <1>1, <1>2, LinkIs
  <2> HIDE DEF w, e
  <2>2. u \in Users /\ v \in Users /\ u # v /\ Shares(users', u, v) /\ ~Shares(users, u, v)
    BY <2>1 DEF Clash, Users
  <2>3. \A x \in Users : (users'[x].live <=> users[x].live) /\ users'[x].phone = users[x].phone
    BY <2>1 DEF Live
  <2>4. /\ users[u].live /\ users[v].live
        /\ users'[u].email = users'[v].email /\ users'[u].email # NoEmail
        /\ ~(users[u].email = users[v].email /\ users[u].email # NoEmail)
    BY <2>2, <2>3 DEF Shares
  <2>5. u = w \/ v = w BY <2>1, <2>2, <2>4
  <2>6. users[w].email # e BY <2>1, <2>2, <2>4, <2>5
  <2>7. \E x \in Users : x # w /\ users[x].live /\ users[x].email = e
    BY <2>1, <2>2, <2>4, <2>5
  <2>8. ~(Holders(users, e) \subseteq {w}) BY <2>7 DEF Holders, Users
  <2> QED BY <2>1, <2>6, <2>8
<1>3. CASE Insert(s)
  <2> SUFFICES ASSUME ~LateWrite(s) PROVE FALSE OBVIOUS
  <2>0. PICK x \in User :
           /\ users' = Append(users, x) /\ x.live /\ x.phone \in Phones /\ Len(users) < MaxUsers
           /\ x.email = NoEmail \/ Holders(users, x.email) = {}
           /\ Callers(users, x.phone) = {}
    BY <1>3, InsertIs
  <2>1. /\ Len(users) \in Nat /\ Len(users') = Len(users) + 1
        /\ \A y \in Users : users'[y] = users[y]
        /\ users'[Len(users) + 1] = x
    BY <2>0, AppendedIs
  <2>2. \A y \in 1 .. Len(users') : y \in Users \/ y = Len(users) + 1 BY <2>1 DEF Users
  <2>3. PICK y \in Users : /\ users[y].live
                           /\ \/ users[y].phone = x.phone
                              \/ users[y].email = x.email /\ x.email # NoEmail
    BY <2>1, <2>2 DEF Clash, Shares
  <2> QED BY <2>0, <2>3 DEF Holders, Callers, Users
<1> QED BY <1>1, <1>2, <1>3, OwnStep DEF BulkInv

\* An upload or a sign-up makes two users share an address or a phone number only when it was
\* overtaken between its look-ups and its write: neither field has a unique index.
THEOREM UploadsShareByRaces == Spec => SharedByRaces
<1>1. BulkInv /\ [Next]_vars =>
         [\A s \in Slots, u, v \in 1 .. Len(users') :
             Steps(s) /\ u # v /\ Shares(users', u, v) =>
                 \/ u \in Users /\ v \in Users /\ Shares(users, u, v)
                 \/ LateWrite(s)]_vars
  BY NextShares DEF Clash
<1> QED BY <1>1, AlwaysBulk, PTL DEF Spec, SharedByRaces
=============================================================================
