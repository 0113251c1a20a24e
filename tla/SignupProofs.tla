---------------------------- MODULE SignupProofs ----------------------------
(* Theorems about Signup for every number of requests, phone numbers and     *)
(* users, and every sequence of configurations: its types, and that both of  *)
(* its checks are admission checks in the sense of Admission, whose bound    *)
(* they inherit.                                                              *)
EXTENDS SignupOverlap, FiniteSetTheorems, TLAPS

LEMMA IdleIsARequest == Idle \in Request
BY DEF Idle, Handling, Request, Labels

LEMMA AbsentIsAUser == Absent \in User
BY DEF Absent, User

\* The live users are finitely many.
LEMMA LiveCounted ==
    /\ IsFiniteSet(LiveUsers) /\ Live \in Nat
    /\ \A p \in Phones : IsFiniteSet(LiveWith(p)) /\ Cardinality(LiveWith(p)) \in Nat
<1>1. IsFiniteSet(LiveUsers)
  BY IdsAssumption, FS_Subset DEF LiveUsers
<1>2. \A p \in Phones : IsFiniteSet(LiveWith(p))
  BY <1>1, FS_Subset DEF LiveWith
<1>3. QED
  BY <1>1, <1>2, FS_CardinalityType DEF Live

-----------------------------------------------------------------------------
LEMMA InitTyped == Init => TypeOK
<1> SUFFICES ASSUME Init
             PROVE  TypeOK
  OBVIOUS
<1>1. users \in [Ids -> User] /\ slot \in [Slots -> Request]
  BY IdleIsARequest, AbsentIsAUser DEF Init
<1>2. config \in [force : BOOLEAN, allowed : Nat]
  <2>1. CASE config \in [force : BOOLEAN, allowed : AllowedCounts]
    BY <2>1, CountsAssumption
  <2>2. CASE config = [force |-> FALSE, allowed |-> DefaultAllowed]
    BY <2>2, CountsAssumption
  <2>3. QED
    BY <2>1, <2>2 DEF Init
<1>3. QED
  BY <1>1, <1>2 DEF Init, TypeOK, Idle, Handling, Absent

\* Every variable keeps its type through every step of every handler.
THEOREM SignupTyped == Spec => []TypeOK
<1>1. Init => TypeOK
  BY InitTyped
<1>2. TypeOK /\ [Next]_vars => TypeOK'
  <2> SUFFICES ASSUME TypeOK, [Next]_vars
               PROVE  TypeOK'
    OBVIOUS
  <2> USE IdleIsARequest DEF TypeOK, Request, Labels, Done, Goto, At, Idle, Handling
  <2>1. ASSUME NEW s \in Slots, NEW p \in Phones, StartUnified(s, p) \/ StartManaged(s, p)
        PROVE  TypeOK'
    BY <2>1 DEF StartUnified, StartManaged
  <2>2. ASSUME NEW s \in Slots, NEW i \in Ids, StartDelete(s, i)
        PROVE  TypeOK'
    BY <2>2 DEF StartDelete, User, LiveUsers
  <2>3. ASSUME NEW s \in Slots, FindByPhone(s) \/ ResolveReferral(s)
                                \/ EnsurePhoneAvailable(s) \/ UsernameExists(s)
                                \/ SendOtp(s) \/ Abort(s)
        PROVE  TypeOK'
    BY <2>3 DEF FindByPhone, ResolveReferral, EnsurePhoneAvailable,
                                UsernameExists, SendOtp, Abort
  <2>4. ASSUME NEW s \in Slots, ReadConfig(s) \/ CountUsers(s)
        PROVE  TypeOK'
    BY <2>4 DEF ReadConfig, CountUsers, AfterCheck
  <2>5. ASSUME NEW s \in Slots, SignUp(s) \/ AutoHeal(s) \/ RetrySignUp(s) \/ DropAccount(s)
        PROVE  TypeOK'
    <3>1. slot' \in [Slots -> Request]
      BY <2>5 DEF SignUp, AutoHeal, RetrySignUp, DropAccount
    <3>2. accounts' \subseteq Phones
      BY <2>5 DEF SignUp, AutoHeal, RetrySignUp, DropAccount
    <3>3. \A t \in Slots : slot'[t].pc # "idle" => slot'[t].phone \in Phones
      BY <2>5 DEF SignUp, AutoHeal, RetrySignUp, DropAccount
    <3>4. UNCHANGED <<users, config, base>>
      BY <2>5 DEF SignUp, AutoHeal, RetrySignUp, DropAccount
    <3>5. QED
      BY <3>1, <3>2, <3>3, <3>4
  <2>6. ASSUME NEW s \in Slots, InsertUser(s)
        PROVE  TypeOK'
    <3>1. slot' \in [Slots -> Request] /\ slot[s].phone \in Phones
      BY <2>6 DEF InsertUser
    <3>2. PICK i \in Ids :
            users' = [users EXCEPT ![i] = [phone |-> slot[s].phone, status |-> "live"]]
      BY <2>6 DEF InsertUser
    <3>3. [phone |-> slot[s].phone, status |-> "live"] \in User
      BY <3>1 DEF User
    <3>4. users' \in [Ids -> User]
      BY <3>2, <3>3
    <3>5. \A j \in Ids : users'[j].status = "live" => users'[j].phone \in Phones
      BY <3>1, <3>2
    <3>6. QED
      BY <2>6, <3>1, <3>4, <3>5 DEF InsertUser
  <2>7. ASSUME NEW s \in Slots, SoftDelete(s)
        PROVE  TypeOK'
    <3>1. CASE slot[s].uid \notin LiveUsers
      BY <2>7, <3>1 DEF SoftDelete
    <3>2. CASE slot[s].uid \in LiveUsers
      <4>1. slot[s].uid \in Ids /\ users[slot[s].uid].phone \in Phones
        BY <3>2 DEF LiveUsers
      <4>2. users' = [users EXCEPT ![slot[s].uid].status = "deleted"]
        BY <2>7, <3>2 DEF SoftDelete
      <4>3. users' \in [Ids -> User]
        BY <4>1, <4>2 DEF User
      <4>4. \A j \in Ids : users'[j].status = "live" => users'[j].phone \in Phones
        BY <4>1, <4>2 DEF User
      <4>5. QED
        BY <2>7, <4>3, <4>4 DEF SoftDelete
    <3>3. QED
      BY <3>1, <3>2
  <2>8. CASE UpdateConfiguration
    BY <2>8, CountsAssumption, LiveCounted DEF UpdateConfiguration
  <2>9. CASE UNCHANGED vars
    BY <2>9 DEF vars
  <2>10. QED
    BY <2>1, <2>2, <2>3, <2>4, <2>5, <2>6, <2>7, <2>8, <2>9 DEF Next, Step, Handle
<1>3. QED
  BY <1>1, <1>2, PTL DEF Spec

-----------------------------------------------------------------------------
(* checkSignupRestrictions as an admission check on the number of users.     *)

(* First what every behaviour of Admission with these requests satisfies.    *)

LEMMA SameCount == ASSUME NEW S PROVE Limit!Cardinality(S) = Cardinality(S)
BY DEF Limit!Cardinality, Cardinality

\* Whoever holds an admission is one of the requests: there are no more of
\* them, and they are finitely many.
LEMMA HoldersCount ==
    ASSUME NEW H, H \subseteq Slots
    PROVE  /\ IsFiniteSet(H)
           /\ Cardinality(H) \in Nat
           /\ Cardinality(Slots) \in Nat
           /\ Cardinality(H) <= Cardinality(Slots)
BY SlotsAssumption, FS_Subset, FS_CardinalityType

LEMMA LargerOfTwo ==
    ASSUME NEW a \in Int, NEW b \in Int
    PROVE  Limit!Larger(a, b) \in Int /\ Limit!Larger(a, b) >= a /\ Limit!Larger(a, b) >= b
BY DEF Limit!Larger

LEMMA AdmissionTyped == Limit!Spec => []Limit!TypeOK
<1>1. Limit!Init => Limit!TypeOK
  BY DEF Limit!Init, Limit!TypeOK
<1>2. Limit!TypeOK /\ [Limit!Next]_Limit!admissionVars => Limit!TypeOK'
  BY DEF Limit!TypeOK, Limit!Next, Limit!admissionVars, Limit!Admit, Limit!Add, Limit!GiveUp,
         Limit!Remove, Limit!ChangeRule
<1>3. QED
  BY <1>1, <1>2, PTL DEF Limit!Spec

\* Whoever follows the admission pattern exceeds what is allowed by less than the
\* number of requests: what is there and what is on its way stay within the bound.
THEOREM AdmissionBounded == Limit!Spec => [](Limit!OvershootBounded /\ Limit!Promised)
<1> DEFINE Within == config.force => Live + Cardinality(Holders)
                        <= Limit!Larger(config.allowed - 1, base) + Cardinality(Slots)
<1>0. Limit!Promised <=> Within
  BY SameCount DEF Limit!Promised
<1>1. Limit!TypeOK /\ Limit!Init => Limit!Promised
  <2> SUFFICES ASSUME Limit!TypeOK, Limit!Init
               PROVE  Within
    BY <1>0
  <2>1. Cardinality(Holders) = 0
    BY FS_EmptySet DEF Limit!Init
  <2>2. Cardinality(Slots) \in Nat /\ Cardinality(Slots) # 0
    BY FS_EmptySet, FS_CardinalityType, SlotsAssumption
  <2>3. QED
    BY <2>1, <2>2 DEF Limit!Init, Limit!TypeOK, Limit!Larger
<1>2. Limit!TypeOK /\ Limit!TypeOK' /\ Limit!Promised /\ [Limit!Next]_Limit!admissionVars
        => Limit!Promised'
  <2> SUFFICES ASSUME Limit!TypeOK, Limit!TypeOK', Within,
                      [Limit!Next]_Limit!admissionVars, config.force'
               PROVE  Live' + Cardinality(Holders')
                        <= Limit!Larger(config'.allowed - 1, base') + Cardinality(Slots)
    BY <1>0, SameCount DEF Limit!Promised
  <2>1. /\ IsFiniteSet(Holders)
        /\ Cardinality(Holders) \in Nat
        /\ Cardinality(Holders') \in Nat
        /\ Cardinality(Slots) \in Nat
        /\ Cardinality(Holders') <= Cardinality(Slots)
    BY HoldersCount DEF Limit!TypeOK
  <2>2. CASE \E r \in Slots : Limit!Admit(r)
    <3>1. Live < config.allowed
      BY <2>2 DEF Limit!Admit
    <3>2. Live' = Live /\ config'.allowed = config.allowed /\ base' = base
      BY <2>2 DEF Limit!Admit
    <3>3. QED
      BY <2>1, <3>1, <3>2 DEF Limit!TypeOK, Limit!Larger
  <2>3. CASE \E r \in Slots : Limit!Add(r)
    <3>1. PICK r \in Slots : Limit!Add(r)
      BY <2>3
    <3>2. Cardinality(Holders') = Cardinality(Holders) - 1
      BY <2>1, <3>1, FS_RemoveElement DEF Limit!Add
    <3>3. QED
      BY <2>1, <3>1, <3>2 DEF Limit!Add, Limit!TypeOK, Limit!Larger
  <2>4. CASE \E r \in Slots : Limit!GiveUp(r)
    <3>1. PICK r \in Slots : Limit!GiveUp(r)
      BY <2>4
    <3>2. Cardinality(Holders') = Cardinality(Holders) - 1
      BY <2>1, <3>1, FS_RemoveElement DEF Limit!GiveUp
    <3>3. QED
      BY <2>1, <3>1, <3>2 DEF Limit!GiveUp, Limit!TypeOK, Limit!Larger
  <2>5. CASE Limit!Remove
    BY <2>1, <2>5 DEF Limit!Remove, Limit!TypeOK, Limit!Larger
  <2>6. CASE Limit!ChangeRule
    <3>1. Live' = Live /\ base' = Live /\ config'.allowed \in Nat /\ Live \in Nat
      BY <2>6 DEF Limit!ChangeRule, Limit!TypeOK
    <3>2. config'.allowed - 1 \in Int /\ Live \in Int
      BY <3>1
    <3>3. /\ Limit!Larger(config'.allowed - 1, Live) \in Int
          /\ Live <= Limit!Larger(config'.allowed - 1, Live)
      BY <3>2, LargerOfTwo
    <3>4. QED
      BY <2>1, <3>1, <3>2, <3>3
  <2>7. CASE UNCHANGED Limit!admissionVars
    BY <2>7 DEF Limit!admissionVars
  <2>8. QED
    BY <2>2, <2>3, <2>4, <2>5, <2>6, <2>7 DEF Limit!Next
<1>3. Limit!TypeOK /\ Limit!Promised => Limit!OvershootBounded
  <2>1. Limit!TypeOK => Cardinality(Holders) \in Nat /\ Cardinality(Slots) \in Nat
    BY HoldersCount DEF Limit!TypeOK
  <2>2. QED
    BY <1>0, <2>1, SameCount DEF Limit!TypeOK, Limit!OvershootBounded, Limit!Larger
<1>4. QED
  BY AdmissionTyped, <1>1, <1>2, <1>3, PTL DEF Limit!Spec

\* The states of the other requests do not change in a step of s.
LEMMA HoldersChange ==
    ASSUME TypeOK, NEW s \in Slots, config' = config, DOMAIN slot' = Slots,
           \A t \in Slots \ {s} : slot'[t] = slot[t]
    PROVE  /\ Holding(s)' => Holders' = Holders \cup {s}
           /\ ~Holding(s)' => Holders' = Holders \ {s}
BY DEF Holders, Holding, Admitted, At

LEMMA SameUsersSameLive ==
    ASSUME users' = users
    PROVE  Live' = Live /\ \A p \in Phones : LiveWith(p)' = LiveWith(p)
BY DEF Live, LiveUsers, LiveWith

\* One more user, of the phone number of its request.
LEMMA InsertAddsOne ==
    ASSUME TypeOK, NEW s \in Slots, InsertUser(s)
    PROVE  /\ Live' = Live + 1
           /\ \A p \in Phones :
                IF slot[s].phone = p
                THEN Cardinality(LiveWith(p))' = Cardinality(LiveWith(p)) + 1
                ELSE LiveWith(p)' = LiveWith(p)
<1>1. PICK i \in Ids : /\ users[i].status = "absent"
                       /\ users' = [users EXCEPT ![i] =
                                      [phone |-> slot[s].phone, status |-> "live"]]
  BY DEF InsertUser
<1>2. LiveUsers' = LiveUsers \cup {i} /\ i \notin LiveUsers
  BY <1>1 DEF LiveUsers, TypeOK
<1>3. Live' = Live + 1
  BY <1>2, LiveCounted, FS_AddElement DEF Live
<1>4. ASSUME NEW p \in Phones, slot[s].phone = p
      PROVE  Cardinality(LiveWith(p))' = Cardinality(LiveWith(p)) + 1
  <2>1. LiveWith(p)' = LiveWith(p) \cup {i} /\ i \notin LiveWith(p)
    BY <1>1, <1>2, <1>4 DEF LiveWith, LiveUsers, TypeOK
  <2>2. QED
    BY <2>1, LiveCounted, FS_AddElement
<1>5. ASSUME NEW p \in Phones, slot[s].phone # p
      PROVE  LiveWith(p)' = LiveWith(p)
  BY <1>1, <1>2, <1>5 DEF LiveWith, LiveUsers, TypeOK
<1>6. QED
  BY <1>3, <1>4, <1>5

\* At most one user less.
LEMMA SoftDeleteRemovesOne ==
    ASSUME TypeOK, NEW s \in Slots, SoftDelete(s)
    PROVE  /\ (Live' = Live) \/ (Live > 0 /\ Live' = Live - 1)
           /\ \A p \in Phones :
                \/ Cardinality(LiveWith(p))' = Cardinality(LiveWith(p))
                \/ /\ Cardinality(LiveWith(p)) > 0
                   /\ Cardinality(LiveWith(p))' = Cardinality(LiveWith(p)) - 1
<1>1. CASE slot[s].uid \notin LiveUsers
  BY <1>1, SameUsersSameLive DEF SoftDelete
<1>2. CASE slot[s].uid \in LiveUsers
  <2> DEFINE i == slot[s].uid
  <2>1. i \in Ids /\ users' = [users EXCEPT ![i].status = "deleted"]
    BY <1>2 DEF SoftDelete, LiveUsers
  <2>2. LiveUsers' = LiveUsers \ {i} /\ i \in LiveUsers
    BY <1>2, <2>1 DEF LiveUsers, TypeOK, User
  <2>3. Live > 0 /\ Live' = Live - 1
    <3>1. Live' = Live - 1 /\ Live' \in Nat /\ Live \in Nat
      BY <2>2, LiveCounted, FS_RemoveElement, FS_CardinalityType DEF Live
    <3>2. QED
      BY <3>1
  <2>4. ASSUME NEW p \in Phones
        PROVE  LiveWith(p)' = LiveWith(p) \ {i}
    BY <2>1, <2>2 DEF LiveWith, LiveUsers, TypeOK, User
  <2>5. ASSUME NEW p \in Phones, i \in LiveWith(p)
        PROVE  /\ Cardinality(LiveWith(p)) > 0
               /\ Cardinality(LiveWith(p))' = Cardinality(LiveWith(p)) - 1
    <3>1. /\ Cardinality(LiveWith(p))' = Cardinality(LiveWith(p)) - 1
          /\ Cardinality(LiveWith(p))' \in Nat /\ Cardinality(LiveWith(p)) \in Nat
      BY <2>4, <2>5, LiveCounted, FS_RemoveElement, FS_CardinalityType
    <3>2. QED
      BY <3>1
  <2>6. ASSUME NEW p \in Phones, i \notin LiveWith(p)
        PROVE  Cardinality(LiveWith(p))' = Cardinality(LiveWith(p))
    <3>1. LiveWith(p)' = LiveWith(p)
      BY <2>4, <2>6
    <3>2. QED
      BY <3>1
  <2>7. QED
    BY <2>3, <2>5, <2>6
<1>3. QED
  BY <1>1, <1>2

\* Every path that adds a user has been admitted by checkSignupRestrictions,
\* and every path that stops gives its admission back: the user limit is the
\* admission check of Admission.
THEOREM LimitRefinement == Spec => Limit!Spec
<1>1. Init => Limit!Init
  <2> SUFFICES ASSUME Init
               PROVE  Limit!Init
    OBVIOUS
  <2>1. LiveUsers = {} /\ Holders = {}
    BY DEF Init, LiveUsers, Holders, Holding, Admitted, At, Idle, Handling, Absent
  <2>2. Live = 0
    BY <2>1, FS_EmptySet DEF Live
  <2>3. TypeOK
    BY InitTyped
  <2>4. QED
    BY <2>1, <2>2, <2>3 DEF Limit!Init, Init, TypeOK
<1>2. TypeOK /\ TypeOK' /\ [Next]_vars => [Limit!Next]_Limit!admissionVars
  <2> SUFFICES ASSUME TypeOK, TypeOK', [Next]_vars
               PROVE  Limit!Next \/ UNCHANGED Limit!admissionVars
    OBVIOUS
  <2>0. DOMAIN slot' = Slots /\ Live \in Nat
    BY LiveCounted DEF TypeOK
  <2> DEFINE Stutters == UNCHANGED Limit!admissionVars
  \* A step that changes neither the users nor the configuration does nothing,
  \* or takes or gives back an admission.
  <2>1. ASSUME NEW s \in Slots, \A t \in Slots \ {s} : slot'[t] = slot[t],
               UNCHANGED <<users, config, base>>,
               (Holding(s)' /\ ~Holding(s) /\ config.force) => Live < config.allowed
        PROVE  Limit!Next \/ Stutters
    <3>1. Live' = Live
      BY <2>1, SameUsersSameLive
    <3>2. CASE Holding(s)' /\ ~Holding(s)
      <4>1. Holders' = Holders \cup {s} /\ s \notin Holders
        BY <2>0, <2>1, <3>2, HoldersChange DEF Holders
      <4>2. Limit!Admit(s)
        BY <2>1, <3>1, <3>2, <4>1 DEF Limit!Admit
      <4>3. QED
        BY <4>2 DEF Limit!Next
    <3>3. CASE ~Holding(s)' /\ Holding(s)
      <4>1. Holders' = Holders \ {s} /\ s \in Holders
        BY <2>0, <2>1, <3>3, HoldersChange DEF Holders
      <4>2. Limit!GiveUp(s)
        BY <2>1, <3>1, <4>1 DEF Limit!GiveUp
      <4>3. QED
        BY <4>2 DEF Limit!Next
    <3>4. CASE Holding(s)' <=> Holding(s)
      <4>1. Holders' = Holders
        BY <2>0, <2>1, <3>4, HoldersChange DEF Holders
      <4>2. QED
        BY <2>1, <3>1, <4>1 DEF Limit!admissionVars
    <3>5. QED
      BY <3>2, <3>3, <3>4
  <2>2. ASSUME NEW s \in Slots, NEW p \in Phones, StartUnified(s, p) \/ StartManaged(s, p)
        PROVE  Limit!Next \/ Stutters
    <3>1. ~Holding(s)'
      BY <2>2 DEF StartUnified, StartManaged, Holding, Admitted, At, Handling, TypeOK
    <3>2. QED
      BY <2>1, <2>2, <3>1 DEF StartUnified, StartManaged, TypeOK
  <2>3. ASSUME NEW s \in Slots, NEW i \in Ids, StartDelete(s, i)
        PROVE  Limit!Next \/ Stutters
    <3>1. ~Holding(s)'
      BY <2>3 DEF StartDelete, Holding, Admitted, At, Handling, TypeOK
    <3>2. QED
      BY <2>1, <2>3, <3>1 DEF StartDelete, TypeOK
  <2>4. ASSUME NEW s \in Slots, FindByPhone(s) \/ ResolveReferral(s) \/ Abort(s) \/ DropAccount(s)
        PROVE  Limit!Next \/ Stutters
    <3>1. slot'[s].pc \in {"idle", "config"}
      BY <2>4 DEF FindByPhone, ResolveReferral, Abort, DropAccount, Done, Goto, Idle,
                  Handling, TypeOK, Request
    <3>2. ~Holding(s)'
      BY <3>1 DEF Holding, Admitted, At
    <3>3. QED
      BY <2>1, <2>4, <3>2 DEF FindByPhone, ResolveReferral, Abort, DropAccount, Done, Goto,
                              TypeOK
  <2>5. ASSUME NEW s \in Slots, ReadConfig(s)
        PROVE  Limit!Next \/ Stutters
    <3>1. config.force => ~Holding(s)'
      BY <2>5 DEF ReadConfig, Holding, Admitted, At, Goto, AfterCheck, TypeOK, Request
    <3>2. QED
      BY <2>1, <2>5, <3>1 DEF ReadConfig, Goto, TypeOK
  <2>6. ASSUME NEW s \in Slots, CountUsers(s)
        PROVE  Limit!Next \/ Stutters
    <3>1. Holding(s)' /\ ~Holding(s) => Live + 1 <= slot[s].limit /\ slot[s].limit <= config.allowed
      BY <2>6 DEF CountUsers, Holding, Admitted, At, Done, Idle, Handling, AfterCheck,
                  TypeOK, Request
    <3>2. slot[s].limit \in Nat /\ config.allowed \in Nat
      BY DEF TypeOK, Request
    <3>3. Holding(s)' /\ ~Holding(s) => Live < config.allowed
      BY <2>0, <3>1, <3>2
    <3>4. QED
      BY <2>1, <2>6, <3>3 DEF CountUsers, Done, TypeOK
  <2>7. ASSUME NEW s \in Slots, EnsurePhoneAvailable(s) \/ SignUp(s) \/ UsernameExists(s)
                                \/ AutoHeal(s) \/ RetrySignUp(s) \/ SendOtp(s)
        PROVE  Limit!Next \/ Stutters
    <3>1. Holding(s)
      BY <2>7 DEF EnsurePhoneAvailable, SignUp, UsernameExists, AutoHeal, RetrySignUp,
                  SendOtp, Holding, Admitted, At
    <3>2. QED
      BY <2>1, <2>7, <3>1 DEF EnsurePhoneAvailable, SignUp, UsernameExists, AutoHeal,
                              RetrySignUp, SendOtp, Goto, Done, TypeOK
  <2>8. ASSUME NEW s \in Slots, InsertUser(s)
        PROVE  Limit!Next \/ Stutters
    <3>1. Live' = Live + 1
      BY <2>8, InsertAddsOne
    <3>2. Holding(s) /\ ~Holding(s)'
      BY <2>8 DEF InsertUser, Holding, Admitted, At, Done, Idle, Handling, TypeOK
    <3>3. Holders' = Holders \ {s} /\ s \in Holders
      BY <2>0, <2>8, <3>2, HoldersChange DEF InsertUser, Done, Holders, TypeOK
    <3>4. Limit!Add(s)
      BY <2>8, <3>1, <3>3 DEF Limit!Add, InsertUser
    <3>5. QED
      BY <3>4 DEF Limit!Next
  <2>9. ASSUME NEW s \in Slots, SoftDelete(s)
        PROVE  Limit!Next \/ Stutters
    <3>1. (Live' = Live) \/ (Live > 0 /\ Live' = Live - 1)
      BY <2>9, SoftDeleteRemovesOne
    <3>2. ~Holding(s) /\ ~Holding(s)'
      BY <2>9 DEF SoftDelete, Holding, Admitted, At, Goto, TypeOK
    <3>3. Holders' = Holders
      BY <2>0, <2>9, <3>2, HoldersChange DEF SoftDelete, Goto, Holders, TypeOK
    <3>4. UNCHANGED <<config, base>>
      BY <2>9 DEF SoftDelete
    <3>5. QED
      BY <3>1, <3>3, <3>4 DEF Limit!Next, Limit!Remove, Limit!admissionVars
  <2>10. CASE UpdateConfiguration
    <3>1. config'.force \in BOOLEAN /\ config'.allowed \in Nat
      BY DEF TypeOK
    <3>2. Live' = Live /\ base' = Live
      BY <2>10, SameUsersSameLive DEF UpdateConfiguration
    <3>3. Limit!ChangeRule
      BY <3>1, <3>2 DEF Limit!ChangeRule, Holders
    <3>4. QED
      BY <3>3 DEF Limit!Next
  <2>11. CASE UNCHANGED vars
    <3>1. Live' = Live /\ Holders' = Holders
      BY <2>11, SameUsersSameLive DEF vars, Holders, Holding, Admitted, At
    <3>2. QED
      BY <2>11, <3>1 DEF vars, Limit!admissionVars
  <2>12. QED
    BY <2>2, <2>3, <2>4, <2>5, <2>6, <2>7, <2>8, <2>9, <2>10, <2>11 DEF Next, Step, Handle
<1>3. QED
  BY <1>1, <1>2, SignupTyped, PTL DEF Spec, Limit!Spec

\* However many requests run at the same time, the number of live users stays
\* within the enforced limit up to the number of requests.
THEOREM LimitHolds == Spec => []QuotaOvershootBounded
<1>1. QED
  BY AdmissionBounded, LimitRefinement, PTL DEF QuotaOvershootBounded

-----------------------------------------------------------------------------
(* ensurePhoneAvailable as an admission check on one phone number.           *)

\* Inductive: the live users of a phone number and the requests that have found
\* nobody with it are together no more than the requests.
PhonePromised ==
    \A p \in Phones :
        Cardinality(LiveWith(p)) + Cardinality(PhoneHolders(p)) <= Cardinality(Slots)

LEMMA PhoneHoldersCount ==
    \A p \in Phones : /\ IsFiniteSet(PhoneHolders(p))
                      /\ Cardinality(PhoneHolders(p)) \in Nat
                      /\ Cardinality(PhoneHolders(p)) <= Cardinality(Slots)
                      /\ Cardinality(Slots) \in Nat
<1>1. \A p \in Phones : PhoneHolders(p) \subseteq Slots
  BY DEF PhoneHolders
<1>2. QED
  BY <1>1, SlotsAssumption, FS_Subset, FS_CardinalityType

\* A step of s that leaves the users alone and does not pass s through
\* ensurePhoneAvailable makes nobody a holder.
LEMMA NoNewHolder ==
    ASSUME TypeOK, PhonePromised, users' = users,
           \A p \in Phones : PhoneHolders(p)' \subseteq PhoneHolders(p)
    PROVE  PhonePromised'
<1>1. \A p \in Phones : Cardinality(PhoneHolders(p)') <= Cardinality(PhoneHolders(p))
  BY PhoneHoldersCount, FS_Subset
<1>2. \A p \in Phones : Cardinality(PhoneHolders(p)') \in Nat
  BY PhoneHoldersCount, FS_Subset, FS_CardinalityType
<1>3. \A p \in Phones : LiveWith(p)' = LiveWith(p)
  BY SameUsersSameLive
<1>4. QED
  BY <1>1, <1>2, <1>3, PhoneHoldersCount, LiveCounted DEF PhonePromised

\* One phone number never gets more live users than there are requests that
\* overlap; exactly one when requests come one at a time.
THEOREM PhoneBoundHolds == Spec => []PhoneOvershootBounded
<1>1. Init => PhonePromised
  <2> SUFFICES ASSUME Init, NEW p \in Phones
               PROVE  Cardinality(LiveWith(p)) + Cardinality(PhoneHolders(p))
                        <= Cardinality(Slots)
    BY DEF PhonePromised
  <2>1. LiveWith(p) = {}
    BY DEF Init, LiveUsers, LiveWith, Absent
  <2>2. QED
    BY <2>1, FS_EmptySet, PhoneHoldersCount
<1>2. TypeOK /\ TypeOK' /\ PhonePromised /\ [Next]_vars => PhonePromised'
  <2> SUFFICES ASSUME TypeOK, TypeOK', PhonePromised, [Next]_vars
               PROVE  PhonePromised'
    OBVIOUS
  <2>1. ASSUME NEW s \in Slots, NEW p \in Phones, StartUnified(s, p) \/ StartManaged(s, p)
        PROVE  PhonePromised'
    <3>1. \A q \in Phones : PhoneHolders(q)' \subseteq PhoneHolders(q)
      BY <2>1 DEF StartUnified, StartManaged, PhoneHolders, Handling, TypeOK
    <3>2. QED
      BY <2>1, <3>1, NoNewHolder DEF StartUnified, StartManaged
  <2>2. ASSUME NEW s \in Slots, NEW i \in Ids, StartDelete(s, i)
        PROVE  PhonePromised'
    <3>1. \A q \in Phones : PhoneHolders(q)' \subseteq PhoneHolders(q)
      BY <2>2 DEF StartDelete, PhoneHolders, Handling, TypeOK
    <3>2. QED
      BY <2>2, <3>1, NoNewHolder DEF StartDelete
  <2>3. ASSUME NEW s \in Slots, FindByPhone(s) \/ ReadConfig(s) \/ CountUsers(s)
                                \/ ResolveReferral(s) \/ DropAccount(s) \/ Abort(s)
        PROVE  PhonePromised'
    <3>1. slot'[s].pc \notin {"signUp", "heal", "retry", "sendOtp", "insert"}
      BY <2>3 DEF FindByPhone, ReadConfig, CountUsers, ResolveReferral, DropAccount, Abort,
                  AfterCheck, Goto, Done, Idle, Handling, TypeOK, Request
    <3>2. \A t \in Slots \ {s} : slot'[t] = slot[t]
      BY <2>3 DEF FindByPhone, ReadConfig, CountUsers, ResolveReferral, DropAccount, Abort,
                  Goto, Done, TypeOK
    <3>3. \A q \in Phones : PhoneHolders(q)' \subseteq PhoneHolders(q)
      BY <3>1, <3>2 DEF PhoneHolders
    <3>4. QED
      BY <2>3, <3>3, NoNewHolder DEF FindByPhone, ReadConfig, CountUsers, ResolveReferral,
                                     DropAccount, Abort
  <2>4. ASSUME NEW s \in Slots, EnsurePhoneAvailable(s)
        PROVE  PhonePromised'
    <3>1. CASE Done(s)
      <4>1. \A q \in Phones : PhoneHolders(q)' \subseteq PhoneHolders(q)
        BY <3>1 DEF Done, PhoneHolders, Idle, Handling, TypeOK
      <4>2. QED
        BY <2>4, <4>1, NoNewHolder DEF EnsurePhoneAvailable
    <3>2. CASE LiveWith(slot[s].phone) = {} /\ Goto(s, "signUp")
      <4>1. users' = users
        BY <2>4 DEF EnsurePhoneAvailable
      <4>2. ASSUME NEW q \in Phones, q = slot[s].phone
            PROVE  Cardinality(LiveWith(q)') = 0
        BY <3>2, <4>1, <4>2, SameUsersSameLive, FS_EmptySet
      <4>3. ASSUME NEW q \in Phones, q # slot[s].phone
            PROVE  LiveWith(q)' = LiveWith(q) /\ PhoneHolders(q)' = PhoneHolders(q)
        BY <3>2, <4>1, <4>3, SameUsersSameLive DEF Goto, PhoneHolders, TypeOK, Request
      <4>4. ASSUME NEW q \in Phones
            PROVE  /\ Cardinality(PhoneHolders(q)') \in Nat
                   /\ Cardinality(PhoneHolders(q)') <= Cardinality(Slots)
                   /\ Cardinality(Slots) \in Nat
        <5>1. PhoneHolders(q)' \subseteq Slots
          BY DEF PhoneHolders
        <5>2. QED
          BY <5>1, SlotsAssumption, FS_Subset, FS_CardinalityType
      <4>5. QED
        BY <4>2, <4>3, <4>4 DEF PhonePromised
    <3>3. QED
      BY <2>4, <3>1, <3>2 DEF EnsurePhoneAvailable
  <2>5. ASSUME NEW s \in Slots, SignUp(s) \/ UsernameExists(s) \/ AutoHeal(s)
                                \/ RetrySignUp(s) \/ SendOtp(s)
        PROVE  PhonePromised'
    <3>1. slot[s].pc \in {"signUp", "heal", "retry", "sendOtp", "insert"}
      BY <2>5 DEF SignUp, UsernameExists, AutoHeal, RetrySignUp, SendOtp, At
    <3>2. slot'[s].phone = slot[s].phone \/ slot'[s].phone \notin Phones
      BY <2>5, PhonesAssumption DEF SignUp, UsernameExists, AutoHeal, RetrySignUp, SendOtp,
                                    Goto, Done, Idle, Handling, TypeOK, Request
    <3>3. \A t \in Slots \ {s} : slot'[t] = slot[t]
      BY <2>5 DEF SignUp, UsernameExists, AutoHeal, RetrySignUp, SendOtp, Goto, Done, TypeOK
    <3>4. \A q \in Phones : PhoneHolders(q)' \subseteq PhoneHolders(q)
      BY <3>1, <3>2, <3>3 DEF PhoneHolders
    <3>5. QED
      BY <2>5, <3>4, NoNewHolder DEF SignUp, UsernameExists, AutoHeal, RetrySignUp, SendOtp
  <2>6. ASSUME NEW s \in Slots, InsertUser(s)
        PROVE  PhonePromised'
    <3>1. slot[s].pc = "insert" /\ slot' = [slot EXCEPT ![s] = Idle]
      BY <2>6 DEF InsertUser, At, Done
    <3>2. ASSUME NEW q \in Phones, q = slot[s].phone
          PROVE  Cardinality(LiveWith(q)') + Cardinality(PhoneHolders(q)')
                   <= Cardinality(Slots)
      <4>1. PhoneHolders(q)' = PhoneHolders(q) \ {s} /\ s \in PhoneHolders(q)
        BY <3>1, <3>2 DEF PhoneHolders, Idle, Handling, TypeOK
      <4>2. Cardinality(PhoneHolders(q)') = Cardinality(PhoneHolders(q)) - 1
        BY <4>1, PhoneHoldersCount, FS_RemoveElement
      <4>3. Cardinality(LiveWith(q)') = Cardinality(LiveWith(q)) + 1
        BY <2>6, <3>2, InsertAddsOne
      <4>4. QED
        BY <4>2, <4>3, PhoneHoldersCount, LiveCounted DEF PhonePromised
    <3>3. ASSUME NEW q \in Phones, q # slot[s].phone
          PROVE  LiveWith(q)' = LiveWith(q) /\ PhoneHolders(q)' = PhoneHolders(q)
      <4>1. LiveWith(q)' = LiveWith(q)
        BY <2>6, <3>3, InsertAddsOne
      <4>2. PhoneHolders(q)' = PhoneHolders(q)
        BY <3>1, <3>3 DEF PhoneHolders, Idle, Handling, TypeOK
      <4>3. QED
        BY <4>1, <4>2
    <3>4. QED
      BY <3>2, <3>3 DEF PhonePromised
  <2>7. ASSUME NEW s \in Slots, SoftDelete(s)
        PROVE  PhonePromised'
    <3>1. \A q \in Phones : PhoneHolders(q)' = PhoneHolders(q)
      BY <2>7 DEF SoftDelete, PhoneHolders, Goto, At, TypeOK, Request
    <3>2. ASSUME NEW q \in Phones
          PROVE  \/ Cardinality(LiveWith(q)') = Cardinality(LiveWith(q))
                 \/ Cardinality(LiveWith(q)') = Cardinality(LiveWith(q)) - 1
      BY <2>7, SoftDeleteRemovesOne
    <3>3. QED
      BY <3>1, <3>2, LiveCounted, PhoneHoldersCount DEF PhonePromised
  <2>8. CASE UpdateConfiguration \/ UNCHANGED vars
    <3>1. users' = users /\ slot' = slot
      BY <2>8 DEF UpdateConfiguration, vars
    <3>2. QED
      BY <3>1, NoNewHolder DEF PhoneHolders
  <2>9. QED
    BY <2>1, <2>2, <2>3, <2>4, <2>5, <2>6, <2>7, <2>8 DEF Next, Step, Handle
<1>3. PhonePromised => PhoneOvershootBounded
  BY LiveCounted, PhoneHoldersCount DEF PhonePromised, PhoneOvershootBounded
<1>4. QED
  BY <1>1, <1>2, <1>3, SignupTyped, PTL DEF Spec

\* A step of s that leaves the users of p alone does nothing to the admissions
\* for p, gives one back, or takes one while p has no user.
LEMMA PhoneStutters ==
    ASSUME TypeOK, TypeOK', NEW s \in Slots, NEW p \in Phones,
           \A t \in Slots \ {s} : slot'[t] = slot[t],
           LiveWith(p)' = LiveWith(p),
           s \in PhoneHolders(p)' => s \in PhoneHolders(p) \/ LiveWith(p) = {}
    PROVE  [OnePerPhone(p)!Next]_<<Cardinality(LiveWith(p)), PhoneHolders(p)>>
<1>1. PhoneHolders(p)' \ {s} = PhoneHolders(p) \ {s}
  BY DEF PhoneHolders
<1>2. CASE s \in PhoneHolders(p)' /\ s \notin PhoneHolders(p)
  <2>1. PhoneHolders(p)' = PhoneHolders(p) \cup {s}
    BY <1>1, <1>2
  <2>2. LiveWith(p) = {}
    BY <1>2
  <2>3. OnePerPhone(p)!Admit(s)
    BY <1>2, <2>1, <2>2, FS_EmptySet DEF OnePerPhone!Admit
  <2>4. QED
    BY <2>3 DEF OnePerPhone!Next
<1>3. CASE s \notin PhoneHolders(p)' /\ s \in PhoneHolders(p)
  <2>1. PhoneHolders(p)' = PhoneHolders(p) \ {s}
    BY <1>1, <1>3
  <2>2. OnePerPhone(p)!GiveUp(s)
    BY <1>3, <2>1 DEF OnePerPhone!GiveUp
  <2>3. QED
    BY <2>2 DEF OnePerPhone!Next
<1>4. CASE s \in PhoneHolders(p)' <=> s \in PhoneHolders(p)
  <2>1. PhoneHolders(p)' = PhoneHolders(p)
    BY <1>1, <1>4
  <2>2. QED
    BY <2>1
<1>5. QED
  BY <1>2, <1>3, <1>4

LEMMA PhoneStep ==
    ASSUME TypeOK, TypeOK', [Next]_vars, NEW p \in Phones
    PROVE  [OnePerPhone(p)!Next]_<<Cardinality(LiveWith(p)), PhoneHolders(p)>>
<1> DEFINE Goal == [OnePerPhone(p)!Next]_<<Cardinality(LiveWith(p)), PhoneHolders(p)>>
<1>1. ASSUME NEW s \in Slots, users' = users, \A t \in Slots \ {s} : slot'[t] = slot[t],
             s \in PhoneHolders(p)' => s \in PhoneHolders(p) \/ LiveWith(p) = {}
      PROVE  Goal
  BY <1>1, PhoneStutters, SameUsersSameLive
<1>2. ASSUME NEW s \in Slots, NEW q \in Phones, StartUnified(s, q) \/ StartManaged(s, q)
      PROVE  Goal
  BY <1>1, <1>2 DEF StartUnified, StartManaged, PhoneHolders, Handling, TypeOK
<1>3. ASSUME NEW s \in Slots, NEW i \in Ids, StartDelete(s, i) PROVE Goal
  BY <1>1, <1>3 DEF StartDelete, PhoneHolders, Handling, TypeOK
<1>4. ASSUME NEW s \in Slots, FindByPhone(s) \/ ReadConfig(s) \/ CountUsers(s)
                              \/ ResolveReferral(s) \/ DropAccount(s) \/ Abort(s)
      PROVE  Goal
  <2>1. slot'[s].pc \notin {"signUp", "heal", "retry", "sendOtp", "insert"}
    BY <1>4 DEF FindByPhone, ReadConfig, CountUsers, ResolveReferral, DropAccount, Abort,
                AfterCheck, Goto, Done, Idle, Handling, TypeOK, Request
  <2>2. s \notin PhoneHolders(p)'
    BY <2>1 DEF PhoneHolders
  <2>3. \A t \in Slots \ {s} : slot'[t] = slot[t]
    BY <1>4 DEF FindByPhone, ReadConfig, CountUsers, ResolveReferral, DropAccount, Abort,
                Goto, Done, TypeOK
  <2>4. users' = users
    BY <1>4 DEF FindByPhone, ReadConfig, CountUsers, ResolveReferral, DropAccount, Abort
  <2>5. QED
    BY <1>1, <2>2, <2>3, <2>4
<1>5. ASSUME NEW s \in Slots, EnsurePhoneAvailable(s) PROVE Goal
  <2>1. slot'[s].phone = slot[s].phone \/ slot'[s].phone = NoPhone
    BY <1>5 DEF EnsurePhoneAvailable, Goto, Done, Idle, Handling, TypeOK, Request
  <2>2. slot'[s].pc = "signUp" => LiveWith(slot[s].phone) = {}
    BY <1>5 DEF EnsurePhoneAvailable, Goto, Done, Idle, Handling, TypeOK
  <2>3. slot'[s].pc \in {"idle", "signUp"}
    BY <1>5 DEF EnsurePhoneAvailable, Goto, Done, Idle, Handling, TypeOK, Request
  <2>4. s \in PhoneHolders(p)' => LiveWith(p) = {}
    BY <2>1, <2>2, <2>3, PhonesAssumption DEF PhoneHolders
  <2>5. users' = users /\ \A t \in Slots \ {s} : slot'[t] = slot[t]
    BY <1>5 DEF EnsurePhoneAvailable, Goto, Done, TypeOK
  <2>6. QED
    BY <1>1, <2>4, <2>5
<1>6. ASSUME NEW s \in Slots, SignUp(s) \/ UsernameExists(s) \/ AutoHeal(s)
                              \/ RetrySignUp(s) \/ SendOtp(s)
      PROVE  Goal
  <2>1. slot[s].pc \in {"signUp", "heal", "retry", "sendOtp", "insert"}
    BY <1>6 DEF SignUp, UsernameExists, AutoHeal, RetrySignUp, SendOtp, At
  <2>2. slot'[s].phone = slot[s].phone \/ slot'[s].phone \notin Phones
    BY <1>6, PhonesAssumption DEF SignUp, UsernameExists, AutoHeal, RetrySignUp, SendOtp,
                                  Goto, Done, Idle, Handling, TypeOK, Request
  <2>3. s \in PhoneHolders(p)' => s \in PhoneHolders(p)
    BY <2>1, <2>2 DEF PhoneHolders
  <2>4. users' = users /\ \A t \in Slots \ {s} : slot'[t] = slot[t]
    BY <1>6 DEF SignUp, UsernameExists, AutoHeal, RetrySignUp, SendOtp, Goto, Done, TypeOK
  <2>5. QED
    BY <1>1, <2>3, <2>4
<1>7. ASSUME NEW s \in Slots, InsertUser(s) PROVE Goal
  <2>1. slot[s].pc = "insert" /\ slot' = [slot EXCEPT ![s] = Idle]
    BY <1>7 DEF InsertUser, At, Done
  <2>2. CASE slot[s].phone = p
    <3>1. PhoneHolders(p)' = PhoneHolders(p) \ {s} /\ s \in PhoneHolders(p)
      BY <2>1, <2>2 DEF PhoneHolders, Idle, Handling, TypeOK
    <3>2. Cardinality(LiveWith(p))' = Cardinality(LiveWith(p)) + 1
      BY <1>7, <2>2, InsertAddsOne
    <3>3. OnePerPhone(p)!Add(s)
      BY <3>1, <3>2 DEF OnePerPhone!Add
    <3>4. QED
      BY <3>3 DEF OnePerPhone!Next
  <2>3. CASE slot[s].phone # p
    <3>1. LiveWith(p)' = LiveWith(p)
      BY <1>7, <2>3, InsertAddsOne
    <3>2. PhoneHolders(p)' = PhoneHolders(p)
      BY <2>1, <2>3 DEF PhoneHolders, Idle, Handling, TypeOK
    <3>3. QED
      BY <3>1, <3>2
  <2>4. QED
    BY <2>2, <2>3
<1>8. ASSUME NEW s \in Slots, SoftDelete(s) PROVE Goal
  <2>1. PhoneHolders(p)' = PhoneHolders(p)
    BY <1>8 DEF SoftDelete, PhoneHolders, Goto, At, TypeOK, Request
  <2>2. \/ Cardinality(LiveWith(p))' = Cardinality(LiveWith(p))
        \/ /\ Cardinality(LiveWith(p)) > 0
           /\ Cardinality(LiveWith(p))' = Cardinality(LiveWith(p)) - 1
    BY <1>8, SoftDeleteRemovesOne
  <2>3. QED
    BY <2>1, <2>2 DEF OnePerPhone!Next, OnePerPhone!Remove
<1>9. CASE UpdateConfiguration \/ UNCHANGED vars
  <2>1. users' = users /\ slot' = slot
    BY <1>9 DEF UpdateConfiguration, vars
  <2>2. LiveWith(p)' = LiveWith(p) /\ PhoneHolders(p)' = PhoneHolders(p)
    BY <2>1, SameUsersSameLive DEF PhoneHolders
  <2>3. QED
    BY <2>2
<1>10. QED
  BY <1>2, <1>3, <1>4, <1>5, <1>6, <1>7, <1>8, <1>9 DEF Next, Step, Handle

\* checkSignupRestrictions is an admission check on the number of users, and
\* ensurePhoneAvailable one on the users of each phone number: no path of the
\* sign-up adds a user without passing both, or keeps an admission it gave up.
THEOREM ChecksRefinement == Spec => ChecksAreAdmission
<1>1. Init => \A p \in Phones : OnePerPhone(p)!Init
  <2> SUFFICES ASSUME Init, NEW p \in Phones
               PROVE  OnePerPhone(p)!Init
    OBVIOUS
  <2>1. LiveWith(p) = {} /\ PhoneHolders(p) = {}
    BY DEF Init, LiveUsers, LiveWith, Absent, PhoneHolders, Idle, Handling
  <2>2. QED
    BY <2>1, FS_EmptySet DEF OnePerPhone!Init
<1>2. TypeOK /\ TypeOK' /\ [Next]_vars
        => [\A p \in Phones : [OnePerPhone(p)!Next]_<<Cardinality(LiveWith(p)),
                                                      PhoneHolders(p)>>]_vars
  BY PhoneStep
<1>3. Spec => PhoneIsAdmission
  BY <1>1, <1>2, SignupTyped, PTL DEF Spec, PhoneIsAdmission
<1>4. QED
  BY <1>3, LimitRefinement DEF ChecksAreAdmission, LimitIsAdmission

-----------------------------------------------------------------------------
(* One request at a time for a phone number                                  *)

\* deleteUser deletes the user it has found, and by its phone number.
DeletesOwn ==
    \A s \in Slots : At(s, "softDelete") =>
        /\ slot[s].uid \in Ids
        /\ users[slot[s].uid].phone = slot[s].phone
        /\ users[slot[s].uid].status # "absent"

\* What is true of a number while its requests come one at a time: its user has
\* the account, a request past its look-up still finds nobody, and a deletion
\* drops the account of nobody.
Alone(p) ==
    /\ \A s, t \in HandledFor(p) : s = t
    /\ \A i, j \in LiveWith(p) : i = j
    /\ LiveWith(p) # {} => p \in accounts
    /\ \A s \in HandledFor(p) :
        /\ slot[s].pc \in {"signUp", "heal", "retry", "sendOtp", "insert", "dropAccount"} =>
                LiveWith(p) = {}
        /\ At(s, "insert") => p \in accounts
        /\ At(s, "softDelete") => slot[s].uid \in LiveWith(p)

AloneInv == DeletesOwn /\ \A p \in Phones \ overlapped : Alone(p)

\* The requests of other numbers, and what they write, leave p alone.
LEMMA AloneElsewhere ==
    ASSUME NEW p \in Phones, Alone(p), LiveWith(p)' = LiveWith(p), p \in accounts' <=> p \in accounts,
           HandledFor(p)' = HandledFor(p), \A t \in HandledFor(p) : slot'[t] = slot[t]
    PROVE  Alone(p)'
BY DEF Alone, At

LEMMA AloneArrives ==
    ASSUME TypeOK, DeletesOwn, NEW s \in Slots, NEW q \in Phones, NEW r,
           slot' = [slot EXCEPT ![s] = r], At(s, "idle"), UNCHANGED <<users, accounts>>,
           r.phone = q, r.pc \in {"find", "config", "softDelete"},
           r.pc = "softDelete" => r.uid \in LiveWith(q)
    PROVE  /\ DeletesOwn'
           /\ \A p \in Phones : Alone(p) /\ p \notin Overlapping' => Alone(p)'
<1>1. slot'[s] = r /\ \A t \in Slots \ {s} : slot'[t] = slot[t]
  BY DEF TypeOK
<1>2. DeletesOwn'
  BY <1>1 DEF DeletesOwn, At, LiveWith, LiveUsers
<1>3. \A p \in Phones : LiveWith(p)' = LiveWith(p)
  BY SameUsersSameLive
<1>4. ASSUME NEW p \in Phones, Alone(p), p \notin Overlapping', p # q
      PROVE  Alone(p)'
  <2>1. s \notin HandledFor(p) /\ s \notin HandledFor(p)'
    BY <1>1, <1>4 DEF HandledFor, At
  <2>2. HandledFor(p)' = HandledFor(p) /\ \A t \in HandledFor(p) : slot'[t] = slot[t]
    BY <1>1, <2>1 DEF HandledFor, At
  <2>3. QED
    BY <1>3, <1>4, <2>2, AloneElsewhere
<1>5. ASSUME Alone(q), q \notin Overlapping'
      PROVE  Alone(q)'
  <2>1. s \in HandledFor(q)'
    BY <1>1 DEF HandledFor, At
  <2>2. HandledFor(q)' = {s}
    BY <1>5, <2>1 DEF Overlapping
  <2>3. QED
    BY <1>1, <1>3, <1>5, <2>2 DEF Alone, At
<1>6. QED
  BY <1>2, <1>4, <1>5

\* What a handler's step does to the request and to the users of other numbers.
LEMMA HandlerOwn ==
    ASSUME TypeOK, DeletesOwn, NEW s \in Slots, Handle(s) \/ Abort(s)
    PROVE  /\ ~At(s, "idle") /\ slot[s].phone \in Phones
           /\ \A t \in Slots \ {s} : slot'[t] = slot[t]
           /\ slot'[s].pc = "idle" \/ slot'[s].phone = slot[s].phone
           /\ \A p \in Phones \ {slot[s].phone} :
                LiveWith(p)' = LiveWith(p) /\ (p \in accounts' <=> p \in accounts)
<1>1. ~At(s, "idle")
  BY DEF Handle, At, FindByPhone, ReadConfig, CountUsers, ResolveReferral, EnsurePhoneAvailable,
         SignUp, UsernameExists, AutoHeal, RetrySignUp, SendOtp, InsertUser, SoftDelete,
         DropAccount, Abort
<1>2. \A t \in Slots \ {s} : slot'[t] = slot[t]
  BY DEF TypeOK, Done, Goto, Handle, FindByPhone, ReadConfig, CountUsers, ResolveReferral,
         EnsurePhoneAvailable, SignUp, UsernameExists, AutoHeal, RetrySignUp, SendOtp,
         InsertUser, SoftDelete, DropAccount, Abort
<1>3. slot'[s].pc = "idle" \/ slot'[s].phone = slot[s].phone
  <2>1. CASE Done(s)
    BY <2>1 DEF Done, TypeOK, Idle, Handling
  <2>2. ASSUME NEW l, Goto(s, l) PROVE slot'[s].phone = slot[s].phone
    BY <2>2 DEF Goto, TypeOK, Request
  <2>3. CASE ReadConfig(s) \/ CountUsers(s)
    BY <2>1, <2>2, <2>3 DEF ReadConfig, CountUsers, TypeOK, Request
  <2>4. CASE ResolveReferral(s)
    BY <2>4 DEF ResolveReferral, TypeOK, Request
  <2>5. QED
    BY <2>1, <2>2, <2>3, <2>4
       DEF Handle, FindByPhone, EnsurePhoneAvailable, SignUp, UsernameExists, AutoHeal,
           RetrySignUp, SendOtp, InsertUser, SoftDelete, DropAccount, Abort
<1>4. \A p \in Phones \ {slot[s].phone} : p \in accounts' <=> p \in accounts
  BY DEF Handle, FindByPhone, ReadConfig, CountUsers, ResolveReferral, EnsurePhoneAvailable,
         SignUp, UsernameExists, AutoHeal, RetrySignUp, SendOtp, InsertUser, SoftDelete,
         DropAccount, Abort
<1>5. ASSUME NEW p \in Phones \ {slot[s].phone}
      PROVE  LiveWith(p)' = LiveWith(p)
  <2>1. CASE users' = users
    BY <2>1, SameUsersSameLive
  <2>2. CASE InsertUser(s)
    BY <2>2, InsertAddsOne
  <2>3. CASE SoftDelete(s) /\ slot[s].uid \in LiveUsers
    <3>1. users' = [users EXCEPT ![slot[s].uid].status = "deleted"]
      BY <2>3 DEF SoftDelete
    <3>2. users[slot[s].uid].phone # p
      BY <1>5, <2>3 DEF SoftDelete, DeletesOwn
    <3>3. QED
      BY <3>1, <3>2 DEF LiveWith, LiveUsers, TypeOK, User
  <2>4. QED
    BY <2>1, <2>2, <2>3
       DEF Handle, FindByPhone, ReadConfig, CountUsers, ResolveReferral, EnsurePhoneAvailable,
           SignUp, UsernameExists, AutoHeal, RetrySignUp, SendOtp, SoftDelete, DropAccount, Abort
<1>6. QED
  BY <1>1, <1>2, <1>3, <1>4, <1>5 DEF TypeOK, At

LEMMA DeletesOwnKept ==
    ASSUME TypeOK, DeletesOwn, NEW s \in Slots, Handle(s) \/ Abort(s)
    PROVE  DeletesOwn'
<1>1. slot'[s].pc # "softDelete"
  <2>1. CASE Done(s)
    BY <2>1 DEF Done, TypeOK, Idle, Handling
  <2>2. ASSUME NEW l, Goto(s, l) PROVE slot'[s].pc = l
    BY <2>2 DEF Goto, TypeOK, Request
  <2>3. CASE ReadConfig(s) \/ CountUsers(s)
    BY <2>1, <2>2, <2>3 DEF ReadConfig, CountUsers, AfterCheck, TypeOK, Request
  <2>4. CASE ResolveReferral(s)
    BY <2>4 DEF ResolveReferral, TypeOK, Request
  <2>5. QED
    BY <2>1, <2>2, <2>3, <2>4
       DEF Handle, FindByPhone, EnsurePhoneAvailable, SignUp, UsernameExists, AutoHeal,
           RetrySignUp, SendOtp, InsertUser, SoftDelete, DropAccount, Abort
<1>2. \A i \in Ids : users[i].status # "absent" =>
            users'[i].phone = users[i].phone /\ users'[i].status # "absent"
  <2>1. CASE InsertUser(s)
    BY <2>1 DEF InsertUser, TypeOK, User
  <2>2. CASE SoftDelete(s)
    BY <2>2 DEF SoftDelete, LiveUsers, TypeOK, User
  <2>3. CASE users' = users
    BY <2>3
  <2>4. QED
    BY <2>1, <2>2, <2>3
       DEF Handle, FindByPhone, ReadConfig, CountUsers, ResolveReferral, EnsurePhoneAvailable,
           SignUp, UsernameExists, AutoHeal, RetrySignUp, SendOtp, DropAccount, Abort
<1>3. \A t \in Slots \ {s} : slot'[t] = slot[t]
  BY HandlerOwn
<1>4. QED
  BY <1>1, <1>2, <1>3 DEF DeletesOwn, At

\* The request that is alone with its number.
LEMMA AloneHandled ==
    ASSUME TypeOK, DeletesOwn, NEW s \in Slots, Handle(s) \/ Abort(s),
           NEW p \in Phones, slot[s].phone = p, Alone(p)
    PROVE  Alone(p)'
<1> DEFINE Past == {"signUp", "heal", "retry", "sendOtp", "insert", "dropAccount"}
<1>1. HandledFor(p) = {s}
  BY HandlerOwn DEF Alone, HandledFor
<1>2. HandledFor(p)' \subseteq {s}
  BY <1>1, HandlerOwn DEF HandledFor, At
<1> DEFINE UsersOK == /\ \A i, j \in LiveWith(p)' : i = j
                      /\ LiveWith(p)' # {} => p \in accounts'
<1> DEFINE RequestAt(l) == /\ l \in Past => LiveWith(p)' = {}
                           /\ l = "insert" => p \in accounts'
                           /\ l # "softDelete"
<1>3. ASSUME UsersOK, RequestAt(slot'[s].pc) PROVE Alone(p)'
  BY <1>2, <1>3 DEF Alone, At
<1>4. ASSUME Done(s) PROVE RequestAt(slot'[s].pc)
  BY <1>4 DEF Done, TypeOK, Idle, Handling
<1>5. ASSUME NEW l, Goto(s, l) PROVE slot'[s].pc = l
  BY <1>5 DEF Goto, TypeOK, Request
<1>6. users' = users => LiveWith(p)' = LiveWith(p)
  BY SameUsersSameLive
<1>7. CASE FindByPhone(s) \/ ReadConfig(s) \/ CountUsers(s) \/ ResolveReferral(s) \/ Abort(s)
  <2>1. UNCHANGED <<users, accounts>>
    BY <1>7 DEF FindByPhone, ReadConfig, CountUsers, ResolveReferral, Abort
  <2>2. UsersOK
    BY <1>6, <2>1 DEF Alone
  <2>3. RequestAt(slot'[s].pc)
    <3>1. slot'[s].pc \in {"idle", "config", "count", "referral", "available"}
      BY <1>7 DEF FindByPhone, ReadConfig, CountUsers, ResolveReferral, Abort, AfterCheck, Goto,
                  Done, Idle, Handling, TypeOK, Request
    <3>2. QED
      BY <3>1
  <2>4. QED
    BY <1>3, <2>2, <2>3
<1>8. CASE EnsurePhoneAvailable(s) \/ UsernameExists(s) \/ SendOtp(s)
  <2>1. UNCHANGED <<users, accounts>>
    BY <1>8 DEF EnsurePhoneAvailable, UsernameExists, SendOtp
  <2>2. UsersOK
    BY <1>6, <2>1 DEF Alone
  <2>3. RequestAt(slot'[s].pc)
    <3>1. CASE Done(s)
      BY <1>4, <3>1
    <3>2. CASE EnsurePhoneAvailable(s) /\ Goto(s, "signUp") /\ LiveWith(p) = {}
      BY <1>5, <1>6, <2>1, <3>2
    <3>3. CASE UsernameExists(s)
      <4>1. LiveWith(p) = {}
        BY <1>1, <3>3 DEF Alone, UsernameExists, At
      <4>2. slot'[s].pc \in {"heal", "sendOtp"}
        BY <3>3, <1>5 DEF UsernameExists
      <4>3. QED
        BY <1>6, <2>1, <4>1, <4>2
    <3>4. CASE SendOtp(s) /\ p \in accounts /\ Goto(s, "insert")
      <4>1. LiveWith(p) = {}
        BY <1>1, <3>4 DEF Alone, SendOtp, At
      <4>2. QED
        BY <1>5, <1>6, <2>1, <3>4, <4>1
    <3>5. QED
      BY <1>8, <3>1, <3>2, <3>3, <3>4 DEF EnsurePhoneAvailable, SendOtp
  <2>4. QED
    BY <1>3, <2>2, <2>3
<1>9. CASE SignUp(s) \/ AutoHeal(s) \/ RetrySignUp(s) \/ DropAccount(s)
  <2>1. LiveWith(p) = {} /\ users' = users
    BY <1>1, <1>9 DEF Alone, SignUp, AutoHeal, RetrySignUp, DropAccount, At
  <2>2. LiveWith(p)' = {}
    BY <1>6, <2>1
  <2>3. RequestAt(slot'[s].pc)
    <3>1. CASE Done(s)
      BY <1>4, <3>1
    <3>2. CASE AutoHeal(s) /\ Goto(s, "retry")
      BY <1>5, <2>2, <3>2
    <3>3. CASE SignUp(s) \/ (RetrySignUp(s) /\ Goto(s, "insert"))
      <4>1. p \in accounts'
        BY <1>5, <3>3 DEF SignUp, RetrySignUp, At, Done, Goto, TypeOK, Idle, Handling
      <4>2. slot'[s].pc \in {"insert", "sendOtp"}
        BY <1>5, <3>3 DEF SignUp, RetrySignUp
      <4>3. QED
        BY <2>2, <4>1, <4>2
    <3>4. QED
      BY <1>9, <3>1, <3>2, <3>3 DEF AutoHeal, RetrySignUp, DropAccount
  <2>4. QED
    BY <1>3, <2>2, <2>3
<1>10. CASE InsertUser(s)
  <2>1. LiveWith(p) = {} /\ p \in accounts' /\ Done(s)
    BY <1>1, <1>10 DEF Alone, InsertUser, At
  <2>2. PICK i \in Ids : users' = [users EXCEPT ![i] = [phone |-> p, status |-> "live"]]
    BY <1>10 DEF InsertUser
  <2>3. LiveWith(p)' \subseteq {i}
    BY <2>1, <2>2 DEF LiveWith, LiveUsers, TypeOK
  <2>4. UsersOK
    BY <2>1, <2>3
  <2>5. QED
    BY <1>3, <1>4, <2>1, <2>4
<1>11. CASE SoftDelete(s)
  <2>1. slot[s].uid \in LiveWith(p)
    BY <1>1, <1>11 DEF Alone, SoftDelete, At
  <2>2. users' = [users EXCEPT ![slot[s].uid].status = "deleted"]
    BY <1>11, <2>1 DEF SoftDelete, LiveWith
  <2>3. LiveWith(p)' = {}
    <3>1. LiveWith(p)' \subseteq LiveWith(p) \ {slot[s].uid}
      BY <2>1, <2>2 DEF LiveWith, LiveUsers, TypeOK, User
    <3>2. QED
      BY <2>1, <3>1 DEF Alone
  <2>4. slot'[s].pc = "dropAccount"
    BY <1>5, <1>11 DEF SoftDelete
  <2>5. QED
    BY <1>3, <2>3, <2>4
<1>12. QED
  BY <1>7, <1>8, <1>9, <1>10, <1>11 DEF Handle

LEMMA AloneStep == TypeOK /\ AloneInv /\ [OverlapNext]_overlapVars => AloneInv'
<1> SUFFICES ASSUME TypeOK, AloneInv, [OverlapNext]_overlapVars
             PROVE  DeletesOwn' /\ \A p \in Phones \ overlapped' : Alone(p)'
  BY DEF AloneInv
<1>1. CASE UNCHANGED <<users, accounts, slot>>
  <2>1. overlapped \subseteq overlapped'
    BY DEF OverlapNext, overlapVars
  <2>2. \A p \in Phones : LiveWith(p)' = LiveWith(p) /\ HandledFor(p)' = HandledFor(p)
    BY <1>1, SameUsersSameLive DEF HandledFor, At
  <2>3. \A p \in Phones : Alone(p) => Alone(p)'
    BY <1>1, <2>2, AloneElsewhere
  <2>4. DeletesOwn'
    BY <1>1 DEF AloneInv, DeletesOwn, At
  <2>5. QED
    BY <2>1, <2>3, <2>4 DEF AloneInv
<1>2. CASE OverlapNext /\ ~UpdateConfiguration
  <2>1. DeletesOwn /\ \A p \in Phones \ overlapped' : Alone(p) /\ p \notin Overlapping'
    BY <1>2 DEF OverlapNext, AloneInv
  <2>2. ASSUME NEW s \in Slots, NEW q \in Phones, StartUnified(s, q) \/ StartManaged(s, q)
        PROVE  DeletesOwn' /\ \A p \in Phones \ overlapped' : Alone(p)'
    <3>1. PICK r \in {Handling("find", "entry", q, NoId), Handling("config", "managed", q, NoId)} :
            slot' = [slot EXCEPT ![s] = r]
      BY <2>2 DEF StartUnified, StartManaged
    <3>2. r.phone = q /\ r.pc \in {"find", "config"}
      BY DEF Handling
    <3>3. At(s, "idle") /\ UNCHANGED <<users, accounts>>
      BY <2>2 DEF StartUnified, StartManaged
    <3>4. QED
      BY <2>1, <3>1, <3>2, <3>3, AloneArrives
  <2>3. ASSUME NEW s \in Slots, NEW i \in Ids, StartDelete(s, i)
        PROVE  DeletesOwn' /\ \A p \in Phones \ overlapped' : Alone(p)'
    <3> DEFINE r == Handling("softDelete", "delete", users[i].phone, i)
    <3>1. r.pc = "softDelete" /\ r.phone = users[i].phone /\ r.uid = i
      BY DEF Handling
    <3>2. /\ slot' = [slot EXCEPT ![s] = r] /\ At(s, "idle")
          /\ UNCHANGED <<users, accounts>> /\ i \in LiveUsers
      BY <2>3 DEF StartDelete
    <3>3. users[i].phone \in Phones /\ i \in LiveWith(users[i].phone)
      BY <3>2 DEF TypeOK, LiveUsers, LiveWith
    <3> HIDE DEF r
    <3>4. QED
      BY <2>1, <3>1, <3>2, <3>3, AloneArrives
  <2>4. ASSUME NEW s \in Slots, Handle(s) \/ Abort(s)
        PROVE  DeletesOwn' /\ \A p \in Phones \ overlapped' : Alone(p)'
    <3>1. DeletesOwn'
      BY <2>1, <2>4, DeletesOwnKept
    <3>2. ASSUME NEW p \in Phones \ overlapped'
          PROVE  Alone(p)'
      <4>1. CASE slot[s].phone = p
        BY <2>1, <2>4, <4>1, AloneHandled
      <4>2. CASE slot[s].phone # p
        <5>1. HandledFor(p)' = HandledFor(p) /\ s \notin HandledFor(p)
          BY <2>1, <2>4, <4>2, HandlerOwn DEF HandledFor, At
        <5>2. /\ LiveWith(p)' = LiveWith(p) /\ (p \in accounts' <=> p \in accounts)
              /\ \A t \in Slots \ {s} : slot'[t] = slot[t]
          BY <2>1, <2>4, <4>2, HandlerOwn
        <5>3. \A t \in HandledFor(p) : slot'[t] = slot[t]
          BY <5>1, <5>2 DEF HandledFor
        <5>4. QED
          BY <2>1, <5>1, <5>2, <5>3, AloneElsewhere
      <4>3. QED
        BY <4>1, <4>2
    <3>3. QED
      BY <3>1, <3>2
  <2>5. QED
    BY <1>2, <2>2, <2>3, <2>4 DEF OverlapNext, Next, Step
<1>3. QED
  BY <1>1, <1>2 DEF OverlapNext, overlapVars, vars, UpdateConfiguration

\* Nothing but requests for one number that overlap gives it two live users, or
\* leaves its user without a Cognito account: no failed call does, and no request
\* for another number.
THEOREM OneAtATimeHolds == OverlapSpec => []OneAtATime
<1>1. OverlapInit => AloneInv
  <2> SUFFICES ASSUME OverlapInit PROVE AloneInv
    OBVIOUS
  <2>1. \A s \in Slots : At(s, "idle")
    BY DEF OverlapInit, Init, At, Idle, Handling
  <2>2. LiveUsers = {}
    BY DEF OverlapInit, Init, LiveUsers, Absent
  <2>3. \A p \in Phones : LiveWith(p) = {} /\ HandledFor(p) = {}
    BY <2>1, <2>2 DEF LiveWith, HandledFor
  <2>4. QED
    BY <2>1, <2>3 DEF AloneInv, DeletesOwn, Alone, At
<1>2. AloneInv => OneAtATime
  <2> SUFFICES ASSUME AloneInv, NEW p \in Phones \ overlapped
               PROVE  Cardinality(LiveWith(p)) <= 1 /\ (LiveWith(p) # {} => p \in accounts)
    BY DEF OneAtATime
  <2>1. Alone(p)
    BY DEF AloneInv
  <2>2. LiveWith(p) = {} \/ \E i : LiveWith(p) = {i}
    <3>1. ASSUME NEW i \in LiveWith(p)
          PROVE  LiveWith(p) = {i}
      BY <2>1 DEF Alone
    <3>2. QED
      BY <3>1
  <2>3. Cardinality(LiveWith(p)) <= 1
    <3>1. ASSUME NEW i, LiveWith(p) = {i} PROVE Cardinality(LiveWith(p)) = 1
      BY <3>1, FS_Singleton
    <3>2. LiveWith(p) = {} => Cardinality(LiveWith(p)) = 0
      BY FS_EmptySet
    <3>3. QED
      BY <2>2, <3>1, <3>2
  <2>4. QED
    BY <2>1, <2>3 DEF Alone
<1>3. OverlapSpec => Spec
  <2>1. OverlapInit => Init
    BY DEF OverlapInit
  <2>2. [OverlapNext]_overlapVars => [Next]_vars
    BY DEF OverlapNext, overlapVars
  <2>3. QED
    BY <2>1, <2>2, PTL DEF OverlapSpec, Spec
<1>4. QED
  BY <1>1, <1>2, <1>3, AloneStep, SignupTyped, PTL DEF OverlapSpec
=============================================================================
