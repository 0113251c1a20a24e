------------------------- MODULE NotificationsProofs -------------------------
(***************************************************************************)
(* Proofs about Notifications, for any number of requests, users, tokens   *)
(* and notifications.                                                      *)
(***************************************************************************)
EXTENDS Notifications, TLAPS, FiniteSetTheorems

LEMMA IdleTyped == Idle \in Request /\ RequestOK(Idle)
BY DEF Idle, Request, Labels, Sending, RequestOK

\* What a step does to the slots is one of these.
Took(s, r) == Become(s, r) /\ r \in Request /\ RequestOK(r)

LEMMA TookTyped ==
    ASSUME TypeOK, NEW s \in Slots, NEW r, Took(s, r)
    PROVE  slot' \in [Slots -> Request] /\ \A q \in Slots : RequestOK(slot[q])'
BY DEF Took, TypeOK, Become, RequestOK

LEMMA AfterTyped ==
    ASSUME NEW r \in Request, r.pc \in Sending, r.user \in Users, r.note \in Notes, r.was # "none"
    PROVE  After(r) \in Request /\ RequestOK(After(r))
<1>1. ASSUME NEW l \in {"send", "fail", "unfail"}
      PROVE  LET q == [r EXCEPT !.pc = l, !.token = NoToken]
             IN  q \in Request /\ RequestOK(q)
  BY <1>1 DEF Request, Labels, Sending, RequestOK
<1> QED BY <1>1, IdleTyped DEF After

LEMMA GotoTyped ==
    ASSUME TypeOK, NEW s \in Slots, NEW l \in Labels, Goto(s, l),
           RequestOK([slot[s] EXCEPT !.pc = l])
    PROVE  Took(s, [slot[s] EXCEPT !.pc = l])
BY DEF TypeOK, Goto, Took, Request

LEMMA DoneTyped == ASSUME NEW s \in Slots, Done(s) PROVE Took(s, Idle)
BY IdleTyped DEF Done, Took

-----------------------------------------------------------------------------
\* What the slots of a step become, action by action.
LEMMA StartTyped ==
    ASSUME TypeOK, NEW s \in Slots, NEW u \in Users, Start(s, u)
    PROVE  \E r : Took(s, r)
<1>1. ASSUME NEW t \in Tokens, NEW y \in Types, StartRegister(s, u, t, y)
      PROVE  \E r : Took(s, r)
  <2> DEFINE r(l) == [Idle EXCEPT !.pc = l, !.user = u, !.token = t, !.type = y]
  <2>1. ASSUME NEW l \in {"own", "clear"} PROVE r(l) \in Request /\ RequestOK(r(l))
    BY <2>1 DEF Idle, Request, Labels, Sending, RequestOK
  <2>2. PICK l \in {"own", "clear"} : Become(s, r(l))
    BY <1>1 DEF StartRegister
  <2> QED BY <2>1, <2>2 DEF Took
<1>2. ASSUME NEW m \in Messages, NEW n \in Notes, StartAgain(s, u, m, n)
      PROVE  \E r : Took(s, r)
  <2> DEFINE r == [Idle EXCEPT !.pc = "mute", !.user = u, !.note = n, !.was = "failed"]
  <2>1. r \in Request /\ RequestOK(r)
    BY DEF Idle, Request, Labels, Sending, RequestOK
  <2> QED BY <2>1, <1>2 DEF StartAgain, Took
<1>3. ASSUME NEW m \in Messages \cup {NoMessage}, StartCreate(s, u, m)
      PROVE  \E r : Took(s, r)
  <2> DEFINE r == [Idle EXCEPT !.pc = "insert", !.user = u, !.msg = m]
  <2>1. r \in Request /\ RequestOK(r)
    BY DEF Idle, Request, Labels, Sending, RequestOK
  <2> QED BY <2>1, <1>3 DEF StartCreate, Took
<1> QED BY <1>1, <1>2, <1>3 DEF Start

LEMMA SlotTyped ==
    ASSUME TypeOK, NEW s \in Slots, Handle(s) \/ SendThrows(s) \/ Abort(s)
    PROVE  \E r : Took(s, r)
<1> slot[s] \in Request /\ RequestOK(slot[s])
  BY DEF TypeOK
<1>1. ASSUME Done(s) PROVE \E r : Took(s, r)
  BY <1>1, DoneTyped
<1>2. ASSUME NEW l \in Labels, Goto(s, l), RequestOK([slot[s] EXCEPT !.pc = l])
      PROVE  \E r : Took(s, r)
  BY <1>2, GotoTyped
<1>3. ASSUME slot[s].pc \in Sending, NEW T \in SUBSET Tokens, NEW b \in BOOLEAN,
             Become(s, After([slot[s] EXCEPT !.todo = T, !.ok = b]))
      PROVE  \E r : Took(s, r)
  <2> DEFINE q == [slot[s] EXCEPT !.todo = T, !.ok = b]
  <2>1. q \in Request /\ q.pc \in Sending /\ q.user \in Users /\ q.note \in Notes /\ q.was # "none"
    BY <1>3 DEF Request, RequestOK, Sending
  <2>2. After(q) \in Request /\ RequestOK(After(q))
    BY <2>1, AfterTyped
  <2> QED BY <1>3, <2>2 DEF Took
<1>4. CASE Own(s) \/ Create(s) \/ MarkFailed(s) \/ MarkUnread(s) \/ Abort(s)
  BY <1>4, <1>1 DEF Own, Create, MarkFailed, MarkUnread, Abort
<1>5. CASE Clear(s)
  <2> RequestOK([slot[s] EXCEPT !.pc = "create"])
    BY <1>5 DEF Clear, At, RequestOK, Request, Sending
  <2> QED BY <1>5, <1>2 DEF Clear, Labels
<1>6. CASE Insert(s)
  <2>1. PICK n \in Notes : Become(s, [slot[s] EXCEPT !.pc = "mute", !.msg = NoMessage, !.note = n,
                                                     !.was = "unread"])
    BY <1>6 DEF Insert
  <2> DEFINE q == [slot[s] EXCEPT !.pc = "mute", !.msg = NoMessage, !.note = n, !.was = "unread"]
  <2>2. q \in Request /\ RequestOK(q)
    BY <1>6 DEF Insert, At, Request, RequestOK, Labels, Sending
  <2> QED BY <2>1, <2>2 DEF Took
<1>7. CASE CheckMute(s)
  <2> RequestOK([slot[s] EXCEPT !.pc = "tokens"])
    BY <1>7 DEF CheckMute, At, RequestOK, Request, Sending
  <2> QED BY <1>7, <1>1, <1>2 DEF CheckMute, Labels, Sending
<1>8. CASE FindTokens(s)
  <2> DEFINE q(l) == [slot[s] EXCEPT !.pc = l, !.todo = ActiveOf(slot[s].user)]
  <2>1. ActiveOf(slot[s].user) \subseteq Tokens
    BY DEF ActiveOf
  <2>2. ASSUME NEW l \in {"fail", "send"} PROVE q(l) \in Request /\ RequestOK(q(l))
    BY <1>8, <2>1, <2>2 DEF FindTokens, At, Request, RequestOK, Labels, Sending
  <2>3. PICK l \in {"fail", "send"} : Become(s, q(l))
    BY <1>8 DEF FindTokens
  <2> QED BY <2>2, <2>3 DEF Took
<1>9. ASSUME NEW t \in Tokens, SendReaches(s, t) PROVE \E r : Took(s, r)
  <2>1. slot[s].pc \in Sending /\ slot[s].todo \ {t} \in SUBSET Tokens
    BY <1>9 DEF SendReaches, At, Sending, Request
  <2>2. Become(s, After([slot[s] EXCEPT !.todo = slot[s].todo \ {t}, !.ok = TRUE]))
    BY <1>9 DEF SendReaches
  <2> QED BY <2>1, <2>2, <1>3
<1>10. ASSUME NEW t \in Tokens, SendRefused(s, t) PROVE \E r : Took(s, r)
  <2>1. slot[s].pc \in Sending /\ slot[s].todo \ {t} \in SUBSET Tokens /\ slot[s].ok \in BOOLEAN
    BY <1>10 DEF SendRefused, At, Sending, Request
  <2>2. CASE Become(s, After([slot[s] EXCEPT !.todo = slot[s].todo \ {t}]))
    <3>1. [slot[s] EXCEPT !.todo = slot[s].todo \ {t}]
            = [slot[s] EXCEPT !.todo = slot[s].todo \ {t}, !.ok = slot[s].ok]
      BY DEF Request
    <3> QED BY <2>1, <2>2, <3>1, <1>3
  <2>3. CASE Become(s, [slot[s] EXCEPT !.todo = slot[s].todo \ {t}, !.token = t, !.pc = "cleanUp"])
    <3> DEFINE q == [slot[s] EXCEPT !.todo = slot[s].todo \ {t}, !.token = t, !.pc = "cleanUp"]
    <3>1. q \in Request /\ RequestOK(q)
      BY <2>1, <1>10 DEF SendRefused, At, Request, RequestOK, Labels, Sending
    <3> QED BY <2>3, <3>1 DEF Took
  <2> QED BY <1>10, <2>2, <2>3 DEF SendRefused
<1>11. CASE CleanUp(s)
  <2>1. slot[s] = [slot[s] EXCEPT !.todo = slot[s].todo, !.ok = slot[s].ok]
    BY DEF Request
  <2>2. slot[s].pc \in Sending /\ slot[s].todo \in SUBSET Tokens /\ slot[s].ok \in BOOLEAN
    BY <1>11 DEF CleanUp, At, Sending, Request
  <2>3. Become(s, After([slot[s] EXCEPT !.todo = slot[s].todo, !.ok = slot[s].ok]))
    BY <1>11, <2>1 DEF CleanUp
  <2> QED BY <2>2, <2>3, <1>3
<1>12. CASE SendThrows(s)
  <2> RequestOK([slot[s] EXCEPT !.pc = "rescue"])
    BY <1>12 DEF SendThrows, RequestOK, Request, Sending
  <2> QED BY <1>12, <1>2 DEF SendThrows, Labels, Sending
<1> QED BY <1>4, <1>5, <1>6, <1>7, <1>8, <1>9, <1>10, <1>11, <1>12 DEF Handle

-----------------------------------------------------------------------------
\* The parts of Next, and which of them write where.
LEMMA Steps ==
    ASSUME [Next]_vars
    PROVE  \/ \E s \in Slots, u \in Users : Start(s, u)
           \/ \E s \in Slots : Handle(s) \/ SendThrows(s) \/ Abort(s)
           \/ \E t \in Tokens, u \in Users, y \in Types, a \in BOOLEAN :
                    UpdateDeviceToken(t, u, y, a)
           \/ \E T \in SUBSET Tokens : Deactivate(T)
           \/ \E t \in Tokens : Expire(t)
           \/ \E u \in Users, M \in SUBSET Messages : Dismiss(u, M)
           \/ \E n \in Notes, t \in ClientStatuses : UpdateNotificationStatus(n, t)
           \/ UNCHANGED vars
BY DEF Next

LEMMA StartWrites ==
    ASSUME NEW s, NEW u, Start(s, u)
    PROVE  DeviceUnchanged /\ note' = note /\ Settle
BY DEF Start, StartRegister, StartAgain, StartCreate, NoteUnchanged

LEMMA SlotWritesDevices ==
    ASSUME NEW s, Handle(s) \/ SendThrows(s) \/ Abort(s)
    PROVE  Own(s) \/ Create(s) \/ Clear(s) \/ CleanUp(s) \/ DeviceUnchanged
BY DEF Handle, SendThrows, Abort, Insert, CheckMute, FindTokens, SendReaches, SendRefused,
       MarkFailed, MarkUnread

LEMMA SlotWritesNotes ==
    ASSUME NEW s, Handle(s) \/ SendThrows(s) \/ Abort(s)
    PROVE  (Insert(s) \/ MarkFailed(s) \/ MarkUnread(s) \/ note' = note) /\ Settle
BY DEF Handle, SendThrows, Abort, Own, Create, Clear, CleanUp, Insert, CheckMute, FindTokens,
       SendReaches, SendRefused, MarkFailed, MarkUnread, NoteUnchanged

LEMMA DevicesTyped ==
    ASSUME TypeOK, [Next]_vars
    PROVE  device' \in [Tokens -> Device] /\ revived' \subseteq Tokens
<1> device \in [Tokens -> Device] /\ revived \subseteq Tokens
  BY DEF TypeOK
<1>1. ASSUME NEW s \in Slots, NEW u \in Users, Start(s, u)
      PROVE  device' \in [Tokens -> Device] /\ revived' \subseteq Tokens
  BY <1>1, StartWrites DEF DeviceUnchanged
<1>2. ASSUME NEW s \in Slots, Handle(s) \/ SendThrows(s) \/ Abort(s)
      PROVE  device' \in [Tokens -> Device] /\ revived' \subseteq Tokens
  <2> slot[s] \in Request /\ RequestOK(slot[s])
    BY DEF TypeOK
  <2>1. CASE Own(s) \/ Create(s)
    <3>1. slot[s].user \in Users /\ slot[s].token \in Tokens /\ slot[s].type \in Types
      BY <2>1 DEF Own, Create, At, RequestOK
    <3>2. [user |-> slot[s].user, type |-> slot[s].type, active |-> TRUE] \in Device
      BY <3>1 DEF Device
    <3> QED BY <2>1, <3>1, <3>2 DEF Own, Create, DeviceUnchanged
  <2>2. CASE Clear(s)
    <3>1. \A t \in Tokens : [device[t] EXCEPT !.active = FALSE] \in Device
      BY DEF Device
    <3> QED BY <2>2, <3>1 DEF Clear
  <2>3. CASE CleanUp(s)
    <3>1. slot[s].token \in Tokens
      BY <2>3 DEF CleanUp, At, RequestOK
    <3>2. [device[slot[s].token] EXCEPT !.active = FALSE] \in Device
      BY <3>1 DEF Device
    <3>3. [device EXCEPT ![slot[s].token].active = FALSE] \in [Tokens -> Device]
      BY <3>2
    <3> QED BY <2>3, <3>3 DEF CleanUp, DeviceUnchanged
  <2> QED BY <1>2, SlotWritesDevices, <2>1, <2>2, <2>3 DEF DeviceUnchanged
<1>3. ASSUME NEW t \in Tokens, NEW u \in Users, NEW y \in Types, NEW a \in BOOLEAN,
             UpdateDeviceToken(t, u, y, a)
      PROVE  device' \in [Tokens -> Device] /\ revived' \subseteq Tokens
  BY <1>3 DEF UpdateDeviceToken, Device
<1>4. ASSUME NEW T \in SUBSET Tokens, Deactivate(T)
      PROVE  device' \in [Tokens -> Device] /\ revived' \subseteq Tokens
  <2>1. \A t \in Tokens : [device[t] EXCEPT !.active = FALSE] \in Device
    BY DEF Device
  <2> QED BY <1>4, <2>1 DEF Deactivate
<1>5. ASSUME NEW t \in Tokens, Expire(t)
      PROVE  device' \in [Tokens -> Device] /\ revived' \subseteq Tokens
  BY <1>5 DEF Expire, NoDevice, Device
<1>6. ASSUME \/ \E u \in Users, M \in SUBSET Messages : Dismiss(u, M)
             \/ \E n \in Notes, t \in ClientStatuses : UpdateNotificationStatus(n, t)
             \/ UNCHANGED vars
      PROVE  device' \in [Tokens -> Device] /\ revived' \subseteq Tokens
  BY <1>6 DEF Dismiss, UpdateNotificationStatus, DeviceUnchanged, vars
<1> QED BY Steps, <1>1, <1>2, <1>3, <1>4, <1>5, <1>6

LEMMA NotesTyped ==
    ASSUME TypeOK, [Next]_vars
    PROVE  note' \in [Notes -> Note]
<1> note \in [Notes -> Note]
  BY DEF TypeOK
<1>1. ASSUME NEW s \in Slots, Handle(s) \/ SendThrows(s) \/ Abort(s)
      PROVE  note' \in [Notes -> Note]
  <2> slot[s] \in Request /\ RequestOK(slot[s])
    BY DEF TypeOK
  <2>1. CASE Insert(s)
    <3>1. [user |-> slot[s].user, msg |-> slot[s].msg, status |-> "unread"] \in Note
      BY DEF Request, Note
    <3> QED BY <2>1, <3>1 DEF Insert
  <2>2. CASE MarkFailed(s) \/ MarkUnread(s)
    <3>1. slot[s].note \in Notes
      BY <2>2 DEF MarkFailed, MarkUnread, At, RequestOK, Sending
    <3>2. \A t \in {"failed", "unread"} : [note[slot[s].note] EXCEPT !.status = t] \in Note
      BY <3>1 DEF Note
    <3> QED BY <2>2, <3>1, <3>2 DEF MarkFailed, MarkUnread
  <2> QED BY <1>1, SlotWritesNotes, <2>1, <2>2
<1>2. ASSUME NEW u \in Users, NEW M \in SUBSET Messages, Dismiss(u, M)
      PROVE  note' \in [Notes -> Note]
  <2>1. \A n \in Notes : [note[n] EXCEPT !.status = "read"] \in Note
    BY DEF Note
  <2> QED BY <1>2, <2>1 DEF Dismiss
<1>3. ASSUME NEW n \in Notes, NEW t \in ClientStatuses, UpdateNotificationStatus(n, t)
      PROVE  note' \in [Notes -> Note]
  <2>1. [note[n] EXCEPT !.status = t] \in Note
    BY StatusAssumption DEF Note
  <2> QED BY <1>3, <2>1 DEF UpdateNotificationStatus
<1>4. ASSUME \/ \E s \in Slots, u \in Users : Start(s, u)
             \/ \E t \in Tokens, u \in Users, y \in Types, a \in BOOLEAN :
                    UpdateDeviceToken(t, u, y, a)
             \/ \E T \in SUBSET Tokens : Deactivate(T)
             \/ \E t \in Tokens : Expire(t)
             \/ UNCHANGED vars
      PROVE  note' \in [Notes -> Note]
  BY <1>4, StartWrites DEF UpdateDeviceToken, Deactivate, Expire, NoteUnchanged, vars
<1> QED BY Steps, <1>1, <1>2, <1>3, <1>4
-----------------------------------------------------------------------------
\* A step keeps what the notifications have been through within Notes.
LEMMA HistoriesTyped ==
    ASSUME TypeOK, [Next]_vars
    PROVE  settled' \subseteq Notes /\ disturbed' \subseteq Notes /\ delivered' \subseteq Notes
<1> settled \subseteq Notes /\ disturbed \subseteq Notes /\ delivered \subseteq Notes
  BY DEF TypeOK
<1>1. Settle => settled' \subseteq Notes
  BY DEF Settle, Read
<1>2. UNCHANGED <<delivered, disturbed>> => disturbed' \subseteq Notes /\ delivered' \subseteq Notes
  OBVIOUS
<1>3. ASSUME NEW N \in SUBSET Notes, Disturb(N)
      PROVE  disturbed' \subseteq Notes /\ delivered' \subseteq Notes
  BY <1>3 DEF Disturb
<1>4. ASSUME NEW s \in Slots, NEW u \in Users, Start(s, u)
      PROVE  disturbed' \subseteq Notes /\ delivered' \subseteq Notes
  <2>1. CASE \E m \in Messages, n \in Notes : StartAgain(s, u, m, n)
    <3>1. PICK n \in Notes : Disturb({n} \cap Handled(slot))
      BY <2>1 DEF StartAgain
    <3>2. {n} \cap Handled(slot) \in SUBSET Notes
      OBVIOUS
    <3> QED BY <3>1, <3>2, <1>3
  <2>2. CASE ~ \E m \in Messages, n \in Notes : StartAgain(s, u, m, n)
    BY <1>4, <2>2, <1>2 DEF Start, StartRegister, StartCreate, NoteUnchanged
  <2> QED BY <2>1, <2>2
<1>5. ASSUME NEW s \in Slots, Handle(s) \/ SendThrows(s) \/ Abort(s)
      PROVE  disturbed' \subseteq Notes /\ delivered' \subseteq Notes
  <2> RequestOK(slot[s])
    BY DEF TypeOK
  <2>1. CASE SendThrows(s)
    <3>1. {slot[s].note} \in SUBSET Notes
      BY <2>1 DEF SendThrows, RequestOK, Sending
    <3> QED BY <2>1, <3>1, <1>3 DEF SendThrows
  <2>2. CASE \E t \in Tokens : SendReaches(s, t)
    <3>1. slot[s].note \in Notes
      BY <2>2 DEF SendReaches, At, RequestOK, Sending
    <3> QED BY <2>2, <3>1 DEF SendReaches
  <2>3. CASE Handle(s) /\ ~ \E t \in Tokens : SendReaches(s, t)
    BY <2>3, <1>2 DEF Handle, Own, Clear, Create, Insert, CheckMute, FindTokens, SendRefused,
                      CleanUp, MarkFailed, MarkUnread, NoteUnchanged
  <2>4. CASE Abort(s)
    BY <2>4, <1>2 DEF Abort, NoteUnchanged
  <2> QED BY <1>5, <2>1, <2>2, <2>3, <2>4
<1>6. ASSUME NEW n \in Notes, NEW t \in ClientStatuses, UpdateNotificationStatus(n, t)
      PROVE  settled' \subseteq Notes /\ disturbed' \subseteq Notes /\ delivered' \subseteq Notes
  <2>1. {n} \in SUBSET Notes
    OBVIOUS
  <2> QED BY <2>1, <1>3, <1>6 DEF UpdateNotificationStatus
<1>7. ASSUME \/ \E t \in Tokens, u \in Users, y \in Types, a \in BOOLEAN :
                    UpdateDeviceToken(t, u, y, a)
             \/ \E T \in SUBSET Tokens : Deactivate(T)
             \/ \E t \in Tokens : Expire(t)
             \/ \E u \in Users, M \in SUBSET Messages : Dismiss(u, M)
             \/ UNCHANGED vars
      PROVE  settled' \subseteq Notes /\ disturbed' \subseteq Notes /\ delivered' \subseteq Notes
  BY <1>7, <1>1, <1>2 DEF UpdateDeviceToken, Deactivate, Expire, Dismiss, NoteUnchanged, vars
<1> QED BY Steps, <1>1, <1>4, <1>5, <1>6, <1>7, StartWrites, SlotWritesNotes

LEMMA SlotsTyped ==
    ASSUME TypeOK, [Next]_vars
    PROVE  slot' \in [Slots -> Request] /\ \A q \in Slots : RequestOK(slot[q])'
<1>1. ASSUME NEW s \in Slots, NEW r, Took(s, r)
      PROVE  slot' \in [Slots -> Request] /\ \A q \in Slots : RequestOK(slot[q])'
  BY <1>1, TookTyped
<1>2. CASE \E s \in Slots, u \in Users : Start(s, u)
  BY <1>1, <1>2, StartTyped
<1>3. CASE \E s \in Slots : Handle(s) \/ SendThrows(s) \/ Abort(s)
  BY <1>1, <1>3, SlotTyped
<1>4. CASE UNCHANGED slot
  BY <1>4 DEF TypeOK, RequestOK
<1> QED BY Steps, <1>2, <1>3, <1>4 DEF UpdateDeviceToken, Deactivate, Expire, Dismiss,
                                       UpdateNotificationStatus, vars

\* Type correctness: what a request writes at its next step is there, and of
\* the right kind, whatever happened since it was read.
THEOREM NotificationsTyped == Spec => []TypeOK
<1>1. Init => TypeOK
  BY IdleTyped DEF Init, TypeOK, NoDevice, Unsent, Device, Note
<1>2. TypeOK /\ [Next]_vars => TypeOK'
  BY SlotsTyped, DevicesTyped, NotesTyped, HistoriesTyped DEF TypeOK
<1> QED BY <1>1, <1>2, PTL DEF Spec

-----------------------------------------------------------------------------
\* A step other than a start, a clearing and an insertion makes no request one
\* that is about to create, and a request keeps its notification.
Proceeds(s, r) ==
    /\ Become(s, r)
    /\ r.pc \notin {"create", "insert"}
    /\ r.pc # "idle" => r.note = slot[s].note

LEMMA AfterProceeds ==
    ASSUME NEW r \in Request
    PROVE  /\ After(r).pc \notin {"create", "insert"}
           /\ After(r).pc # "idle" => After(r).note = r.note
BY DEF After, Idle, Request

LEMMA SlotProceeds ==
    ASSUME TypeOK, NEW s \in Slots, Handle(s) \/ SendThrows(s) \/ Abort(s)
    PROVE  Clear(s) \/ Insert(s) \/ \E r : Proceeds(s, r)
<1> slot[s] \in Request /\ Idle \in Request /\ Idle.pc = "idle"
  BY IdleTyped DEF TypeOK, Idle
<1>1. ASSUME Done(s) PROVE Proceeds(s, Idle)
  BY <1>1 DEF Done, Proceeds
<1>2. ASSUME NEW l \in {"tokens", "rescue"}, Goto(s, l) PROVE \E r : Proceeds(s, r)
  BY <1>2 DEF Goto, Proceeds, Request
<1>3. ASSUME NEW q \in Request, q.note = slot[s].note, Become(s, After(q))
      PROVE  \E r : Proceeds(s, r)
  BY <1>3, AfterProceeds DEF Proceeds
<1>4. CASE Own(s) \/ Create(s) \/ MarkFailed(s) \/ MarkUnread(s) \/ Abort(s)
  BY <1>4, <1>1 DEF Own, Create, MarkFailed, MarkUnread, Abort
<1>5. CASE CheckMute(s) \/ SendThrows(s)
  BY <1>5, <1>1, <1>2 DEF CheckMute, SendThrows
<1>6. CASE FindTokens(s)
  <2> DEFINE q(l) == [slot[s] EXCEPT !.pc = l, !.todo = ActiveOf(slot[s].user)]
  <2>1. PICK l \in {"fail", "send"} : Become(s, q(l))
    BY <1>6 DEF FindTokens
  <2>2. q(l).pc = l /\ q(l).note = slot[s].note
    BY DEF Request
  <2> QED BY <2>1, <2>2 DEF Proceeds
<1>7. ASSUME NEW t \in Tokens, SendReaches(s, t) \/ SendRefused(s, t)
      PROVE  \E r : Proceeds(s, r)
  <2> DEFINE T == slot[s].todo \ {t}
  <2>1. CASE \/ Become(s, After([slot[s] EXCEPT !.todo = T, !.ok = TRUE]))
             \/ Become(s, After([slot[s] EXCEPT !.todo = T]))
    <3>1. /\ [slot[s] EXCEPT !.todo = T, !.ok = TRUE] \in Request
          /\ [slot[s] EXCEPT !.todo = T, !.ok = TRUE].note = slot[s].note
          /\ [slot[s] EXCEPT !.todo = T] \in Request
          /\ [slot[s] EXCEPT !.todo = T].note = slot[s].note
      BY DEF Request
    <3> QED BY <2>1, <3>1, <1>3
  <2>2. CASE Become(s, [slot[s] EXCEPT !.todo = T, !.token = t, !.pc = "cleanUp"])
    <3> DEFINE q == [slot[s] EXCEPT !.todo = T, !.token = t, !.pc = "cleanUp"]
    <3>1. q.pc = "cleanUp" /\ q.note = slot[s].note
      BY DEF Request
    <3> QED BY <2>2, <3>1 DEF Proceeds
  <2> QED BY <1>7, <2>1, <2>2 DEF SendReaches, SendRefused
<1>8. CASE CleanUp(s)
  BY <1>8, <1>3 DEF CleanUp
<1> QED BY <1>4, <1>5, <1>6, <1>7, <1>8 DEF Handle

-----------------------------------------------------------------------------
\* How many there are and how many are about to be created: a step that clears
\* the first, only shrinks both, or turns one of the second into one of the
\* first, keeps them within the requests that overlap.
Counts(A, C, A2, C2) ==
    \/ A2 = {}
    \/ A2 \subseteq A /\ C2 \subseteq C
    \/ \E x, s : s \in C /\ A2 \subseteq A \cup {x} /\ C2 \subseteq C \ {s}

LEMMA Counting ==
    ASSUME NEW A, IsFiniteSet(A), NEW C \in SUBSET Slots,
           Cardinality(A) + Cardinality(C) <= Cardinality(Slots),
           NEW A2, NEW C2 \in SUBSET Slots, Counts(A, C, A2, C2)
    PROVE  Cardinality(A2) + Cardinality(C2) <= Cardinality(Slots)
<1>1. IsFiniteSet(Slots) /\ IsFiniteSet(C) /\ IsFiniteSet(C2) /\ Cardinality(C2) <= Cardinality(Slots)
  BY SlotsAssumption, FS_Subset
<1>2. /\ Cardinality(Slots) \in Nat /\ Cardinality(A) \in Nat /\ Cardinality(C) \in Nat
      /\ Cardinality(C2) \in Nat
  BY <1>1, FS_CardinalityType
<1>3. CASE A2 = {}
  BY <1>1, <1>2, <1>3, FS_EmptySet
<1>4. CASE A2 \subseteq A /\ C2 \subseteq C
  <2>1. Cardinality(A2) \in Nat /\ Cardinality(A2) <= Cardinality(A) /\ Cardinality(C2) <= Cardinality(C)
    BY <1>1, <1>4, FS_Subset, FS_CardinalityType
  <2> QED BY <1>2, <2>1
<1>5. ASSUME NEW x, NEW s, s \in C, A2 \subseteq A \cup {x}, C2 \subseteq C \ {s}
      PROVE  Cardinality(A2) + Cardinality(C2) <= Cardinality(Slots)
  <2>1. IsFiniteSet(A \cup {x}) /\ Cardinality(A \cup {x}) <= Cardinality(A) + 1
    <3>1. \/ Cardinality(A \cup {x}) = Cardinality(A)
          \/ Cardinality(A \cup {x}) = Cardinality(A) + 1
      BY FS_AddElement
    <3> QED BY <1>2, <3>1, FS_AddElement
  <2>2. Cardinality(C \ {s}) = Cardinality(C) - 1 /\ IsFiniteSet(C \ {s})
    BY <1>1, <1>5, FS_RemoveElement
  <2>3. Cardinality(A2) \in Nat /\ Cardinality(A2) <= Cardinality(A \cup {x})
    BY <1>5, <2>1, FS_Subset, FS_CardinalityType
  <2>4. Cardinality(C2) <= Cardinality(C \ {s})
    BY <1>5, <2>2, FS_Subset
  <2>5. Cardinality(A \cup {x}) \in Nat
    BY <2>1, FS_CardinalityType
  <2> QED BY <1>2, <2>1, <2>2, <2>3, <2>4, <2>5
<1> QED BY <1>3, <1>4, <1>5 DEF Counts

-----------------------------------------------------------------------------
\* The active tokens a registration created.
Fresh(u, y) == ActiveOn(u, y) \ revived

LEMMA CreatingProceeds ==
    ASSUME TypeOK, NEW s \in Slots, NEW r, Proceeds(s, r), NEW u, NEW y
    PROVE  Creating(u, y)' \subseteq Creating(u, y) \ {s}
BY DEF TypeOK, Proceeds, Become, Creating, At

LEMMA DoneProceeds == ASSUME NEW s, Done(s) PROVE Proceeds(s, Idle)
BY DEF Done, Proceeds, Idle

LEMMA StartCreating ==
    ASSUME TypeOK, NEW s \in Slots, NEW v \in Users, Start(s, v), NEW u, NEW y
    PROVE  Creating(u, y)' \subseteq Creating(u, y)
<1>1. ASSUME NEW r, Become(s, r), r.pc # "create"
      PROVE  Creating(u, y)' \subseteq Creating(u, y)
  BY <1>1 DEF TypeOK, Become, Creating, At
<1>2. ASSUME NEW t, NEW x, StartRegister(s, v, t, x) PROVE \E r : Become(s, r) /\ r.pc # "create"
  <2> DEFINE r(l) == [Idle EXCEPT !.pc = l, !.user = v, !.token = t, !.type = x]
  <2>1. PICK l \in {"own", "clear"} : Become(s, r(l))
    BY <1>2 DEF StartRegister
  <2>2. r(l).pc = l
    BY DEF Idle
  <2> QED BY <2>1, <2>2
<1>3. ASSUME NEW m, NEW n, StartAgain(s, v, m, n) PROVE \E r : Become(s, r) /\ r.pc # "create"
  <2>1. [Idle EXCEPT !.pc = "mute", !.user = v, !.note = n, !.was = "failed"].pc = "mute"
    BY DEF Idle
  <2> QED BY <1>3, <2>1 DEF StartAgain
<1>4. ASSUME NEW m, StartCreate(s, v, m) PROVE \E r : Become(s, r) /\ r.pc # "create"
  <2>1. [Idle EXCEPT !.pc = "insert", !.user = v, !.msg = m].pc = "insert"
    BY DEF Idle
  <2> QED BY <1>4, <2>1 DEF StartCreate
<1> QED BY <1>1, <1>2, <1>3, <1>4 DEF Start

\* Only Clear, Own and Create touch what is active and fresh, other than to
\* make less of it; Create takes a registration's place.
LEMMA TokensStep ==
    ASSUME TypeOK, [Next]_vars, NEW u \in Users, NEW y \in Types
    PROVE  Counts(Fresh(u, y), Creating(u, y), Fresh(u, y)', Creating(u, y)')
<1> device \in [Tokens -> Device] /\ revived \subseteq Tokens
  BY DEF TypeOK
<1>1. ASSUME NEW v \in Users, NEW x, NEW t \in Tokens, NEW a \in BOOLEAN,
             device' = [device EXCEPT ![t] = [user |-> v, type |-> x, active |-> a]],
             v = u /\ x = y => ~a \/ t \in revived',
             revived \ {t} \subseteq revived'
      PROVE  Fresh(u, y)' \subseteq Fresh(u, y)
  BY <1>1 DEF Fresh, ActiveOn, ActiveOf
<1>2. ASSUME NEW T \in SUBSET Tokens,
             device' = [t \in Tokens |-> IF t \in T THEN [device[t] EXCEPT !.active = FALSE]
                                                    ELSE device[t]],
             revived' = revived \ T
      PROVE  /\ Fresh(u, y)' \subseteq Fresh(u, y)
             /\ ActiveOn(u, y) \subseteq T => Fresh(u, y)' = {}
  <2>1. ASSUME NEW t \in Tokens, device'[t].active
        PROVE  t \notin T /\ device'[t] = device[t]
    BY <1>2, <2>1 DEF Device
  <2> QED BY <1>2, <2>1 DEF Fresh, ActiveOn, ActiveOf
<1>3. DeviceUnchanged => Fresh(u, y)' = Fresh(u, y)
  BY DEF DeviceUnchanged, Fresh, ActiveOn, ActiveOf
<1>4. UNCHANGED slot => Creating(u, y)' = Creating(u, y)
  BY DEF Creating, At
<1>5. ASSUME NEW s \in Slots, NEW v \in Users, Start(s, v)
      PROVE  Fresh(u, y)' \subseteq Fresh(u, y) /\ Creating(u, y)' \subseteq Creating(u, y)
  BY <1>3, <1>5, StartWrites, StartCreating
<1>6. ASSUME NEW s \in Slots, Clear(s)
      PROVE  Counts(Fresh(u, y), Creating(u, y), Fresh(u, y)', Creating(u, y)')
  <2>1. ActiveOn(slot[s].user, slot[s].type) \in SUBSET Tokens
    BY DEF ActiveOn, ActiveOf
  <2>2. /\ Fresh(u, y)' \subseteq Fresh(u, y)
        /\ slot[s].user = u /\ slot[s].type = y => Fresh(u, y)' = {}
    BY <1>2, <1>6, <2>1 DEF Clear
  <2>3. ~(slot[s].user = u /\ slot[s].type = y) => Creating(u, y)' \subseteq Creating(u, y)
    BY <1>6 DEF Clear, Goto, Become, Creating, At, TypeOK, Request
  <2> QED BY <2>2, <2>3 DEF Counts
<1>7. ASSUME NEW s \in Slots, Create(s) \/ Own(s)
      PROVE  Counts(Fresh(u, y), Creating(u, y), Fresh(u, y)', Creating(u, y)')
  <2> DEFINE t == slot[s].token
             w == [device EXCEPT ![t] = [user |-> slot[s].user, type |-> slot[s].type,
                                         active |-> TRUE]]
  <2>1. slot[s].user \in Users /\ t \in Tokens
    BY <1>7 DEF TypeOK, RequestOK, Create, Own, At
  <2>2. Creating(u, y)' \subseteq Creating(u, y) \ {s}
    BY <1>7, DoneProceeds, CreatingProceeds DEF Create, Own
  <2>3. CASE DeviceUnchanged
    BY <1>3, <2>2, <2>3 DEF Counts
  <2>4. CASE Own(s) /\ device' = w /\ revived' = revived \cup {t}
    BY <1>1, <2>1, <2>2, <2>4 DEF Counts
  <2>5. CASE Create(s) /\ device' = w /\ revived' = revived \ {t}
    <3>1. CASE slot[s].user = u /\ slot[s].type = y
      <4>1. s \in Creating(u, y)
        BY <2>5, <3>1 DEF Creating, Create
      <4>2. Fresh(u, y)' \subseteq Fresh(u, y) \cup {t}
        BY <2>5, <2>1 DEF Fresh, ActiveOn, ActiveOf
      <4> QED BY <2>2, <4>1, <4>2 DEF Counts
    <3>2. CASE ~(slot[s].user = u /\ slot[s].type = y)
      <4>1. Fresh(u, y)' \subseteq Fresh(u, y)
        BY <2>1, <2>5, <3>2 DEF Fresh, ActiveOn, ActiveOf
      <4> QED BY <2>2, <4>1 DEF Counts
    <3> QED BY <3>1, <3>2
  <2>6. Own(s) => DeviceUnchanged \/ (device' = w /\ revived' = revived \cup {t})
    BY DEF Own
  <2>7. Create(s) => DeviceUnchanged \/ (device' = w /\ revived' = revived \ {t})
    BY DEF Create
  <2> QED BY <1>7, <2>3, <2>4, <2>5, <2>6, <2>7
<1>8. ASSUME NEW s \in Slots, CleanUp(s) \/ DeviceUnchanged
      PROVE  Fresh(u, y)' \subseteq Fresh(u, y)
  <2>1. CASE CleanUp(s) /\ ~DeviceUnchanged
    <3>1. slot[s].token \in Tokens
      BY <2>1 DEF TypeOK, RequestOK, CleanUp, At
    <3>2. /\ device' = [device EXCEPT ![slot[s].token].active = FALSE]
          /\ revived' = revived \ {slot[s].token}
      BY <2>1 DEF CleanUp
    <3>3. device' = [t \in Tokens |-> IF t \in {slot[s].token}
                                      THEN [device[t] EXCEPT !.active = FALSE] ELSE device[t]]
      BY <3>1, <3>2
    <3>4. {slot[s].token} \in SUBSET Tokens
      BY <3>1
    <3> QED BY <1>2, <3>2, <3>3, <3>4
  <2> QED BY <1>3, <1>8, <2>1
<1>9. ASSUME NEW s \in Slots, Insert(s)
      PROVE  DeviceUnchanged /\ Creating(u, y)' \subseteq Creating(u, y)
  <2>1. PICK n \in Notes : Become(s, [slot[s] EXCEPT !.pc = "mute", !.msg = NoMessage, !.note = n,
                                                     !.was = "unread"])
    BY <1>9 DEF Insert
  <2>2. [slot[s] EXCEPT !.pc = "mute", !.msg = NoMessage, !.note = n, !.was = "unread"].pc = "mute"
    BY DEF TypeOK, Request
  <2> QED BY <1>9, <2>1, <2>2 DEF Insert, Become, Creating, At, TypeOK
<1>10. ASSUME NEW s \in Slots, Handle(s) \/ SendThrows(s) \/ Abort(s)
       PROVE  Counts(Fresh(u, y), Creating(u, y), Fresh(u, y)', Creating(u, y)')
  <2>1. CASE Clear(s) \/ Create(s) \/ Own(s)
    BY <1>6, <1>7, <2>1
  <2>2. CASE Insert(s)
    BY <1>3, <1>9, <2>2 DEF Counts
  <2>3. CASE ~(Clear(s) \/ Create(s) \/ Own(s) \/ Insert(s))
    <3>1. Fresh(u, y)' \subseteq Fresh(u, y)
      BY <1>8, <1>10, <2>3, SlotWritesDevices
    <3>2. Creating(u, y)' \subseteq Creating(u, y) \ {s}
      BY <1>10, <2>3, SlotProceeds, CreatingProceeds
    <3> QED BY <3>1, <3>2 DEF Counts
  <2> QED BY <2>1, <2>2, <2>3
<1>11. ASSUME NEW t \in Tokens, NEW v \in Users, NEW x \in Types, NEW a \in BOOLEAN,
              UpdateDeviceToken(t, v, x, a)
       PROVE  Fresh(u, y)' \subseteq Fresh(u, y) /\ UNCHANGED slot
  <2>1. (~a \/ t \in revived') /\ revived \ {t} \subseteq revived'
    BY <1>11 DEF UpdateDeviceToken
  <2> QED BY <1>1, <1>11, <2>1 DEF UpdateDeviceToken
<1>12. ASSUME NEW T \in SUBSET Tokens, Deactivate(T)
       PROVE  Fresh(u, y)' \subseteq Fresh(u, y) /\ UNCHANGED slot
  BY <1>2, <1>12 DEF Deactivate
<1>13. ASSUME NEW t \in Tokens, Expire(t)
       PROVE  Fresh(u, y)' \subseteq Fresh(u, y) /\ UNCHANGED slot
  BY <1>13 DEF Expire, NoDevice, Fresh, ActiveOn, ActiveOf
<1>14. ASSUME \/ \E v \in Users, M \in SUBSET Messages : Dismiss(v, M)
              \/ \E n \in Notes, t \in ClientStatuses : UpdateNotificationStatus(n, t)
              \/ UNCHANGED vars
       PROVE  Fresh(u, y)' \subseteq Fresh(u, y) /\ UNCHANGED slot
  BY <1>3, <1>14 DEF Dismiss, UpdateNotificationStatus, DeviceUnchanged, vars
<1> QED BY Steps, <1>4, <1>5, <1>10, <1>11, <1>12, <1>13, <1>14 DEF Counts

\* However registrations, updates, clean-ups and expiries interleave, a user
\* has no more active tokens of a type, made by registering, than overlap.
THEOREM ActiveTokensHold == Spec => []ActiveTokensBounded
<1>1. \A u \in Users, y \in Types : Creating(u, y) \in SUBSET Slots
  BY DEF Creating
<1>2. \A u \in Users, y \in Types : IsFiniteSet(ActiveOn(u, y) \ revived)
  BY StoresAssumption, FS_Subset DEF ActiveOn, ActiveOf
<1>3. Init => ActiveTokensBounded
  <2> SUFFICES ASSUME Init, NEW u \in Users, NEW y \in Types
               PROVE  Cardinality(ActiveOn(u, y) \ revived) + Cardinality(Creating(u, y))
                        <= Cardinality(Slots)
    BY DEF ActiveTokensBounded
  <2>1. ActiveOn(u, y) \ revived = {} /\ Creating(u, y) = {}
    BY DEF Init, ActiveOn, ActiveOf, NoDevice, Creating, At, Idle
  <2>2. Cardinality({}) = 0 /\ Cardinality(Slots) \in Nat
    BY SlotsAssumption, FS_EmptySet, FS_CardinalityType
  <2> QED BY <2>1, <2>2
<1>4. TypeOK /\ ActiveTokensBounded /\ [Next]_vars => ActiveTokensBounded'
  <2> SUFFICES ASSUME TypeOK, ActiveTokensBounded, [Next]_vars,
                      NEW u \in Users, NEW y \in Types
               PROVE  Cardinality(Fresh(u, y)') + Cardinality(Creating(u, y)')
                        <= Cardinality(Slots)
    BY DEF ActiveTokensBounded, Fresh
  <2>1. Creating(u, y) \in SUBSET Slots /\ Creating(u, y)' \in SUBSET Slots
    BY DEF Creating
  <2>2. IsFiniteSet(Fresh(u, y))
    BY <1>2 DEF Fresh
  <2>3. Cardinality(Fresh(u, y)) + Cardinality(Creating(u, y)) <= Cardinality(Slots)
    BY DEF ActiveTokensBounded, Fresh
  <2> DEFINE A == Fresh(u, y)
             C == Creating(u, y)
             A2 == Fresh(u, y)'
             C2 == Creating(u, y)'
  <2>4. Counts(A, C, A2, C2)
    BY TokensStep
  <2> HIDE DEF A, C, A2, C2
  <2>5. Cardinality(A2) + Cardinality(C2) <= Cardinality(Slots)
    <3>1. IsFiniteSet(A) /\ C \in SUBSET Slots /\ C2 \in SUBSET Slots
      BY <2>1, <2>2 DEF A, C, C2
    <3>2. Cardinality(A) + Cardinality(C) <= Cardinality(Slots)
      BY <2>3 DEF A, C
    <3> QED BY <2>4, <3>1, <3>2, Counting
  <2> QED BY <2>5 DEF A2, C2
<1> QED BY <1>3, <1>4, NotificationsTyped, PTL DEF Spec

-----------------------------------------------------------------------------
LEMMA CreatorsProceed ==
    ASSUME TypeOK, NEW s \in Slots, NEW r, Proceeds(s, r), NEW u, NEW m
    PROVE  Creators(u, m)' \subseteq Creators(u, m) \ {s}
BY DEF TypeOK, Proceeds, Become, Creators, At

LEMMA InsertTakes ==
    ASSUME TypeOK, NEW s \in Slots, Insert(s)
    PROVE  \E n, r :
              /\ n \in Notes /\ note[n].status = "absent"
              /\ note' = [note EXCEPT ![n] = [user |-> slot[s].user, msg |-> slot[s].msg,
                                              status |-> "unread"]]
              /\ Become(s, r) /\ r.pc = "mute" /\ r.note = n
<1>1. PICK n \in Notes :
        /\ note[n].status = "absent"
        /\ note' = [note EXCEPT ![n] = [user |-> slot[s].user, msg |-> slot[s].msg,
                                        status |-> "unread"]]
        /\ Become(s, [slot[s] EXCEPT !.pc = "mute", !.msg = NoMessage, !.note = n,
                                     !.was = "unread"])
  BY DEF Insert
<1> DEFINE r == [slot[s] EXCEPT !.pc = "mute", !.msg = NoMessage, !.note = n, !.was = "unread"]
<1>2. r.pc = "mute" /\ r.note = n
  BY DEF TypeOK, Request
<1> QED BY <1>1, <1>2

\* A notification's user and message are never written again.
LEMMA NotesOnKept ==
    ASSUME TypeOK, [Next]_vars, NEW u \in Users, NEW m \in Messages,
           ~ \E s \in Slots : Insert(s)
    PROVE  NotesOn(u, m)' = NotesOn(u, m)
<1> note \in [Notes -> Note]
  BY DEF TypeOK
<1>1. ASSUME NEW n \in Notes, NEW t, note' = [note EXCEPT ![n].status = t]
      PROVE  NotesOn(u, m)' = NotesOn(u, m)
  <2>1. \A k \in Notes : note'[k].user = note[k].user /\ note'[k].msg = note[k].msg
    BY <1>1 DEF Note
  <2> QED BY <2>1 DEF NotesOn
<1>2. note' = note => NotesOn(u, m)' = NotesOn(u, m)
  BY DEF NotesOn
<1>3. ASSUME NEW s \in Slots, Handle(s) \/ SendThrows(s) \/ Abort(s)
      PROVE  NotesOn(u, m)' = NotesOn(u, m)
  <2>1. CASE MarkFailed(s) \/ MarkUnread(s)
    <3>1. slot[s].note \in Notes
      BY <2>1 DEF MarkFailed, MarkUnread, At, TypeOK, RequestOK, Sending
    <3> QED BY <2>1, <3>1, <1>1 DEF MarkFailed, MarkUnread
  <2> QED BY <1>2, <1>3, <2>1, SlotWritesNotes
<1>4. ASSUME NEW v \in Users, NEW M \in SUBSET Messages, Dismiss(v, M)
      PROVE  NotesOn(u, m)' = NotesOn(u, m)
  <2>1. \A k \in Notes : note'[k].user = note[k].user /\ note'[k].msg = note[k].msg
    BY <1>4 DEF Dismiss, Note
  <2> QED BY <2>1 DEF NotesOn
<1>5. ASSUME NEW n \in Notes, NEW t \in ClientStatuses, UpdateNotificationStatus(n, t)
      PROVE  NotesOn(u, m)' = NotesOn(u, m)
  BY <1>1, <1>5 DEF UpdateNotificationStatus
<1>6. ASSUME \/ \E s \in Slots, v \in Users : Start(s, v)
             \/ \E t \in Tokens, v \in Users, y \in Types, a \in BOOLEAN :
                    UpdateDeviceToken(t, v, y, a)
             \/ \E T \in SUBSET Tokens : Deactivate(T)
             \/ \E t \in Tokens : Expire(t)
             \/ UNCHANGED vars
      PROVE  NotesOn(u, m)' = NotesOn(u, m)
  BY <1>2, <1>6, StartWrites DEF UpdateDeviceToken, Deactivate, Expire, NoteUnchanged, vars
<1> QED BY Steps, <1>3, <1>4, <1>5, <1>6

\* A request joins the creators of a user's notification about a message only
\* while there is none.
LEMMA StartCreators ==
    ASSUME TypeOK, NEW s \in Slots, NEW v \in Users, Start(s, v), NEW u \in Users, NEW m \in Messages
    PROVE  Creators(u, m)' \subseteq Creators(u, m) \/ NotesOn(u, m) = {}
<1>1. ASSUME NEW r, Become(s, r), r.pc = "insert" /\ r.user = u /\ r.msg = m => NotesOn(u, m) = {}
      PROVE  Creators(u, m)' \subseteq Creators(u, m) \/ NotesOn(u, m) = {}
  BY <1>1 DEF TypeOK, Become, Creators, At
<1>2. ASSUME NEW t, NEW x, StartRegister(s, v, t, x) PROVE \E r : Become(s, r) /\ r.pc # "insert"
  <2> DEFINE r(l) == [Idle EXCEPT !.pc = l, !.user = v, !.token = t, !.type = x]
  <2>1. PICK l \in {"own", "clear"} : Become(s, r(l))
    BY <1>2 DEF StartRegister
  <2>2. r(l).pc = l
    BY DEF Idle
  <2> QED BY <2>1, <2>2
<1>3. ASSUME NEW k, NEW n, StartAgain(s, v, k, n) PROVE \E r : Become(s, r) /\ r.pc # "insert"
  <2>1. [Idle EXCEPT !.pc = "mute", !.user = v, !.note = n, !.was = "failed"].pc = "mute"
    BY DEF Idle
  <2> QED BY <1>3, <2>1 DEF StartAgain
<1>4. ASSUME NEW k \in Messages \cup {NoMessage}, StartCreate(s, v, k)
      PROVE  \E r : Become(s, r) /\ (r.user = u /\ r.msg = m => NotesOn(u, m) = {})
  <2> DEFINE r == [Idle EXCEPT !.pc = "insert", !.user = v, !.msg = k]
  <2>1. r.user = v /\ r.msg = k
    BY DEF Idle
  <2>2. k = m => NotesOn(v, m) = {}
    BY <1>4, NoneAssumption DEF StartCreate
  <2>3. Become(s, r)
    BY <1>4 DEF StartCreate
  <2>4. r.user = u /\ r.msg = m => NotesOn(u, m) = {}
    BY <2>1, <2>2
  <2> HIDE DEF r
  <2> QED BY <2>3, <2>4
<1> QED BY <1>1, <1>2, <1>3, <1>4 DEF Start

LEMMA DuplicatesStep ==
    ASSUME TypeOK, [Next]_vars, NEW u \in Users, NEW m \in Messages
    PROVE  Counts(NotesOn(u, m), Creators(u, m), NotesOn(u, m)', Creators(u, m)')
<1>1. UNCHANGED slot => Creators(u, m)' = Creators(u, m)
  BY DEF Creators, At
<1>2. ASSUME NEW s \in Slots, Insert(s)
      PROVE  Counts(NotesOn(u, m), Creators(u, m), NotesOn(u, m)', Creators(u, m)')
  <2>1. PICK n, r :
              /\ n \in Notes /\ note[n].status = "absent"
              /\ note' = [note EXCEPT ![n] = [user |-> slot[s].user, msg |-> slot[s].msg,
                                              status |-> "unread"]]
              /\ Become(s, r) /\ r.pc = "mute" /\ r.note = n
    BY <1>2, InsertTakes
  <2>2. Creators(u, m)' \subseteq Creators(u, m) \ {s}
    BY <2>1 DEF Become, Creators, At, TypeOK
  <2>3. CASE slot[s].user = u /\ slot[s].msg = m
    <3>1. s \in Creators(u, m)
      BY <1>2, <2>3 DEF Insert, Creators
    <3>2. NotesOn(u, m)' \subseteq NotesOn(u, m) \cup {n}
      BY <2>1 DEF NotesOn, TypeOK
    <3> QED BY <2>2, <3>1, <3>2 DEF Counts
  <2>4. CASE ~(slot[s].user = u /\ slot[s].msg = m)
    <3>1. NotesOn(u, m)' \subseteq NotesOn(u, m)
      BY <2>1, <2>4 DEF NotesOn, TypeOK
    <3> QED BY <2>2, <3>1 DEF Counts
  <2> QED BY <2>3, <2>4
<1>3. CASE ~ \E s \in Slots : Insert(s)
  <2>1. NotesOn(u, m)' = NotesOn(u, m)
    BY <1>3, NotesOnKept
  <2>2. Creators(u, m)' \subseteq Creators(u, m) \/ NotesOn(u, m) = {}
    <3>1. CASE \E s \in Slots, v \in Users : Start(s, v)
      BY <3>1, StartCreators
    <3>2. ASSUME NEW s \in Slots, Handle(s) \/ SendThrows(s) \/ Abort(s)
          PROVE  Creators(u, m)' \subseteq Creators(u, m)
      <4>1. CASE Clear(s)
        BY <4>1 DEF Clear, Goto, Become, Creators, At, TypeOK, Request
      <4> QED BY <1>3, <3>2, <4>1, SlotProceeds, CreatorsProceed
    <3>3. CASE UNCHANGED slot
      BY <1>1, <3>3
    <3> QED BY Steps, <3>1, <3>2, <3>3 DEF UpdateDeviceToken, Deactivate, Expire, Dismiss,
                                           UpdateNotificationStatus, vars
  <2> QED BY <2>1, <2>2 DEF Counts
<1> QED BY <1>2, <1>3

\* However creations interleave, a user has no more notifications about a
\* message than creations that overlap.
THEOREM DuplicatesHold == Spec => []DuplicatesBounded
<1>1. Init => DuplicatesBounded
  <2> SUFFICES ASSUME Init, NEW u \in Users, NEW m \in Messages
               PROVE  Cardinality(NotesOn(u, m)) + Cardinality(Creators(u, m)) <= Cardinality(Slots)
    BY DEF DuplicatesBounded
  <2>1. NotesOn(u, m) = {} /\ Creators(u, m) = {}
    BY NoneAssumption DEF Init, NotesOn, Unsent, Creators, At, Idle
  <2>2. Cardinality({}) = 0 /\ Cardinality(Slots) \in Nat
    BY SlotsAssumption, FS_EmptySet, FS_CardinalityType
  <2> QED BY <2>1, <2>2
<1>2. TypeOK /\ DuplicatesBounded /\ [Next]_vars => DuplicatesBounded'
  <2> SUFFICES ASSUME TypeOK, DuplicatesBounded, [Next]_vars,
                      NEW u \in Users, NEW m \in Messages
               PROVE  Cardinality(NotesOn(u, m)') + Cardinality(Creators(u, m)')
                        <= Cardinality(Slots)
    BY DEF DuplicatesBounded
  <2> DEFINE A == NotesOn(u, m)
             C == Creators(u, m)
             A2 == NotesOn(u, m)'
             C2 == Creators(u, m)'
  <2>1. C \in SUBSET Slots /\ C2 \in SUBSET Slots
    BY DEF Creators
  <2>2. IsFiniteSet(A)
    BY StoresAssumption, FS_Subset DEF NotesOn
  <2>3. Cardinality(A) + Cardinality(C) <= Cardinality(Slots)
    BY DEF DuplicatesBounded
  <2>4. Counts(A, C, A2, C2)
    BY DuplicatesStep
  <2> HIDE DEF A, C, A2, C2
  <2>5. Cardinality(A2) + Cardinality(C2) <= Cardinality(Slots)
    BY <2>1, <2>2, <2>3, <2>4, Counting
  <2> QED BY <2>5 DEF A2, C2
<1> QED BY <1>1, <1>2, NotificationsTyped, PTL DEF Spec

-----------------------------------------------------------------------------
\* A settled notification is read, and no request will write its status: a
\* request takes up a notification that failed, or a new one.
SettledLeft == ReadForGood /\ settled \cap Handled(slot) = {}

\* The requests of the next state handle what they did, and what s took up.
LEMMA HandledGrows ==
    ASSUME TypeOK, NEW s \in Slots, NEW r, Become(s, r)
    PROVE  Handled(slot') \subseteq Handled(slot) \cup (IF r.pc = "idle" THEN {} ELSE {r.note})
BY DEF TypeOK, Become, Handled

LEMMA TakesUp ==
    ASSUME TypeOK, [Next]_vars
    PROVE  \A n \in Handled(slot') \cap Notes :
               n \in Handled(slot) \/ note[n].status \in {"absent", "failed"}
<1> SUFFICES ASSUME NEW n \in Notes, n \in Handled(slot'), n \notin Handled(slot)
             PROVE  note[n].status \in {"absent", "failed"}
  OBVIOUS
<1>1. ASSUME NEW s \in Slots, NEW u \in Users, Start(s, u)
      PROVE  note[n].status \in {"absent", "failed"}
  <2>1. ASSUME NEW r, Become(s, r), r.note = NoNote PROVE FALSE
    BY <2>1, HandledGrows, NoneAssumption
  <2>2. ASSUME NEW t, NEW y, StartRegister(s, u, t, y) PROVE FALSE
    <3> DEFINE r(l) == [Idle EXCEPT !.pc = l, !.user = u, !.token = t, !.type = y]
    <3>1. PICK l \in {"own", "clear"} : Become(s, r(l))
      BY <2>2 DEF StartRegister
    <3>2. r(l).note = NoNote
      BY DEF Idle
    <3> QED BY <2>1, <3>1, <3>2
  <2>3. ASSUME NEW m, StartCreate(s, u, m) PROVE FALSE
    <3>1. [Idle EXCEPT !.pc = "insert", !.user = u, !.msg = m].note = NoNote
      BY DEF Idle
    <3> QED BY <2>1, <2>3, <3>1 DEF StartCreate
  <2>4. ASSUME NEW m, NEW k \in Notes, StartAgain(s, u, m, k)
        PROVE  note[n].status \in {"absent", "failed"}
    <3> DEFINE r == [Idle EXCEPT !.pc = "mute", !.user = u, !.note = k, !.was = "failed"]
    <3>1. r.note = k
      BY DEF Idle
    <3>2. Become(s, r)
      BY <2>4 DEF StartAgain
    <3>3. n = k
      BY <3>1, <3>2, HandledGrows
    <3> QED BY <2>4, <3>3 DEF StartAgain
  <2> QED BY <1>1, <2>2, <2>3, <2>4 DEF Start
<1>2. ASSUME NEW s \in Slots, Handle(s) \/ SendThrows(s) \/ Abort(s)
      PROVE  note[n].status \in {"absent", "failed"}
  <2>1. CASE Insert(s)
    <3>1. PICK k, r : k \in Notes /\ note[k].status = "absent" /\ Become(s, r) /\ r.note = k
      BY <2>1, InsertTakes
    <3>2. n = k
      BY <3>1, HandledGrows
    <3> QED BY <3>1, <3>2
  <2>2. CASE Clear(s)
    <3>1. Become(s, [slot[s] EXCEPT !.pc = "create"])
      BY <2>2 DEF Clear, Goto
    <3>2. [slot[s] EXCEPT !.pc = "create"].note = NoNote
      BY <2>2 DEF Clear, At, TypeOK, RequestOK, Request
    <3> QED BY <3>1, <3>2, HandledGrows, NoneAssumption
  <2>3. ASSUME NEW r, Proceeds(s, r) PROVE FALSE
    <3>1. r.pc # "idle" /\ r.note = n
      BY <2>3, HandledGrows DEF Proceeds
    <3>2. slot[s].pc # "idle"
      BY <1>2 DEF Handle, SendThrows, Abort, At, Own, Clear, Create, Insert, CheckMute, FindTokens,
                  SendReaches, SendRefused, CleanUp, MarkFailed, MarkUnread
    <3> QED BY <2>3, <3>1, <3>2 DEF Proceeds, Handled
  <2> QED BY <1>2, <2>1, <2>2, <2>3, SlotProceeds
<1>3. CASE UNCHANGED slot
  BY <1>3
<1> QED BY Steps, <1>1, <1>2, <1>3 DEF UpdateDeviceToken, Deactivate, Expire, Dismiss,
                                       UpdateNotificationStatus, vars

\* Only a request that handles a notification, or a client, takes "read" off it.
LEMMA ReadKept ==
    ASSUME TypeOK, [Next]_vars, NEW n \in Notes, note[n].status = "read", n \notin Handled(slot),
           ~ \E t \in ClientStatuses : UpdateNotificationStatus(n, t)
    PROVE  note'[n].status = "read"
<1> note \in [Notes -> Note]
  BY DEF TypeOK
<1>1. ASSUME NEW s \in Slots, Handle(s) \/ SendThrows(s) \/ Abort(s)
      PROVE  note'[n].status = "read"
  <2>1. CASE Insert(s)
    <3>1. PICK k, w : k \in Notes /\ note[k].status = "absent" /\ note' = [note EXCEPT ![k] = w]
      BY <2>1, InsertTakes
    <3> QED BY <3>1
  <2>2. CASE MarkFailed(s) \/ MarkUnread(s)
    <3>1. slot[s].pc # "idle" /\ slot[s].note \in Notes
      BY <2>2 DEF MarkFailed, MarkUnread, At, TypeOK, RequestOK, Sending
    <3>2. slot[s].note # n
      BY <3>1 DEF Handled
    <3> QED BY <2>2, <3>1, <3>2 DEF MarkFailed, MarkUnread
  <2> QED BY <1>1, <2>1, <2>2, SlotWritesNotes
<1>2. ASSUME NEW v \in Users, NEW M \in SUBSET Messages, Dismiss(v, M)
      PROVE  note'[n].status = "read"
  BY <1>2 DEF Dismiss, Note
<1>3. ASSUME NEW k \in Notes, NEW t \in ClientStatuses, UpdateNotificationStatus(k, t)
      PROVE  note'[n].status = "read"
  BY <1>3 DEF UpdateNotificationStatus
<1>4. ASSUME \/ \E s \in Slots, v \in Users : Start(s, v)
             \/ \E t \in Tokens, v \in Users, y \in Types, a \in BOOLEAN :
                    UpdateDeviceToken(t, v, y, a)
             \/ \E T \in SUBSET Tokens : Deactivate(T)
             \/ \E t \in Tokens : Expire(t)
             \/ UNCHANGED vars
      PROVE  note'[n].status = "read"
  BY <1>4, StartWrites DEF UpdateDeviceToken, Deactivate, Expire, NoteUnchanged, vars
<1> QED BY Steps, <1>1, <1>2, <1>3, <1>4

LEMMA StepSettles ==
    ASSUME [Next]_vars
    PROVE  \/ Settle
           \/ \E n \in Notes, t \in ClientStatuses : UpdateNotificationStatus(n, t)
           \/ UNCHANGED vars
BY Steps, StartWrites, SlotWritesNotes DEF UpdateDeviceToken, Deactivate, Expire, Dismiss

\* A notification read while no request was handling it stays read until a
\* client says otherwise, whatever requests about its message come later.
THEOREM ReadForGoodHolds == Spec => []ReadForGood
<1>1. Init => SettledLeft
  BY DEF Init, SettledLeft, ReadForGood
<1>2. TypeOK /\ SettledLeft /\ [Next]_vars => SettledLeft'
  <2> SUFFICES ASSUME TypeOK, SettledLeft, [Next]_vars PROVE SettledLeft'
    OBVIOUS
  <2> settled \subseteq Notes /\ \A n \in settled : note[n].status = "read" /\ n \notin Handled(slot)
    BY DEF TypeOK, SettledLeft, ReadForGood
  <2>1. ASSUME NEW n \in settled, ~ \E t \in ClientStatuses : UpdateNotificationStatus(n, t)
        PROVE  note'[n].status = "read" /\ n \notin Handled(slot')
    BY <2>1, ReadKept, TakesUp
  <2>2. CASE Settle /\ ~ \E n \in Notes, t \in ClientStatuses : UpdateNotificationStatus(n, t)
    BY <2>1, <2>2 DEF Settle, Read, SettledLeft, ReadForGood
  <2>3. ASSUME NEW n \in Notes, NEW t \in ClientStatuses, UpdateNotificationStatus(n, t)
        PROVE  SettledLeft'
    <3>1. /\ settled' = IF t = "read" THEN settled \cup ({n} \ Handled(slot)) ELSE settled \ {n}
          /\ note' = [note EXCEPT ![n].status = t]
          /\ slot' = slot
      BY <2>3 DEF UpdateNotificationStatus
    <3>2. note'[n].status = t /\ \A k \in Notes \ {n} : note'[k] = note[k]
      BY <3>1 DEF TypeOK, Note
    <3> QED BY <3>1, <3>2 DEF SettledLeft, ReadForGood
  <2>4. CASE UNCHANGED vars
    BY <2>4 DEF vars, SettledLeft, ReadForGood
  <2> QED BY <2>2, <2>3, <2>4, StepSettles
<1>3. SettledLeft => ReadForGood
  BY DEF SettledLeft
<1> QED BY <1>1, <1>2, <1>3, NotificationsTyped, PTL DEF Spec

-----------------------------------------------------------------------------
\* What holds of a notification whose sending nothing disturbed: at most one
\* request handles it; that request knows whether a device was reached before it
\* may mark the notification failed; and the status of a delivered one is not
\* failed once the request is done.
Holds(s, n) == slot[s].pc # "idle" /\ slot[s].note = n
Sound(r, n, nt, D) ==
    /\ n \in D => r.pc = "unfail" \/ (r.pc \in {"send", "cleanUp"} /\ r.ok)
    /\ r.was = "unread" /\ r.pc \in {"mute", "tokens", "send", "cleanUp"}
            => nt[n].status # "failed"
Told(n) ==
    /\ n \in delivered \/ n \in Handled(slot) => note[n].status # "absent"
    /\ n \in delivered /\ note[n].status = "failed" => n \in Handled(slot)
    /\ \A s, t \in Slots : Holds(s, n) /\ Holds(t, n) => s = t
    /\ \A s \in Slots : Holds(s, n) => Sound(slot[s], n, note, delivered)
AllTold == delivered \cap disturbed = {} /\ \A n \in Notes \ disturbed : Told(n)

\* A step of the notification n's status and delivery alone.
Unmoved(n) ==
    /\ n \in delivered' <=> n \in delivered
    /\ note'[n].status = note[n].status

LEMMA SlotsKept ==
    ASSUME NEW n \in Notes, Told(n), UNCHANGED slot, n \in delivered' <=> n \in delivered,
           note'[n].status \in {note[n].status, "read"}
    PROVE  Told(n)'
BY DEF Told, Handled, Holds, Sound

\* A step of a request that handles another notification, before and after.
LEMMA Elsewhere ==
    ASSUME TypeOK, NEW n \in Notes, Told(n), NEW s \in Slots, NEW r, Become(s, r), Unmoved(n),
           ~Holds(s, n), r.pc = "idle" \/ r.note # n
    PROVE  Told(n)'
<1>1. \A q \in Slots : IF q = s THEN slot'[q] = r ELSE slot'[q] = slot[q]
  BY DEF TypeOK, Become
<1>2. \A q \in Slots : ~Holds(s, n)' /\ (Holds(q, n)' <=> Holds(q, n))
  BY <1>1 DEF Holds
<1>3. n \in Handled(slot') <=> n \in Handled(slot)
  BY <1>1 DEF Handled, Holds
<1>4. \A q \in Slots : Holds(q, n) => Sound(slot'[q], n, note', delivered')
  BY <1>1 DEF Told, Unmoved, Sound
<1> QED BY <1>2, <1>3, <1>4 DEF Told, Unmoved

\* A step that takes up a notification that no request handles.
LEMMA TakenUp ==
    ASSUME TypeOK, NEW n \in Notes, n \notin Handled(slot), NEW s \in Slots, NEW r, Become(s, r),
           r.pc = "mute", r.note = n, n \notin delivered', note'[n].status # "absent",
           r.was = "unread" => note'[n].status # "failed"
    PROVE  Told(n)'
<1>1. \A q \in Slots : IF q = s THEN slot'[q] = r ELSE slot'[q] = slot[q]
  BY DEF TypeOK, Become
<1>2. \A q \in Slots : ~Holds(q, n)
  BY DEF Handled, Holds
<1>3. \A q \in Slots : Holds(q, n)' => q = s
  BY <1>1, <1>2 DEF Holds
<1>4. Sound(r, n, note', delivered')
  BY DEF Sound
<1> QED BY <1>1, <1>3, <1>4 DEF Told

\* A step of the request that handles the notification.
LEMMA Continues ==
    ASSUME TypeOK, NEW n \in Notes, Told(n), NEW s \in Slots, Holds(s, n), NEW r, Become(s, r),
           note'[n].status # "absent",
           \/ r.pc = "idle" /\ (n \in delivered' => note'[n].status # "failed")
           \/ r.pc # "idle" /\ r.note = n /\ Sound(r, n, note', delivered')
    PROVE  Told(n)'
<1>1. \A q \in Slots : IF q = s THEN slot'[q] = r ELSE slot'[q] = slot[q]
  BY DEF TypeOK, Become
<1>2. \A q \in Slots : Holds(q, n) => q = s
  BY DEF Told
<1>3. \A q \in Slots : Holds(q, n)' => q = s
  BY <1>1, <1>2 DEF Holds
<1>4. r.pc # "idle" => n \in Handled(slot')
  BY <1>1 DEF Handled
<1> QED BY <1>1, <1>3, <1>4 DEF Told, Holds

\* What starting a request does to an undisturbed notification.
LEMMA StartTold ==
    ASSUME TypeOK, NEW n \in Notes, Told(n), NEW s \in Slots, NEW u \in Users, Start(s, u),
           n \notin disturbed'
    PROVE  Told(n)'
<1>1. ~Holds(s, n) /\ note' = note
  BY StartWrites DEF Start, StartRegister, StartAgain, StartCreate, At, Holds
<1>2. ASSUME NEW r, Become(s, r), r.note # n, n \in delivered' <=> n \in delivered
      PROVE  Told(n)'
  BY <1>1, <1>2, Elsewhere DEF Unmoved
<1>3. ASSUME NEW t, NEW y, StartRegister(s, u, t, y) PROVE Told(n)'
  <2> DEFINE r(l) == [Idle EXCEPT !.pc = l, !.user = u, !.token = t, !.type = y]
  <2>1. PICK l \in {"own", "clear"} : Become(s, r(l))
    BY <1>3 DEF StartRegister
  <2>2. r(l).note # n
    BY NoneAssumption DEF Idle
  <2> QED BY <1>2, <1>3, <2>1, <2>2 DEF StartRegister, NoteUnchanged
<1>4. ASSUME NEW m, StartCreate(s, u, m) PROVE Told(n)'
  <2>1. [Idle EXCEPT !.pc = "insert", !.user = u, !.msg = m].note # n
    BY NoneAssumption DEF Idle
  <2> QED BY <1>2, <1>4, <2>1 DEF StartCreate, NoteUnchanged
<1>5. ASSUME NEW m, NEW k \in Notes, StartAgain(s, u, m, k) PROVE Told(n)'
  <2> DEFINE r == [Idle EXCEPT !.pc = "mute", !.user = u, !.note = k, !.was = "failed"]
  <2>1. r.pc = "mute" /\ r.note = k /\ r.was = "failed"
    BY DEF Idle
  <2>2. Become(s, r) /\ note[k].status = "failed" /\ Disturb({k} \cap Handled(slot))
    BY <1>5 DEF StartAgain
  <2> HIDE DEF r
  <2>3. CASE k = n
    <3>1. n \notin Handled(slot)
      BY <2>2, <2>3 DEF Disturb
    <3>2. n \notin delivered'
      BY <2>2, <2>3, <3>1 DEF Disturb, Told
    <3> QED BY <1>1, <2>1, <2>2, <2>3, <3>1, <3>2, TakenUp
  <2>4. CASE k # n
    BY <1>2, <2>1, <2>2, <2>4 DEF Disturb
  <2> QED BY <2>3, <2>4
<1> QED BY <1>3, <1>4, <1>5 DEF Start

\* What the request that handles it does to an undisturbed notification.
LEMMA HolderTold ==
    ASSUME TypeOK, NEW n \in Notes, Told(n), NEW s \in Slots, Holds(s, n),
           Handle(s) \/ SendThrows(s) \/ Abort(s), n \notin disturbed, n \notin disturbed'
    PROVE  Told(n)'
<1> DEFINE q == slot[s]
<1>1. /\ q \in Request /\ RequestOK(q) /\ q.note = n /\ q.pc # "idle"
      /\ Sound(q, n, note, delivered) /\ note[n].status # "absent" /\ note \in [Notes -> Note]
  BY DEF Told, TypeOK, Holds, Handled
<1>2. q.pc \in Sending \cup {"mute"} /\ q.was \in {"unread", "failed"}
  BY <1>1, NoneAssumption DEF RequestOK, Request, Labels
<1>3. ASSUME Done(s), n \in delivered' => note'[n].status # "failed", note'[n].status # "absent"
      PROVE  Told(n)'
  BY <1>3, Continues DEF Done, Idle
<1>4. ASSUME NEW r, Become(s, r), r.pc # "idle", r.note = n, Sound(r, n, note', delivered'),
             note'[n].status # "absent"
      PROVE  Told(n)'
  BY <1>4, Continues
<1>5. ASSUME NEW r \in Request, r.note = n, r.was = q.was, r.ok => q.ok \/ n \in delivered',
             n \in delivered' => r.ok, r.was = "unread" => note[n].status # "failed",
             note' = note, Become(s, After(r))
      PROVE  Told(n)'
  <2> r.pc \in Labels /\ r.todo \in SUBSET Tokens /\ r.ok \in BOOLEAN
    BY DEF Request
  <2>1. ASSUME NEW l \in {"send", "fail", "unfail"}, l = "fail" => ~r.ok,
               Become(s, [r EXCEPT !.pc = l, !.token = NoToken])
        PROVE  Told(n)'
    <3> DEFINE x == [r EXCEPT !.pc = l, !.token = NoToken]
    <3>1. x.pc = l /\ x.note = n /\ x.ok = r.ok /\ x.was = r.was
      BY <1>5 DEF Request
    <3>2. Become(s, x)
      BY <2>1
    <3> HIDE DEF x
    <3>3. Sound(x, n, note', delivered')
      BY <1>5, <2>1, <3>1 DEF Sound
    <3> QED BY <1>1, <1>4, <1>5, <2>1, <3>1, <3>2, <3>3
  <2>2. CASE After(r) = Idle /\ r.was # "failed"
    BY <1>1, <1>2, <1>3, <1>5, <2>2 DEF Done
  <2> QED BY <1>5, <2>1, <2>2 DEF After
<1>6. CASE Own(s) \/ Clear(s) \/ Create(s) \/ Insert(s)
  BY <1>2, <1>6 DEF Own, Clear, Create, Insert, At, Sending
<1>7. CASE CheckMute(s)
  <2>1. n \notin delivered'
    BY <1>1, <1>7 DEF CheckMute, At, NoteUnchanged, Sound
  <2>2. CASE Done(s)
    BY <1>1, <1>3, <1>7, <2>1, <2>2 DEF CheckMute, NoteUnchanged
  <2>3. CASE Goto(s, "tokens")
    <3> DEFINE r == [q EXCEPT !.pc = "tokens"]
    <3>1. r.pc = "tokens" /\ r.note = n /\ r.was = q.was
      BY <1>1 DEF Request
    <3>2. Become(s, r)
      BY <2>3 DEF Goto
    <3> HIDE DEF r
    <3>3. note' = note /\ q.pc = "mute"
      BY <1>7 DEF CheckMute, At, NoteUnchanged
    <3>4. Sound(r, n, note', delivered')
      BY <1>1, <2>1, <3>1, <3>3 DEF Sound
    <3> QED BY <1>1, <1>4, <3>1, <3>2, <3>3, <3>4
  <2> QED BY <1>7, <2>2, <2>3 DEF CheckMute
<1>8. CASE FindTokens(s)
  <2> DEFINE r(l) == [q EXCEPT !.pc = l, !.todo = ActiveOf(q.user)]
  <2>1. PICK l \in {"fail", "send"} : Become(s, r(l))
    BY <1>8 DEF FindTokens
  <2>2. r(l).pc = l /\ r(l).note = n /\ r(l).was = q.was
    BY <1>1 DEF Request
  <2>3. note' = note /\ delivered' = delivered /\ q.pc = "tokens"
    BY <1>8 DEF FindTokens, At, NoteUnchanged
  <2>4. Sound(r(l), n, note', delivered')
    BY <1>1, <2>2, <2>3 DEF Sound
  <2> HIDE DEF r
  <2> QED BY <1>1, <1>4, <2>1, <2>2, <2>3, <2>4
<1>9. ASSUME NEW t \in Tokens, SendReaches(s, t) PROVE Told(n)'
  <2> DEFINE r == [q EXCEPT !.todo = q.todo \ {t}, !.ok = TRUE]
  <2>1. r \in Request /\ r.note = n /\ r.was = q.was /\ r.ok
    BY <1>1 DEF Request
  <2>2. Become(s, After(r)) /\ note' = note /\ q.pc = "send" /\ n \in delivered'
    BY <1>1, <1>9 DEF SendReaches, At
  <2>3. r.was = "unread" => note[n].status # "failed"
    BY <1>1, <2>1, <2>2 DEF Sound
  <2> HIDE DEF r
  <2> QED BY <1>5, <2>1, <2>2, <2>3
<1>10. ASSUME NEW t \in Tokens, SendRefused(s, t) PROVE Told(n)'
  <2>1. note' = note /\ delivered' = delivered /\ q.pc = "send"
    BY <1>10 DEF SendRefused, At, NoteUnchanged
  <2>2. CASE Become(s, After([q EXCEPT !.todo = q.todo \ {t}]))
    <3> DEFINE r == [q EXCEPT !.todo = q.todo \ {t}]
    <3>1. r \in Request /\ r.note = n /\ r.was = q.was /\ r.ok = q.ok
      BY <1>1 DEF Request
    <3>2. Become(s, After(r))
      BY <2>2
    <3> HIDE DEF r
    <3>3. (n \in delivered' => r.ok) /\ (r.was = "unread" => note[n].status # "failed")
      BY <1>1, <2>1, <3>1 DEF Sound
    <3> QED BY <1>5, <2>1, <3>1, <3>2, <3>3
  <2>3. CASE Become(s, [q EXCEPT !.todo = q.todo \ {t}, !.token = t, !.pc = "cleanUp"])
    <3> DEFINE r == [q EXCEPT !.todo = q.todo \ {t}, !.token = t, !.pc = "cleanUp"]
    <3>1. r.pc = "cleanUp" /\ r.note = n /\ r.was = q.was /\ r.ok = q.ok
      BY <1>1 DEF Request
    <3>2. Become(s, r)
      BY <2>3
    <3> HIDE DEF r
    <3>3. Sound(r, n, note', delivered')
      BY <1>1, <2>1, <3>1 DEF Sound
    <3> QED BY <1>1, <1>4, <2>1, <3>1, <3>2, <3>3
  <2> QED BY <1>10, <2>2, <2>3 DEF SendRefused
<1>11. CASE CleanUp(s)
  <2>1. Become(s, After(q)) /\ note' = note /\ delivered' = delivered /\ q.pc = "cleanUp"
    BY <1>11 DEF CleanUp, At, NoteUnchanged
  <2>2. (n \in delivered' => q.ok) /\ (q.was = "unread" => note[n].status # "failed")
    BY <1>1, <2>1 DEF Sound
  <2> QED BY <1>1, <1>5, <2>1, <2>2
<1>12. CASE MarkFailed(s)
  <2>1. Done(s) /\ note' = [note EXCEPT ![n].status = "failed"] /\ delivered' = delivered
    BY <1>1, <1>12 DEF MarkFailed
  <2>2. n \notin delivered /\ note'[n].status = "failed"
    BY <1>1, <1>12, <2>1 DEF MarkFailed, Sound, Note
  <2> QED BY <1>3, <2>1, <2>2
<1>13. CASE MarkUnread(s)
  <2>1. Done(s) /\ note' = [note EXCEPT ![n].status = "unread"]
    BY <1>1, <1>13 DEF MarkUnread
  <2>2. note'[n].status = "unread"
    BY <1>1, <2>1 DEF Note
  <2> QED BY <1>3, <2>1, <2>2
<1>14. CASE SendThrows(s)
  BY <1>1, <1>14 DEF SendThrows, Disturb
<1>15. CASE Abort(s)
  <2>1. n \notin delivered' /\ note' = note /\ Done(s)
    BY <1>1, <1>2, <1>15 DEF Abort, NoteUnchanged, Sound, Sending
  <2> QED BY <1>1, <1>3, <2>1
<1> QED BY <1>6, <1>7, <1>8, <1>9, <1>10, <1>11, <1>12, <1>13, <1>14, <1>15 DEF Handle

\* What a request that handles another notification, or none, does to it.
LEMMA OtherTold ==
    ASSUME TypeOK, NEW n \in Notes, Told(n), NEW s \in Slots, ~Holds(s, n),
           Handle(s) \/ SendThrows(s) \/ Abort(s)
    PROVE  Told(n)'
<1>1. slot[s].pc # "idle" /\ slot[s].note # n /\ note \in [Notes -> Note]
  BY DEF Holds, TypeOK, Handle, SendThrows, Abort, At, Own, Clear, Create, Insert, CheckMute,
         FindTokens, SendReaches, SendRefused, CleanUp, MarkFailed, MarkUnread
<1>2. ~Insert(s) => Unmoved(n)
  <2>1. ~Insert(s) => note'[n] = note[n]
    BY <1>1, SlotWritesNotes DEF MarkFailed, MarkUnread
  <2>2. n \in delivered' <=> n \in delivered
    BY <1>1 DEF Handle, SendThrows, Abort, Own, Clear, Create, Insert, CheckMute, FindTokens,
                SendReaches, SendRefused, CleanUp, MarkFailed, MarkUnread, NoteUnchanged, Disturb
  <2> QED BY <2>1, <2>2 DEF Unmoved
<1>3. CASE Insert(s)
  <2>1. PICK k, w :
              /\ k \in Notes /\ note[k].status = "absent"
              /\ note' = [note EXCEPT ![k] = [user |-> slot[s].user, msg |-> slot[s].msg,
                                              status |-> "unread"]]
              /\ Become(s, w) /\ w.pc = "mute" /\ w.note = k
    BY <1>3, InsertTakes
  <2>2. delivered' = delivered
    BY <1>3 DEF Insert
  <2>3. CASE k = n
    <3>1. n \notin Handled(slot) /\ n \notin delivered'
      BY <2>1, <2>2, <2>3 DEF Told
    <3>2. note'[n].status = "unread"
      BY <1>1, <2>1, <2>3
    <3> QED BY <2>1, <2>3, <3>1, <3>2, TakenUp
  <2>4. CASE k # n
    <3>1. Unmoved(n)
      BY <1>1, <2>1, <2>2, <2>4 DEF Unmoved
    <3> QED BY <2>1, <2>4, <3>1, Elsewhere
  <2> QED BY <2>3, <2>4
<1>4. CASE Clear(s)
  <2>1. Become(s, [slot[s] EXCEPT !.pc = "create"])
    BY <1>4 DEF Clear, Goto
  <2>2. [slot[s] EXCEPT !.pc = "create"].note # n /\ ~Insert(s)
    BY <1>1, <1>4 DEF Clear, Insert, At, TypeOK, Request
  <2> QED BY <1>2, <2>1, <2>2, Elsewhere
<1>5. ASSUME ~Insert(s), NEW r, Proceeds(s, r) PROVE Told(n)'
  BY <1>1, <1>2, <1>5, Elsewhere DEF Proceeds
<1> QED BY <1>3, <1>4, <1>5, SlotProceeds

LEMMA ToldStep ==
    ASSUME TypeOK, [Next]_vars, NEW n \in Notes, Told(n), n \notin disturbed, n \notin disturbed'
    PROVE  Told(n)'
<1>1. ASSUME NEW s \in Slots, Handle(s) \/ SendThrows(s) \/ Abort(s) PROVE Told(n)'
  BY <1>1, HolderTold, OtherTold
<1>2. ASSUME NEW u \in Users, NEW M \in SUBSET Messages, Dismiss(u, M) PROVE Told(n)'
  <2>1. note'[n].status \in {note[n].status, "read"}
    BY <1>2 DEF Dismiss, TypeOK, Note
  <2> QED BY <1>2, <2>1, SlotsKept DEF Dismiss
<1>3. ASSUME NEW k \in Notes, NEW t \in ClientStatuses, UpdateNotificationStatus(k, t)
      PROVE  Told(n)'
  <2>1. k # n /\ (n \in delivered' <=> n \in delivered)
    BY <1>3 DEF UpdateNotificationStatus, Disturb
  <2>2. note'[n] = note[n] /\ slot' = slot
    BY <1>3, <2>1 DEF UpdateNotificationStatus, TypeOK
  <2> QED BY <2>1, <2>2, SlotsKept
<1>4. ASSUME \/ \E t \in Tokens, u \in Users, y \in Types, a \in BOOLEAN :
                    UpdateDeviceToken(t, u, y, a)
             \/ \E T \in SUBSET Tokens : Deactivate(T)
             \/ \E t \in Tokens : Expire(t)
             \/ UNCHANGED vars
      PROVE  Told(n)'
  BY <1>4, SlotsKept DEF UpdateDeviceToken, Deactivate, Expire, NoteUnchanged, vars
<1> QED BY Steps, StartTold, <1>1, <1>2, <1>3, <1>4

\* Disturbed notifications stay so, and are not among the delivered ones.
LEMMA DisturbedStep ==
    ASSUME [Next]_vars, delivered \cap disturbed = {}
    PROVE  delivered' \cap disturbed' = {} /\ disturbed \subseteq disturbed'
<1> DEFINE Goal == delivered' \cap disturbed' = {} /\ disturbed \subseteq disturbed'
<1>1. UNCHANGED <<delivered, disturbed>> => Goal
  OBVIOUS
<1>2. ASSUME NEW N, Disturb(N) PROVE Goal
  BY <1>2 DEF Disturb
<1>3. ASSUME NEW s, NEW u, Start(s, u) PROVE Goal
  BY <1>1, <1>2, <1>3 DEF Start, StartRegister, StartAgain, StartCreate, NoteUnchanged
<1>4. ASSUME NEW s, Handle(s) \/ SendThrows(s) \/ Abort(s) PROVE Goal
  <2>1. CASE \E t \in Tokens : SendReaches(s, t)
    BY <2>1 DEF SendReaches
  <2>2. CASE SendThrows(s)
    BY <1>2, <2>2 DEF SendThrows
  <2>3. CASE Abort(s) \/ (Handle(s) /\ ~ \E t \in Tokens : SendReaches(s, t))
    BY <1>1, <2>3 DEF Abort, Handle, Own, Clear, Create, Insert, CheckMute, FindTokens,
                      SendRefused, CleanUp, MarkFailed, MarkUnread, NoteUnchanged
  <2> QED BY <1>4, <2>1, <2>2, <2>3
<1>5. ASSUME NEW n, NEW t, UpdateNotificationStatus(n, t) PROVE Goal
  BY <1>2, <1>5 DEF UpdateNotificationStatus
<1>6. ASSUME \/ \E t \in Tokens, u \in Users, y \in Types, a \in BOOLEAN :
                    UpdateDeviceToken(t, u, y, a)
             \/ \E T \in SUBSET Tokens : Deactivate(T)
             \/ \E t \in Tokens : Expire(t)
             \/ \E u \in Users, M \in SUBSET Messages : Dismiss(u, M)
             \/ UNCHANGED vars
      PROVE  Goal
  BY <1>1, <1>6 DEF UpdateDeviceToken, Deactivate, Expire, Dismiss, NoteUnchanged, vars
<1> QED BY Steps, <1>3, <1>4, <1>5, <1>6

\* A notification that reached a device, and whose sending nothing disturbed,
\* is not left "failed", however requests about it interleave.
THEOREM FailedUndeliveredHolds == Spec => []FailedUndelivered
<1>1. Init => AllTold
  <2> SUFFICES ASSUME Init PROVE AllTold
    OBVIOUS
  <2>1. \A s \in Slots : slot[s].pc = "idle"
    BY DEF Init, Idle
  <2>2. Handled(slot) = {} /\ delivered = {}
    BY <2>1 DEF Init, Handled
  <2> QED BY <2>1, <2>2 DEF AllTold, Told, Holds
<1>2. TypeOK /\ AllTold /\ [Next]_vars => AllTold'
  BY DisturbedStep, ToldStep DEF AllTold
<1>3. TypeOK /\ AllTold => FailedUndelivered
  BY DEF TypeOK, AllTold, Told, FailedUndelivered
<1> QED BY <1>1, <1>2, <1>3, NotificationsTyped, PTL DEF Spec

-----------------------------------------------------------------------------
(* The look-up before a creation as an admission check (Admission).          *)

\* A notification that is not there is nobody's.
AbsentIsNobodys == \A n \in Notes : note[n].status = "absent" => note[n].user = NoUser

LEMMA AbsentStep ==
    ASSUME TypeOK, AbsentIsNobodys, [Next]_vars
    PROVE  AbsentIsNobodys'
<1> note \in [Notes -> Note]
  BY DEF TypeOK
<1>1. ASSUME NEW k \in Notes, NEW x \in Note, note' = [note EXCEPT ![k] = x], x.status # "absent"
      PROVE  AbsentIsNobodys'
  BY <1>1 DEF AbsentIsNobodys
<1>2. ASSUME NEW k \in Notes, NEW t \in {"unread", "read", "failed"},
             note' = [note EXCEPT ![k].status = t]
      PROVE  AbsentIsNobodys'
  BY <1>2 DEF AbsentIsNobodys, Note
<1>3. note' = note => AbsentIsNobodys'
  BY DEF AbsentIsNobodys
<1>4. ASSUME NEW s \in Slots, Handle(s) \/ SendThrows(s) \/ Abort(s) PROVE AbsentIsNobodys'
  <2>1. CASE Insert(s)
    <3>1. PICK k \in Notes : note' = [note EXCEPT ![k] = [user |-> slot[s].user,
                                                          msg |-> slot[s].msg, status |-> "unread"]]
      BY <2>1 DEF Insert
    <3>2. [user |-> slot[s].user, msg |-> slot[s].msg, status |-> "unread"] \in Note
      BY DEF TypeOK, Request, Note
    <3> QED BY <3>1, <3>2, <1>1
  <2>2. CASE MarkFailed(s) \/ MarkUnread(s)
    <3>1. slot[s].note \in Notes
      BY <2>2 DEF MarkFailed, MarkUnread, At, TypeOK, RequestOK, Sending
    <3> QED BY <2>2, <3>1, <1>2 DEF MarkFailed, MarkUnread
  <2> QED BY <1>3, <1>4, <2>1, <2>2, SlotWritesNotes
<1>5. ASSUME NEW v \in Users, NEW M \in SUBSET Messages, Dismiss(v, M) PROVE AbsentIsNobodys'
  BY <1>5 DEF Dismiss, AbsentIsNobodys, Note
<1>6. ASSUME NEW n \in Notes, NEW t \in ClientStatuses, UpdateNotificationStatus(n, t)
      PROVE  AbsentIsNobodys'
  BY <1>2, <1>6, StatusAssumption DEF UpdateNotificationStatus
<1>7. ASSUME \/ \E s \in Slots, v \in Users : Start(s, v)
             \/ \E t \in Tokens, v \in Users, y \in Types, a \in BOOLEAN :
                    UpdateDeviceToken(t, v, y, a)
             \/ \E T \in SUBSET Tokens : Deactivate(T)
             \/ \E t \in Tokens : Expire(t)
             \/ UNCHANGED vars
      PROVE  AbsentIsNobodys'
  BY <1>3, <1>7, StartWrites DEF UpdateDeviceToken, Deactivate, Expire, NoteUnchanged, vars
<1> QED BY Steps, <1>4, <1>5, <1>6, <1>7

\* A step adds a creator while there is no notification, drops one, turns one
\* into a notification, or leaves both alone.
Admits(A, C, A2, C2) ==
    \/ A2 = A /\ C2 = C
    \/ \E s \in Slots : s \notin C /\ C2 = C \cup {s} /\ A = {} /\ A2 = A
    \/ \E s \in C : C2 = C \ {s} /\ A2 = A
    \/ \E s \in C, n \in Notes : C2 = C \ {s} /\ n \notin A /\ A2 = A \cup {n}

\* Whether the request of s is among the creators is all that its step decides.
LEMMA OneCreator ==
    ASSUME TypeOK, NEW s \in Slots, NEW r, Become(s, r), NEW u, NEW m
    PROVE  /\ Creators(u, m)' \ {s} = Creators(u, m) \ {s}
           /\ s \in Creators(u, m)' <=> r.pc = "insert" /\ r.user = u /\ r.msg = m
BY DEF TypeOK, Become, Creators, At

LEMMA AdmissionStep ==
    ASSUME TypeOK, AbsentIsNobodys, [Next]_vars, NEW u \in Users, NEW m \in Messages
    PROVE  Admits(NotesOn(u, m), Creators(u, m), NotesOn(u, m)', Creators(u, m)')
<1> DEFINE A == NotesOn(u, m)
           C == Creators(u, m)
<1>1. CASE UNCHANGED slot /\ A' = A
  BY <1>1 DEF Creators, At, Admits
<1>2. ASSUME NEW s \in Slots, Insert(s) PROVE Admits(A, C, A', C')
  <2>1. PICK n, r :
              /\ n \in Notes /\ note[n].status = "absent"
              /\ note' = [note EXCEPT ![n] = [user |-> slot[s].user, msg |-> slot[s].msg,
                                              status |-> "unread"]]
              /\ Become(s, r) /\ r.pc = "mute" /\ r.note = n
    BY <1>2, InsertTakes
  <2>2. C' \ {s} = C \ {s} /\ s \notin C'
    BY <2>1, OneCreator
  <2>3. n \notin A
    BY <2>1, NoneAssumption DEF AbsentIsNobodys, NotesOn
  <2>4. CASE slot[s].user = u /\ slot[s].msg = m
    <3>1. s \in C
      BY <1>2, <2>4 DEF Insert, Creators
    <3>2. A' = A \cup {n}
      BY <2>1, <2>4 DEF NotesOn, TypeOK
    <3>3. C' = C \ {s}
      BY <2>2
    <3> QED BY <2>1, <2>3, <3>1, <3>2, <3>3 DEF Admits
  <2>5. CASE ~(slot[s].user = u /\ slot[s].msg = m)
    <3>1. s \notin C
      BY <2>5 DEF Creators
    <3>2. A' = A
      BY <2>1, <2>3, <2>5 DEF NotesOn, TypeOK
    <3>3. C' = C
      BY <2>2, <3>1
    <3> QED BY <3>2, <3>3 DEF Admits
  <2> QED BY <2>4, <2>5
<1>3. CASE ~ \E s \in Slots : Insert(s)
  <2>1. A' = A
    BY <1>3, NotesOnKept
  <2>2. ASSUME NEW s \in Slots, NEW r, Become(s, r), s \in C' => s \in C \/ A = {}
        PROVE  Admits(A, C, A', C')
    <3>1. C' \ {s} = C \ {s}
      BY <2>2, OneCreator
    <3>2. C' = C \/ (s \notin C /\ C' = C \cup {s} /\ A = {}) \/ (s \in C /\ C' = C \ {s})
      BY <2>2, <3>1
    <3> QED BY <2>1, <3>2 DEF Admits
  <2>3. ASSUME NEW s \in Slots, NEW v \in Users, Start(s, v) PROVE Admits(A, C, A', C')
    <3>1. \E r : Become(s, r)
      BY <2>3, StartTyped DEF Took
    <3>2. C' \subseteq C \/ A = {}
      BY <2>3, StartCreators
    <3> QED BY <2>2, <3>1, <3>2
  <2>4. ASSUME NEW s \in Slots, Handle(s) \/ SendThrows(s) \/ Abort(s)
        PROVE  Admits(A, C, A', C')
    <3>1. CASE Clear(s)
      <4> DEFINE r == [slot[s] EXCEPT !.pc = "create"]
      <4>1. Become(s, r)
        BY <3>1 DEF Clear, Goto
      <4>2. r.pc # "insert"
        BY DEF TypeOK, Request
      <4> HIDE DEF r
      <4>3. s \notin C'
        BY <4>1, <4>2, OneCreator
      <4> QED BY <2>2, <4>1, <4>3
    <3>2. ASSUME NEW r, Proceeds(s, r) PROVE Admits(A, C, A', C')
      <4>1. Become(s, r) /\ s \notin C'
        BY <3>2, OneCreator DEF Proceeds
      <4> QED BY <2>2, <4>1
    <3> QED BY <1>3, <2>4, <3>1, <3>2, SlotProceeds
  <2> QED BY Steps, <1>1, <2>1, <2>3, <2>4 DEF UpdateDeviceToken, Deactivate, Expire, Dismiss,
                                               UpdateNotificationStatus, vars
<1> QED BY <1>2, <1>3

LEMMA AdmitsIsAdmission ==
    ASSUME TypeOK, NEW u \in Users, NEW m \in Messages,
           Admits(NotesOn(u, m), Creators(u, m), NotesOn(u, m)', Creators(u, m)')
    PROVE  [OneNote(u, m)!Next]_<<Cardinality(NotesOn(u, m)), Creators(u, m)>>
<1> DEFINE A == NotesOn(u, m)
           C == Creators(u, m)
<1>1. C \subseteq Slots
  BY DEF Creators
<1>2. ASSUME NEW s \in Slots, s \notin C, C' = C \cup {s}, A = {}, A' = A
      PROVE  OneNote(u, m)!Admit(s)
  <2>1. Cardinality(A) = 0 /\ Cardinality(A') = Cardinality(A)
    BY <1>2, FS_EmptySet
  <2> QED BY <1>2, <2>1 DEF OneNote!Admit
<1>3. ASSUME NEW s \in C, C' = C \ {s}, A' = A PROVE OneNote(u, m)!GiveUp(s)
  BY <1>3 DEF OneNote!GiveUp
<1>4. ASSUME NEW s \in C, NEW n \in Notes, C' = C \ {s}, n \notin A, A' = A \cup {n}
      PROVE  OneNote(u, m)!Add(s)
  <2>1. IsFiniteSet(A)
    BY StoresAssumption, FS_Subset DEF NotesOn
  <2>2. Cardinality(A') = Cardinality(A) + 1
    BY <1>4, <2>1, FS_AddElement
  <2> QED BY <1>4, <2>2 DEF OneNote!Add
<1> QED BY <1>1, <1>2, <1>3, <1>4 DEF Admits, OneNote!Next

\* The look-up of createNotificationRecord implements an admission check, for
\* every user and message: DuplicatesAdmitted, of all steps.
THEOREM DuplicatesRefinement == Spec => DuplicatesAdmitted
<1>1. Init => \A u \in Users, m \in Messages : OneNote(u, m)!Init
  <2> SUFFICES ASSUME Init, NEW u \in Users, NEW m \in Messages PROVE OneNote(u, m)!Init
    OBVIOUS
  <2>1. NotesOn(u, m) = {} /\ Creators(u, m) = {}
    BY NoneAssumption DEF Init, NotesOn, Unsent, Creators, At, Idle
  <2>2. Cardinality({}) = 0
    BY FS_EmptySet
  <2> QED BY <2>1, <2>2 DEF OneNote!Init
<1>2. Init => AbsentIsNobodys
  BY DEF Init, AbsentIsNobodys, Unsent
<1>3. TypeOK /\ AbsentIsNobodys /\ [Next]_vars => AbsentIsNobodys'
  BY AbsentStep
<1>4. TypeOK /\ AbsentIsNobodys /\ [Next]_vars
        => [\A u \in Users, m \in Messages :
               [OneNote(u, m)!Next]_<<Cardinality(NotesOn(u, m)), Creators(u, m)>>]_vars
  BY AdmissionStep, AdmitsIsAdmission
<1> QED BY <1>1, <1>2, <1>3, <1>4, NotificationsTyped, PTL DEF Spec, DuplicatesAdmitted

=============================================================================
