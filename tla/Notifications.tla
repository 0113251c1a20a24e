---------------------------- MODULE Notifications ----------------------------
(***************************************************************************)
(* NotificationService and FirebaseService: the device tokens of users,    *)
(* the in-app notifications, and their delivery to devices.                *)
(*                                                                         *)
(* Registering a device is find, deactivate, create; creating a            *)
(* notification is find, create, look up tokens, send to each, write the   *)
(* outcome.  Requests interleave at every await.  Operations of a single   *)
(* update are one action and need no slot.                                 *)
(***************************************************************************)
EXTENDS Integers, FiniteSets

CONSTANTS
    Slots,    \* requests the service handles at the same time
    Users,    \* users
    Tokens,   \* Firebase tokens, one for an installation of the app
    Types,    \* device types
    Messages, \* chat messages that notifications are about
    Notes,    \* notifications that can be created
    ClientStatuses, \* statuses a client gives to a notification
    NoUser, NoToken, NoType, NoMessage, NoNote

ASSUME SlotsAssumption == IsFiniteSet(Slots) /\ Slots # {}
ASSUME StoresAssumption == IsFiniteSet(Tokens) /\ IsFiniteSet(Notes)
ASSUME StatusAssumption == ClientStatuses \subseteq {"unread", "read", "failed"}
ASSUME NoneAssumption ==
    /\ NoUser \notin Users /\ NoToken \notin Tokens /\ NoType \notin Types
    /\ NoMessage \notin Messages /\ NoNote \notin Notes

VARIABLES
    device,    \* the device tokens: token -> its document, if there is one
    note,      \* the notification history
    slot,      \* the state of each request being handled
    revived,   \* history: tokens made active other than by their creation
    settled,   \* history: notifications read while nothing handled them
    disturbed, \* history: notifications two requests handled at a time, whose
               \* sending threw, or whose status was set by a client
    delivered  \* history: other notifications, that some device has been sent

vars == <<device, note, slot, revived, settled, disturbed, delivered>>

Device == [user : Users \cup {NoUser}, type : Types \cup {NoType}, active : BOOLEAN]
Note == [user : Users \cup {NoUser}, msg : Messages \cup {NoMessage},
         status : {"absent", "unread", "read", "failed"}]
NoDevice == [user |-> NoUser, type |-> NoType, active |-> FALSE]
Unsent == [user |-> NoUser, msg |-> NoMessage, status |-> "absent"]

Sending == {"tokens", "send", "cleanUp", "fail", "unfail", "rescue"}
Labels == {"idle", "own", "clear", "create", "insert", "mute"} \cup Sending
Request == [pc : Labels,
            user : Users \cup {NoUser},
            token : Tokens \cup {NoToken},
            type : Types \cup {NoType},
            msg : Messages \cup {NoMessage},
            note : Notes \cup {NoNote},
            was : {"none", "unread", "failed"}, \* status of the record it holds
            todo : SUBSET Tokens,               \* devices still to be sent to
            ok : BOOLEAN]                       \* some device has been reached
Idle == [pc |-> "idle", user |-> NoUser, token |-> NoToken, type |-> NoType,
         msg |-> NoMessage, note |-> NoNote, was |-> "none", todo |-> {}, ok |-> FALSE]

At(s, l) == slot[s].pc = l
RequestOK(r) ==
    /\ r.pc # "idle" => r.user \in Users
    /\ r.pc \in {"own", "clear", "create"} => r.token \in Tokens /\ r.type \in Types
    /\ r.pc \in {"own", "clear", "create", "insert"} => r.note = NoNote
    /\ r.pc = "cleanUp" => r.token \in Tokens
    /\ r.pc \in Sending \cup {"mute"} => r.note \in Notes /\ r.was # "none"

TypeOK ==
    /\ device \in [Tokens -> Device]
    /\ note \in [Notes -> Note]
    /\ slot \in [Slots -> Request]
    /\ \A s \in Slots : RequestOK(slot[s])
    /\ revived \subseteq Tokens
    /\ settled \subseteq Notes /\ disturbed \subseteq Notes /\ delivered \subseteq Notes

-----------------------------------------------------------------------------
Init ==
    /\ device = [t \in Tokens |-> NoDevice]
    /\ note = [n \in Notes |-> Unsent]
    /\ slot = [s \in Slots |-> Idle]
    /\ revived = {} /\ settled = {} /\ delivered = {} /\ disturbed = {}

Present(t) == device[t].user # NoUser
ActiveOf(u) == {t \in Tokens : device[t].user = u /\ device[t].active}
ActiveOn(u, y) == {t \in ActiveOf(u) : device[t].type = y}
NotesOn(u, m) == {n \in Notes : note[n].user = u /\ note[n].msg = m}

Become(s, r) == slot' = [slot EXCEPT ![s] = r]
Goto(s, l) == Become(s, [slot[s] EXCEPT !.pc = l])
Done(s) == Become(s, Idle)

\* What becomes of the histories when the notifications or requests change.
Handled(sl) == {sl[s].note : s \in {t \in Slots : sl[t].pc # "idle"}}
Read(nt) == {n \in Notes : nt[n].status = "read"}
Disturb(N) == disturbed' = disturbed \cup N /\ delivered' = delivered \ N
Settle == settled' = settled \cup (Read(note') \ Handled(slot'))

NoteUnchanged == UNCHANGED <<note, delivered, disturbed>>
DeviceUnchanged == UNCHANGED <<device, revived>>

-----------------------------------------------------------------------------
(* registerDeviceToken *)

StartRegister(s, u, t, y) ==
    /\ At(s, "idle")
    /\ Become(s, [Idle EXCEPT !.pc = IF Present(t) THEN "own" ELSE "clear",
                              !.user = u, !.token = t, !.type = y])
    /\ NoteUnchanged /\ DeviceUnchanged /\ Settle

\* A known token changes hands, and is active; the document may have expired.
Own(s) ==
    /\ At(s, "own")
    /\ LET t == slot[s].token
       IN  \/ /\ Present(t)
              /\ device' = [device EXCEPT ![t] = [user |-> slot[s].user,
                                                  type |-> slot[s].type, active |-> TRUE]]
              /\ revived' = revived \cup {t}
           \/ ~Present(t) /\ DeviceUnchanged
    /\ Done(s)
    /\ NoteUnchanged /\ Settle

\* Mutant: the user's other tokens of the type stay active.
ClearNothing(s) ==
    /\ At(s, "clear")
    /\ Goto(s, "create")
    /\ DeviceUnchanged
    /\ NoteUnchanged /\ Settle

\* A new token replaces the user's active ones of its type.
Clear(s) ==
    /\ At(s, "clear")
    /\ device' = [t \in Tokens |->
                    IF t \in ActiveOn(slot[s].user, slot[s].type)
                    THEN [device[t] EXCEPT !.active = FALSE] ELSE device[t]]
    /\ revived' = revived \ ActiveOn(slot[s].user, slot[s].type)
    /\ Goto(s, "create")
    /\ NoteUnchanged /\ Settle

\* The unique index on token refuses a second document; the others stay inactive.
Create(s) ==
    /\ At(s, "create")
    /\ LET t == slot[s].token
       IN  \/ /\ ~Present(t)
              /\ device' = [device EXCEPT ![t] = [user |-> slot[s].user,
                                                  type |-> slot[s].type, active |-> TRUE]]
              /\ revived' = revived \ {t}
           \/ Present(t) /\ DeviceUnchanged
    /\ Done(s)
    /\ NoteUnchanged /\ Settle

-----------------------------------------------------------------------------
(* Updates of a token that are one step.  What updateDeviceToken reads before
   its update decides nothing: the document it found by the token has it, so
   the checks for a different token are never reached. *)

UpdateDeviceToken(t, u, y, a) ==
    /\ Present(t)
    /\ device' = [device EXCEPT ![t] = [user |-> u, type |-> y, active |-> a]]
    /\ revived' = IF a THEN revived \cup {t} ELSE revived \ {t}
    /\ UNCHANGED slot
    /\ NoteUnchanged /\ Settle

\* deactivateDeviceToken, validateToken for a token Firebase refuses, and the
\* clean-up after sendToDevices, which takes the tokens Firebase reported.
Deactivate(T) ==
    /\ device' = [t \in Tokens |-> IF t \in T THEN [device[t] EXCEPT !.active = FALSE]
                                              ELSE device[t]]
    /\ revived' = revived \ T
    /\ UNCHANGED slot
    /\ NoteUnchanged /\ Settle

\* The TTL index removes a document a year after its last update, active or not.
Expire(t) ==
    /\ Present(t)
    /\ device' = [device EXCEPT ![t] = NoDevice]
    /\ revived' = revived \ {t}
    /\ UNCHANGED slot
    /\ NoteUnchanged /\ Settle

-----------------------------------------------------------------------------
(* createNotificationRecord *)

\* Mutant: any notification found is sent again, whatever its status.
StartAgainRetryAny(s, u, m, n) ==
    /\ At(s, "idle")
    /\ n \in NotesOn(u, m)
    /\ Become(s, [Idle EXCEPT !.pc = "mute", !.user = u, !.note = n, !.was = "failed"])
    /\ Disturb({n} \cap Handled(slot))
    /\ UNCHANGED note
    /\ DeviceUnchanged /\ Settle

\* A notification about the message is there: only a failed one is sent again.
StartAgain(s, u, m, n) ==
    /\ At(s, "idle")
    /\ n \in NotesOn(u, m)
    /\ note[n].status = "failed"
    /\ Become(s, [Idle EXCEPT !.pc = "mute", !.user = u, !.note = n, !.was = "failed"])
    /\ Disturb({n} \cap Handled(slot))
    /\ UNCHANGED note
    /\ DeviceUnchanged /\ Settle

\* Mutant: nobody looks for a notification that is there.
StartCreateUnchecked(s, u, m) ==
    /\ At(s, "idle")
    /\ Become(s, [Idle EXCEPT !.pc = "insert", !.user = u, !.msg = m])
    /\ NoteUnchanged /\ DeviceUnchanged /\ Settle

\* A notification that names no message is never looked for.
StartCreate(s, u, m) ==
    /\ At(s, "idle")
    /\ m # NoMessage => NotesOn(u, m) = {}
    /\ Become(s, [Idle EXCEPT !.pc = "insert", !.user = u, !.msg = m])
    /\ NoteUnchanged /\ DeviceUnchanged /\ Settle

Insert(s) ==
    /\ At(s, "insert")
    /\ \E n \in Notes :
        /\ note[n].status = "absent"
        /\ note' = [note EXCEPT ![n] = [user |-> slot[s].user, msg |-> slot[s].msg,
                                        status |-> "unread"]]
        /\ Become(s, [slot[s] EXCEPT !.pc = "mute", !.msg = NoMessage, !.note = n,
                                     !.was = "unread"])
    /\ UNCHANGED <<delivered, disturbed>>
    /\ DeviceUnchanged /\ Settle

\* The user, or the user's side of the connection, may be muted.
CheckMute(s) ==
    /\ At(s, "mute")
    /\ Done(s) \/ Goto(s, "tokens")
    /\ NoteUnchanged /\ DeviceUnchanged /\ Settle

-----------------------------------------------------------------------------
(* sendNotificationToUser *)

FindTokens(s) ==
    /\ At(s, "tokens")
    /\ LET T == ActiveOf(slot[s].user)
       IN  Become(s, [slot[s] EXCEPT !.pc = IF T = {} THEN "fail" ELSE "send", !.todo = T])
    /\ NoteUnchanged /\ DeviceUnchanged /\ Settle

\* The next step of a request that has sent to its last device, or not yet.
After(r) ==
    IF r.todo # {} THEN [r EXCEPT !.pc = "send", !.token = NoToken]
    ELSE IF ~r.ok THEN [r EXCEPT !.pc = "fail", !.token = NoToken]
    ELSE IF r.was = "failed" THEN [r EXCEPT !.pc = "unfail", !.token = NoToken]
    ELSE Idle

SendReaches(s, t) ==
    /\ At(s, "send") /\ t \in slot[s].todo
    /\ Become(s, After([slot[s] EXCEPT !.todo = @ \ {t}, !.ok = TRUE]))
    /\ delivered' = delivered \cup ({slot[s].note} \ disturbed)
    /\ UNCHANGED <<note, disturbed>>
    /\ DeviceUnchanged /\ Settle

\* Mutant: the refused token is not passed on to the clean-up.
SendRefusedUnnamed(s, t) ==
    /\ At(s, "send") /\ t \in slot[s].todo
    /\ \/ Become(s, After([slot[s] EXCEPT !.todo = @ \ {t}]))
       \/ Become(s, [slot[s] EXCEPT !.todo = @ \ {t}, !.pc = "cleanUp"])
    /\ NoteUnchanged /\ DeviceUnchanged /\ Settle

\* Firebase refuses the message, or the token.
SendRefused(s, t) ==
    /\ At(s, "send") /\ t \in slot[s].todo
    /\ \/ Become(s, After([slot[s] EXCEPT !.todo = @ \ {t}]))
       \/ Become(s, [slot[s] EXCEPT !.todo = @ \ {t}, !.token = t, !.pc = "cleanUp"])
    /\ NoteUnchanged /\ DeviceUnchanged /\ Settle

\* sendToDevice deactivates the refused token, whoever has it by now.  Whether
\* or not that throws, the loop goes on with the next device.
CleanUp(s) ==
    /\ At(s, "cleanUp")
    /\ \/ /\ device' = [device EXCEPT ![slot[s].token].active = FALSE]
          /\ revived' = revived \ {slot[s].token}
       \/ DeviceUnchanged
    /\ Become(s, After(slot[s]))
    /\ NoteUnchanged /\ Settle

MarkFailed(s) ==
    /\ slot[s].pc \in {"fail", "rescue"}
    /\ note' = [note EXCEPT ![slot[s].note].status = "failed"]
    /\ Done(s)
    /\ UNCHANGED <<delivered, disturbed>>
    /\ DeviceUnchanged /\ Settle

\* Mutant: a retry that reached a device leaves the notification failed.
MarkUnreadForgotten(s) ==
    /\ At(s, "unfail")
    /\ Done(s)
    /\ NoteUnchanged /\ DeviceUnchanged /\ Settle

MarkUnread(s) ==
    /\ At(s, "unfail")
    /\ note' = [note EXCEPT ![slot[s].note].status = "unread"]
    /\ Done(s)
    /\ UNCHANGED <<delivered, disturbed>>
    /\ DeviceUnchanged /\ Settle

\* The catch of sendNotificationToUser marks the notification failed, devices
\* reached or not.
SendThrows(s) ==
    /\ slot[s].pc \in {"tokens", "fail", "unfail"}
    /\ Goto(s, "rescue")
    /\ Disturb({slot[s].note})
    /\ UNCHANGED note
    /\ DeviceUnchanged /\ Settle

-----------------------------------------------------------------------------
\* dismissChatNotifications, for some messages of a conversation or all of them.
Dismiss(u, M) ==
    /\ note' = [n \in Notes |-> IF note[n].user = u /\ note[n].msg \in M
                                THEN [note[n] EXCEPT !.status = "read"] ELSE note[n]]
    /\ UNCHANGED <<slot, delivered, disturbed>>
    /\ DeviceUnchanged /\ Settle

\* updateNotificationStatus, called by a client.  (Pending, sent and the other
\* statuses that only a client writes decide no more than unread does.)
UpdateNotificationStatus(n, t) ==
    /\ note[n].status # "absent"
    /\ note' = [note EXCEPT ![n].status = t]
    /\ Disturb({n})
    /\ settled' = IF t = "read" THEN settled \cup ({n} \ Handled(slot)) ELSE settled \ {n}
    /\ UNCHANGED slot
    /\ DeviceUnchanged

-----------------------------------------------------------------------------
\* An awaited call rejects where nothing catches it.
Abort(s) ==
    /\ slot[s].pc \in {"own", "clear", "create", "insert", "mute", "rescue"}
    /\ Done(s)
    /\ NoteUnchanged /\ DeviceUnchanged /\ Settle

Start(s, u) ==
    \/ \E t \in Tokens, y \in Types : StartRegister(s, u, t, y)
    \/ \E m \in Messages, n \in Notes : StartAgain(s, u, m, n)
    \/ \E m \in Messages \cup {NoMessage} : StartCreate(s, u, m)

Handle(s) ==
    \/ Own(s) \/ Clear(s) \/ Create(s) \/ Insert(s) \/ CheckMute(s) \/ FindTokens(s)
    \/ \E t \in Tokens : SendReaches(s, t) \/ SendRefused(s, t)
    \/ CleanUp(s) \/ MarkFailed(s) \/ MarkUnread(s)

Next ==
    \/ \E s \in Slots, u \in Users : Start(s, u)
    \/ \E s \in Slots : Handle(s) \/ SendThrows(s) \/ Abort(s)
    \/ \E t \in Tokens, u \in Users, y \in Types, a \in BOOLEAN : UpdateDeviceToken(t, u, y, a)
    \/ \E T \in (SUBSET Tokens) \ {{}} : Deactivate(T)
    \/ \E t \in Tokens : Expire(t)
    \/ \E u \in Users, M \in (SUBSET Messages) \ {{}} : Dismiss(u, M)
    \/ \E n \in Notes, t \in ClientStatuses : UpdateNotificationStatus(n, t)

Spec == Init /\ [][Next]_vars

-----------------------------------------------------------------------------
(* Properties *)

\* Registrations past the point where they deactivate a user's other tokens.
Creating(u, y) == {s \in Slots : At(s, "create") /\ slot[s].user = u /\ slot[s].type = y}

\* The active tokens of a user and device type, and those about to be created,
\* are no more than the registrations that can overlap: one at a time leaves one.
\* Tokens that registering again or updateDeviceToken made active do not count:
\* neither of those deactivates another token.
ActiveTokensBounded ==
    \A u \in Users, y \in Types :
        Cardinality(ActiveOn(u, y) \ revived) + Cardinality(Creating(u, y))
            <= Cardinality(Slots)

\* Requests that found no notification about the message and will create one.
Creators(u, m) == {s \in Slots : At(s, "insert") /\ slot[s].user = u /\ slot[s].msg = m}
OneNote(u, m) == INSTANCE Admission WITH
                    Requesters <- Slots, total <- Cardinality(NotesOn(u, m)), enforced <- TRUE,
                    allowed <- 1, base <- 0, holders <- Creators(u, m)

\* The look-up before a notification is created is an admission check for the
\* user and the message: duplicates are bounded by the overlap (Admission).
DuplicatesAdmitted ==
    /\ \A u \in Users, m \in Messages : OneNote(u, m)!Init
    /\ [][\A u \in Users, m \in Messages :
            [OneNote(u, m)!Next]_<<Cardinality(NotesOn(u, m)), Creators(u, m)>>]_vars
DuplicatesBounded ==
    \A u \in Users, m \in Messages :
        Cardinality(NotesOn(u, m)) + Cardinality(Creators(u, m)) <= Cardinality(Slots)

\* A notification read while no request was handling it stays read, unless a
\* client says otherwise: no later request about its message revives it.
ReadForGood == \A n \in settled : note[n].status = "read"

\* "Failed", which invites another attempt to send, is not said of a
\* notification that reached a device, unless its sending was disturbed.
FailedUndelivered ==
    \A n \in delivered \ Handled(slot) : note[n].status # "failed"
=============================================================================
