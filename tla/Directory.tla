------------------------------ MODULE Directory ------------------------------
(***************************************************************************)
(* The listings of users (UsersAuthService and PaginationService), read    *)
(* page by page by a client while users come and go and the chat service   *)
(* relates them: findFriends, findAllFriends, findAllUsers, and the        *)
(* look-up of phone numbers.                                               *)
(*                                                                         *)
(* A page is several reads, and the pages of a walk are reads of different *)
(* moments: nothing holds a listing still.                                 *)
(***************************************************************************)
EXTENDS Integers, FiniteSets

CONSTANTS
    Users,
    Me,        \* the user a listing is for
    Known,     \* users registered at first: the number of each, 0 for the others
    Related,   \* requests between Me and others at first
    Asks,      \* bound: requests that may be made
    Limit,     \* users on a page
    MaxOutside, \* bound: changes made by others
    NoUser

ASSUME UsersAssumption == IsFiniteSet(Users) /\ Me \in Users /\ NoUser \notin Users
ASSUME BoundsAssumption == Limit \in Nat \ {0} /\ MaxOutside \in Nat

VARIABLES
    status,     \* of each user; who is deleted is "gone"
    joined,     \* of each user, its number in the order of creation; 0 before
    requests,   \* requests of Me and to Me, kept by the chat service
    connection, \* of Me to each user, kept by the chat service
    walk,       \* the client's walk, and the request for the page it is at
    outside,    \* changes made by others so far
    steady,     \* history: users that belonged to the listing all through the walk
    came, left, \* history: reasons for users to come into it, and to leave it, meanwhile
    fresh       \* history: users that were related to Me since the page was asked for

docs == <<status, joined, requests, connection>>
vars == <<status, joined, requests, connection, walk, outside, steady, came, left, fresh>>

\* The addressee is the target, or is named by the metadata; friend: by its type and its
\* reqType a request is a friend request.
Request == [actor : Users, target : Users \cup {NoUser}, meta : Users \cup {NoUser},
            status : {"pending", "accepted"}, friend : BOOLEAN]
\* A request names its addressee in one way, or in both alike.
NamedOnce(r) == r.target = NoUser \/ r.meta = NoUser \/ r.target = r.meta
ASSUME RequestsAssumption == Related \cup Asks \subseteq {r \in Request : NamedOnce(r)}

\* Numbered in the order of registration, without gaps.
Registered(number) == {u \in Users : number[u] # 0}
Numbering(number) ==
    /\ number \in [Users -> Nat]
    /\ \A u \in Users : number[u] <= Cardinality(Registered(number))
    /\ \A u, v \in Registered(number) : number[u] = number[v] => u = v
ASSUME KnownAssumption == Numbering(Known)

Kinds == {"friends", "all", "users"}
Walk == [pc : {"idle", "peers", "read", "details", "turn", "end"}, kind : Kinds, paged : BOOLEAN,
         skip : Nat, todo : SUBSET {"count", "find", "connections", "requests"},
         excluded : SUBSET Users, total : Nat, items : SUBSET Users,
         connected : SUBSET Users, asked : SUBSET Users, seen : SUBSET Users, twice : Nat]
Nowhere == [pc |-> "idle", kind |-> "users", paged |-> TRUE, skip |-> 0, todo |-> {},
            excluded |-> {}, total |-> 0, items |-> {}, connected |-> {}, asked |-> {},
            seen |-> {}, twice |-> 0]

TypeOK ==
    /\ status \in [Users -> {"absent", "active", "blocked", "gone"}]
    /\ Numbering(joined) /\ \A u \in Users : status[u] = "absent" <=> joined[u] = 0
    /\ requests \subseteq Request
    /\ connection \in [Users -> {"none", "open", "deleted"}]
    /\ walk \in Walk
    /\ walk.kind # "users" => Me \notin walk.items
    /\ outside \in 0..MaxOutside
    /\ steady \subseteq Users /\ fresh \subseteq Users
    /\ came \in Nat /\ left \in Nat

Init ==
    /\ status = [u \in Users |-> IF Known[u] # 0 THEN "active" ELSE "absent"]
    /\ joined = Known
    /\ requests = Related
    /\ connection = [u \in Users |-> "none"]
    /\ walk = Nowhere
    /\ outside = 0
    /\ steady = {} /\ came = 0 /\ left = 0 /\ fresh = {}

-----------------------------------------------------------------------------
(* What is listed *)

\* Mutant: the target alone says who is asked.
PeerTarget(r) == IF r.actor = Me THEN r.target ELSE r.actor

\* getExcludedFriendPeerIds: whom Me has asked to be a friend, or who has asked Me.
Peer(r) ==
    IF r.actor # Me THEN r.actor ELSE IF r.target # NoUser THEN r.target ELSE r.meta
Peers(rs) == {Peer(r) : r \in {q \in rs : q.friend}} \ {NoUser, Me}

\* The filters of findAllUsers, findAllFriends and findFriends; what the client searches for
\* is abstracted.
Active(st, u) == st[u] = "active"

\* Mutant: the requester is among its friends.
OtherSelf(st, u) == Active(st, u)

Other(st, u) == Active(st, u) /\ u # Me
Offered(excluded, st, u) == Other(st, u) /\ u \notin excluded

Matches(kind, excluded, st, u) ==
    CASE kind = "users"   -> Active(st, u)
      [] kind = "all"     -> Other(st, u)
      [] kind = "friends" -> Offered(excluded, st, u)

Listing(kind, excluded) == {u \in Users : Matches(kind, excluded, status, u)}

\* History: who belongs to a listing, given the requests and the users of a moment.
Belongs(kind, rs, st) ==
    {u \in Users : Matches(kind, IF kind = "friends" THEN Peers(rs) ELSE {}, st, u)}

-----------------------------------------------------------------------------
(* A page *)

Reads(paged) == IF paged THEN {"count", "find"} ELSE {"find"}

\* Mutant: whom to leave out is found once for all pages.
AskOnce(w) ==
    [w EXCEPT !.pc = IF w.kind = "friends" /\ w.skip = 0 THEN "peers" ELSE "read",
              !.todo = Reads(w.paged), !.connected = {}, !.asked = {}]

\* The service is asked for a page; findFriends begins with whom to leave out.
Ask(w) ==
    [w EXCEPT !.pc = IF w.kind = "friends" THEN "peers" ELSE "read",
              !.todo = Reads(w.paged), !.connected = {}, !.asked = {}, !.excluded = {},
              !.items = {}, !.total = 0]

StartWalk(kind, paged) ==
    /\ walk.pc = "idle"
    /\ walk' = Ask([Nowhere EXCEPT !.kind = kind, !.paged = paged])
    /\ steady' = Belongs(kind, requests, status)
    /\ came' = 0 /\ left' = 0 /\ fresh' = {}
    /\ UNCHANGED <<docs, outside>>

ReadPeers ==
    /\ walk.pc = "peers"
    /\ walk' = [walk EXCEPT !.pc = "read", !.excluded = Peers(requests)]
    /\ UNCHANGED <<docs, outside, steady, came, left, fresh>>

\* The client puts the page to those it has.
Answered(w) ==
    [w EXCEPT !.pc = "turn", !.seen = @ \cup w.items,
              !.twice = @ + Cardinality(w.items \cap w.seen)]

\* findAllFriends goes on to the details of the users it has found.
Found(w) ==
    CASE w.todo # {} -> w
      [] w.todo = {} /\ w.kind = "all" /\ w.items # {} ->
            [w EXCEPT !.pc = "details", !.todo = {"connections", "requests"}]
      [] OTHER -> Answered(w)

\* Mutant: the count is limited like the page.
CountPage ==
    /\ walk.pc = "read" /\ "count" \in walk.todo
    /\ LET n == Cardinality(Listing(walk.kind, walk.excluded))
       IN  walk' = Found([walk EXCEPT !.todo = @ \ {"count"}, !.total = IF n > Limit THEN Limit ELSE n])
    /\ UNCHANGED <<docs, outside, steady, came, left, fresh>>

\* The count and the find are sent together, and answered in either order.
CountUsers ==
    /\ walk.pc = "read" /\ "count" \in walk.todo
    /\ walk' = Found([walk EXCEPT !.todo = @ \ {"count"},
                                  !.total = Cardinality(Listing(walk.kind, walk.excluded))])
    /\ UNCHANGED <<docs, outside, steady, came, left, fresh>>

\* The newest come first.  A page begins behind the first skip of a listing; the order of the
\* users on it is abstracted.
Newer(number, listing, u) == {v \in listing : number[v] > number[u]}
Rank(number, listing, u) == Cardinality(Newer(number, listing, u))
Page(number, listing, skip) ==
    {u \in listing : Rank(number, listing, u) \in skip..(skip + Limit - 1)}

FindUsers ==
    /\ walk.pc = "read" /\ "find" \in walk.todo
    /\ LET listing == Listing(walk.kind, walk.excluded)
           w == [walk EXCEPT !.todo = @ \ {"find"}]
       IN  walk' = Found(IF walk.paged
                         THEN [w EXCEPT !.items = Page(joined, listing, walk.skip)]
                         ELSE [w EXCEPT !.items = listing, !.total = Cardinality(listing)])
    /\ UNCHANGED <<docs, outside, steady, came, left, fresh>>

-----------------------------------------------------------------------------
(* findAllFriends: what there is between Me and the users of the page *)

Detailed(w) == IF w.todo = {} THEN Answered(w) ELSE w

\* Deleted connections are not left out.
ReadConnections ==
    /\ walk.pc = "details" /\ "connections" \in walk.todo
    /\ walk' = Detailed([walk EXCEPT !.todo = @ \ {"connections"},
                  !.connected = {u \in walk.items : connection[u] # "none"}])
    /\ UNCHANGED <<docs, outside, steady, came, left, fresh>>

\* Friend requests of Me only, and by their target.
ReadRequests ==
    /\ walk.pc = "details" /\ "requests" \in walk.todo
    /\ walk' = Detailed([walk EXCEPT !.todo = @ \ {"requests"},
                  !.asked = {u \in walk.items :
                        \E r \in requests : r.friend /\ r.actor = Me /\ r.target = u}])
    /\ UNCHANGED <<docs, outside, steady, came, left, fresh>>

-----------------------------------------------------------------------------
(* The client *)

\* It asks for pages until it has been through as many users as there are said to be.
TurnPage ==
    /\ walk.pc = "turn"
    /\ IF walk.paged /\ walk.skip + Limit < walk.total
       THEN walk' = Ask([walk EXCEPT !.skip = @ + Limit]) /\ fresh' = {}
       ELSE walk' = [walk EXCEPT !.pc = "end"] /\ UNCHANGED fresh
    /\ UNCHANGED <<docs, outside, steady, came, left>>

-----------------------------------------------------------------------------
(* Others *)

Outside(st, rs) ==
    LET before == Belongs("users", requests, status)
        after  == Belongs("users", rs, st)
        new    == Peers(rs) \ Peers(requests)
        over   == Peers(requests) \ Peers(rs)
    IN  /\ outside < MaxOutside /\ outside' = outside + 1
        /\ status' = st /\ requests' = rs
        /\ IF walk.pc \in {"idle", "end"}
           THEN UNCHANGED <<steady, came, left, fresh>>
           ELSE /\ steady' = steady \cap Belongs(walk.kind, rs, st)
                /\ came' = came + Cardinality(after \ before) + Cardinality(over)
                /\ left' = left + Cardinality(before \ after) + Cardinality(new)
                /\ fresh' = fresh \cup new
        /\ UNCHANGED walk

Register(u) ==
    /\ status[u] = "absent"
    /\ Outside([status EXCEPT ![u] = "active"], requests)
    /\ joined' = [joined EXCEPT ![u] = Cardinality(Registered(joined)) + 1]
    /\ UNCHANGED connection

\* Blocked, let in again, deleted.
SetStatus(u, new) ==
    /\ status[u] \in {"active", "blocked"} /\ new # status[u]
    /\ Outside([status EXCEPT ![u] = new], requests)
    /\ UNCHANGED <<joined, connection>>

Relate(r) ==
    /\ r \in Asks /\ r.status = "pending" /\ r \notin requests
    /\ r.friend => Peer(r) \notin Peers(requests)
    /\ Outside(status, requests \cup {r})
    /\ UNCHANGED <<joined, connection>>

Accept(r) ==
    /\ r \in requests /\ r.status = "pending"
    /\ Outside(status, (requests \ {r}) \cup {[r EXCEPT !.status = "accepted"]})
    /\ connection' = IF r.friend THEN [connection EXCEPT ![Peer(r)] = "open"] ELSE connection
    /\ UNCHANGED joined

\* Declined, withdrawn, or deleted with the connection there was.
Withdraw(r) ==
    /\ r \in requests
    /\ Outside(status, requests \ {r})
    /\ connection' = [connection EXCEPT ![Peer(r)] = IF r.friend /\ @ = "open" THEN "deleted" ELSE @]
    /\ UNCHANGED joined

Next ==
    \/ \E kind \in Kinds, paged \in BOOLEAN : StartWalk(kind, paged)
    \/ ReadPeers \/ CountUsers \/ FindUsers \/ ReadConnections \/ ReadRequests \/ TurnPage
    \/ \E u \in Users : Register(u) \/ \E new \in {"active", "blocked", "gone"} : SetStatus(u, new)
    \/ \E r \in Asks : Relate(r)
    \/ \E r \in requests : Accept(r) \/ Withdraw(r)

Spec == Init /\ [][Next]_vars

-----------------------------------------------------------------------------
(* getUsersByPhoneNumbers *)

\* The requests of Me to a user that are pending, whatever they ask for.
PendingFor(u) ==
    {r \in requests : r.actor = Me /\ u \in {r.target, r.meta} /\ r.status = "pending"}

\* One aggregation: the connection of Me to a user, or else the request that is pending.
\* Connections are looked up without those that are deleted.
ByPhone(u) ==
    CASE ~Active(status, u) -> "none"
      [] Active(status, u) /\ connection[u] = "open" -> "connection"
      [] Active(status, u) /\ connection[u] # "open" /\ PendingFor(u) # {} -> "request"
      [] OTHER -> "none"

-----------------------------------------------------------------------------
(* Properties *)

\* A client that walks through a listing misses no more of the users that belong to it all
\* the time than users came and left meanwhile, and sees none twice that nobody came for.
\* (skip and limit against a count and a find of other moments.)
PagesAccounted ==
    walk.pc = "end" =>
        /\ Cardinality(steady \ walk.seen) <= left + came
        /\ walk.twice <= came

\* Whom a page shows as a stranger is one, or a friend request of or to that user was made
\* since the page was asked for.  findAllFriends shows as strangers also those that have
\* asked Me, and those that Me has asked through the metadata.
\* (findFriends finds whom to leave out first; findAllFriends the details last.)
StrangersShown ==
    walk.pc = "turn" =>
        \A u \in walk.items, r \in requests :
            r.friend /\ Peer(r) = u =>
                \/ u \in fresh
                \/ walk.kind = "users"
                \/ walk.kind = "all" /\ (r.actor # Me \/ r.target = NoUser \/ u \in walk.asked \cup walk.connected)

\* Who is shown with a pending request when its phone number is looked up is not offered by
\* findFriends, though the two read the requests in ways of their own; except when none of
\* the requests is a friend request, which only findFriends looks at.
LookupsAgree ==
    \A u \in Users :
        ByPhone(u) = "request" /\ Offered(Peers(requests), status, u) =>
            \A r \in PendingFor(u) : ~r.friend

\* Nobody is offered to Me as a stranger that Me would be shown a friend request to.
StrangersOffered == StrangersShown /\ LookupsAgree
=============================================================================
