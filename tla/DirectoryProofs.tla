--------------------------- MODULE DirectoryProofs ---------------------------
(***************************************************************************)
(* Proofs about Directory: its types, that a walk through the pages of a   *)
(* listing is accounted for, and whom findFriends and findAllFriends show  *)
(* as strangers.                                                           *)
(*                                                                         *)
(* A page is cut out of a listing by rank, and the listing changes between *)
(* the pages.  What the proof counts is how many users a change of the     *)
(* listing can move across the line where the next page begins: no more    *)
(* than leave it can move to the near side, where they are not looked for  *)
(* again, and no more than come into it to the far side.                   *)
(***************************************************************************)
EXTENDS Directory, FiniteSetTheorems, WellFoundedInduction, TLAPS

-----------------------------------------------------------------------------
(* Sets of users *)

LEMMA UsersFinite ==
    ASSUME NEW S \in SUBSET Users
    PROVE  IsFiniteSet(S) /\ Cardinality(S) \in Nat
BY UsersAssumption, FS_Subset, FS_CardinalityType

LEMMA Smaller ==
    ASSUME NEW T \in SUBSET Users, NEW S \in SUBSET T
    PROVE  Cardinality(S) <= Cardinality(T)
BY UsersFinite, FS_Subset

LEMMA Strictly ==
    ASSUME NEW T \in SUBSET Users, NEW S \in SUBSET T, NEW x \in T, x \notin S
    PROVE  Cardinality(S) < Cardinality(T)
<1>1. IsFiniteSet(T) /\ Cardinality(T) \in Nat /\ Cardinality(S) \in Nat
  BY UsersFinite
<1>2. Cardinality(S) <= Cardinality(T) /\ (Cardinality(S) = Cardinality(T) => S = T)
  BY <1>1, FS_Subset
<1> QED BY <1>1, <1>2

LEMMA Together ==
    ASSUME NEW S \in SUBSET Users, NEW T \in SUBSET Users
    PROVE  /\ Cardinality(S \cup T) <= Cardinality(S) + Cardinality(T)
           /\ S \cap T = {} => Cardinality(S \cup T) = Cardinality(S) + Cardinality(T)
<1>1. /\ IsFiniteSet(S) /\ IsFiniteSet(T)
      /\ Cardinality(S) \in Nat /\ Cardinality(T) \in Nat /\ Cardinality(S \cap T) \in Nat
  BY UsersFinite
<1>2. Cardinality(S \cup T) = Cardinality(S) + Cardinality(T) - Cardinality(S \cap T)
  BY <1>1, FS_Union
<1>3. S \cap T = {} => Cardinality(S \cap T) = 0
  BY FS_EmptySet
<1> QED BY <1>1, <1>2, <1>3

\* A set that is covered by two is no larger than the two.
LEMMA Covered ==
    ASSUME NEW S \in SUBSET Users, NEW T \in SUBSET Users, NEW X \in SUBSET (S \cup T)
    PROVE  Cardinality(X) <= Cardinality(S) + Cardinality(T)
<1>1. Cardinality(X) <= Cardinality(S \cup T)
  BY Smaller
<1>2. /\ Cardinality(X) \in Nat /\ Cardinality(S \cup T) \in Nat
      /\ Cardinality(S) \in Nat /\ Cardinality(T) \in Nat
  BY UsersFinite
<1> QED BY <1>1, <1>2, Together

\* Among some users there is one that nobody is older than.
LEMMA Oldest ==
    ASSUME NEW number \in [Users -> Nat], NEW S \in SUBSET Users, S # {}
    PROVE  \E o \in S : \A u \in S : number[o] <= number[u]
<1> DEFINE T == {number[u] : u \in S}
<1>1. T \subseteq Nat /\ T # {}
  OBVIOUS
<1>2. \E x \in T : \A y \in T : ~(<<y, x>> \in OpToRel(<, Nat))
  <2> HIDE DEF T
  <2> QED BY <1>1, NatLessThanWellFounded, WFMin
<1>3. PICK x \in T : \A y \in T : ~(<<y, x>> \in OpToRel(<, Nat))
  BY <1>2
<1>4. \A y \in T : ~(y < x)
  BY <1>1, <1>3 DEF OpToRel
<1>5. PICK o \in S : x = number[o]
  OBVIOUS
<1>6. ASSUME NEW u \in S
      PROVE  number[o] <= number[u]
  BY <1>4, <1>5
<1> QED BY <1>6

-----------------------------------------------------------------------------
(* Ranks in a listing *)

\* No two users of a listing have the same number.
Apart(number, V) == \A u, v \in V : number[u] = number[v] => u = v

LEMMA RankType ==
    ASSUME NEW number \in [Users -> Nat], NEW V \in SUBSET Users, NEW u \in Users
    PROVE  /\ Newer(number, V, u) \in SUBSET V
           /\ Rank(number, V, u) \in Nat
BY UsersFinite DEF Newer, Rank

LEMMA RankOrder ==
    ASSUME NEW number \in [Users -> Nat], NEW V \in SUBSET Users,
           NEW u \in V, NEW v \in V, number[v] < number[u]
    PROVE  Rank(number, V, u) < Rank(number, V, v)
<1>1. Newer(number, V, u) \subseteq Newer(number, V, v)
  BY DEF Newer
<1>2. u \in Newer(number, V, v) /\ u \notin Newer(number, V, u)
  BY DEF Newer
<1>3. Newer(number, V, v) \subseteq Users
  BY RankType
<1> QED BY <1>1, <1>2, <1>3, Strictly DEF Rank

LEMMA RankApart ==
    ASSUME NEW number \in [Users -> Nat], NEW V \in SUBSET Users, Apart(number, V),
           NEW u \in V, NEW v \in V, Rank(number, V, u) = Rank(number, V, v)
    PROVE  u = v
<1>1. /\ number[u] \in Nat /\ number[v] \in Nat
      /\ Rank(number, V, u) \in Nat /\ Rank(number, V, v) \in Nat
  BY RankType
<1>2. CASE number[v] < number[u]
  BY <1>1, <1>2, RankOrder
<1>3. CASE number[u] < number[v]
  BY <1>1, <1>3, RankOrder
<1>4. CASE number[u] = number[v]
  BY <1>4 DEF Apart
<1> QED BY <1>1, <1>2, <1>3, <1>4

\* Users with ranks from an interval are no more than the interval is long.
LEMMA Ranked ==
    ASSUME NEW number \in [Users -> Nat], NEW V \in SUBSET Users, Apart(number, V),
           NEW X \in SUBSET V, NEW f \in Nat, NEW n \in Nat,
           \A u \in X : Rank(number, V, u) \in f..(f + n - 1)
    PROVE  Cardinality(X) <= n
<1> DEFINE r == [u \in X |-> Rank(number, V, u)]
<1>1. r \in [X -> f..(f + n - 1)]
  OBVIOUS
<1>2. \A u, v \in X : r[u] = r[v] => u = v
  BY RankApart
<1>3. r \in Injection(X, f..(f + n - 1))
  BY <1>1, <1>2 DEF Injection, IsInjective
<1>4. /\ IsFiniteSet(f..(f + n - 1))
      /\ Cardinality(f..(f + n - 1)) = IF f > f + n - 1 THEN 0 ELSE f + n - 1 - f + 1
  BY FS_Interval
<1>5. Cardinality(X) <= Cardinality(f..(f + n - 1))
  <2> HIDE DEF r
  <2> QED BY <1>3, <1>4, FS_Injection
<1> QED BY <1>4, <1>5

\* A change of a listing moves a rank by no more than the users that come into it.
LEMMA RankMoves ==
    ASSUME NEW number \in [Users -> Nat], NEW V \in SUBSET Users, NEW W \in SUBSET Users,
           NEW u \in Users
    PROVE  Rank(number, W, u) <= Rank(number, V, u) + Cardinality(W \ V)
<1>1. Newer(number, W, u) \subseteq Newer(number, V, u) \cup (W \ V)
  BY DEF Newer
<1>2. Newer(number, V, u) \subseteq Users
  BY RankType
<1> QED BY <1>1, <1>2, Covered DEF Rank

-----------------------------------------------------------------------------
(* The line where the next page begins *)

\* Of S, who is listed before rank f is not looked for again; who is behind it is to come.
Passed(number, V, S, f) == {u \in S : Rank(number, V, u) < f}
Ahead(number, V, S, f) == {u \in S \cap V : Rank(number, V, u) >= f}

\* The users that a change of the listing makes a walk pass over are no more than leave it.
LEMMA Shrink ==
    ASSUME NEW number \in [Users -> Nat], NEW V \in SUBSET Users, NEW W \in SUBSET Users,
           Apart(number, V), NEW S \in SUBSET (V \cap W), NEW f \in Nat
    PROVE  Cardinality(Passed(number, W, S, f))
             <= Cardinality(Passed(number, V, S, f)) + Cardinality(V \ W)
<1> DEFINE P == Passed(number, V, S, f)
           X == Passed(number, W, S, f) \ P
           n == Cardinality(V \ W)
<1>1. X \in SUBSET V /\ P \in SUBSET Users /\ Passed(number, W, S, f) \in SUBSET (X \cup P)
  BY DEF Passed
<1>2. n \in Nat
  BY UsersFinite
<1>3. ASSUME NEW u \in X
      PROVE  Rank(number, V, u) \in f..(f + n - 1)
  <2>1. u \in Users /\ Rank(number, W, u) < f /\ ~(Rank(number, V, u) < f)
    BY DEF Passed
  <2>2. Rank(number, V, u) \in Nat /\ Rank(number, W, u) \in Nat
    BY <2>1, RankType
  <2>3. Rank(number, V, u) <= Rank(number, W, u) + n
    BY <2>1, RankMoves
  <2> HIDE DEF n, X, P
  <2> QED BY <1>2, <2>1, <2>2, <2>3
<1> HIDE DEF X, P
<1>4. Cardinality(X) <= n
  <2> HIDE DEF n
  <2> QED BY <1>1, <1>2, <1>3, Ranked
<1>5. Cardinality(Passed(number, W, S, f)) <= Cardinality(X) + Cardinality(P)
  BY <1>1, Covered
<1>6. Cardinality(X) \in Nat /\ Cardinality(P) \in Nat /\ Cardinality(Passed(number, W, S, f)) \in Nat
  BY <1>1, UsersFinite DEF Passed
<1> QED BY <1>2, <1>4, <1>5, <1>6 DEF P

\* The users that a change of the listing brings behind the line are no more than come into
\* it.  The oldest of those that were listed before tells the two kinds apart: who is newer
\* is behind the line by less than have come in before the oldest, who is older has come
\* in itself.
LEMMA Grow ==
    ASSUME NEW number \in [Users -> Nat], NEW V \in SUBSET Users, NEW W \in SUBSET Users,
           Apart(number, W), NEW S \in SUBSET Users, NEW f \in Nat
    PROVE  Cardinality(Ahead(number, W, S, f))
             <= Cardinality(Ahead(number, V, S, f)) + Cardinality(W \ V)
<1> DEFINE A == Ahead(number, V, S, f)
           X == Ahead(number, W, S, f) \ A
           Old == X \cap V
           In == W \ V
<1>1. /\ X \in SUBSET W /\ A \in SUBSET Users /\ In \in SUBSET Users /\ Old \in SUBSET Users
      /\ Ahead(number, W, S, f) \in SUBSET (X \cup A)
  BY DEF Ahead
<1>2. \A u \in X : u \in Users /\ u \in W /\ Rank(number, W, u) >= f
  BY DEF Ahead
<1>3. \A u \in Old : u \in Users /\ u \in V /\ ~(Rank(number, V, u) >= f)
  BY DEF Ahead
<1> HIDE DEF X, A
<1>4. Cardinality(X) <= Cardinality(In)
  <2>1. CASE Old = {}
    <3>1. X \in SUBSET In
      BY <1>1, <2>1
    <3> QED BY <1>1, <3>1, Smaller
  <2>2. CASE Old # {}
    <3>1. PICK o \in Old : \A u \in Old : number[o] <= number[u]
      BY <1>1, <2>2, Oldest
    <3> DEFINE Before == Newer(number, In, o)
               Late == {u \in X : number[u] < number[o]}
               Soon == {u \in X : number[u] >= number[o]}
               n == Cardinality(Before)
    <3>2. /\ Before \in SUBSET In /\ Before \in SUBSET Users /\ Late \in SUBSET X /\ Soon \in SUBSET X
          /\ Late \in SUBSET Users /\ Soon \in SUBSET Users /\ n \in Nat /\ o \in Users
      BY <1>1, <3>1, RankType, UsersFinite DEF Rank
    <3>3. Late \in SUBSET (In \ Before)
      <4>1. ASSUME NEW u \in Late
            PROVE  u \in In /\ u \notin Before
        <5>1. u \in X /\ number[u] < number[o] /\ number[u] \in Nat /\ number[o] \in Nat
          BY <1>1, <3>2
        <5>2. u \notin Old
          BY <3>1, <5>1
        <5>3. u \in In
          BY <1>1, <5>1, <5>2
        <5>4. u \notin Before
          BY <5>1 DEF Newer
        <5> QED BY <5>3, <5>4
      <4> QED BY <4>1
    <3>4. ASSUME NEW u \in Soon
          PROVE  Rank(number, W, u) \in f..(f + n - 1)
      <4>1. Rank(number, W, u) >= f /\ u \in W /\ u \in Users /\ o \in W /\ o \in V
        BY <1>1, <1>2, <1>3, <3>1, <3>2
      <4>2. number[u] >= number[o] /\ number[u] \in Nat /\ number[o] \in Nat
        BY <3>2, <4>1
      <4>3. Newer(number, W, u) \in SUBSET (Newer(number, V, o) \cup Before)
        BY <4>2 DEF Newer
      <4>4. Newer(number, V, o) \in SUBSET Users
        BY <4>1, RankType
      <4>5. Rank(number, W, u) <= Rank(number, V, o) + n
        BY <3>2, <4>3, <4>4, Covered DEF Rank
      <4>6. Rank(number, V, o) < f /\ Rank(number, V, o) \in Nat /\ Rank(number, W, u) \in Nat
        <5>1. Rank(number, V, o) \in Nat /\ Rank(number, W, u) \in Nat
          BY <3>2, <4>1, RankType
        <5>2. ~(Rank(number, V, o) >= f)
          BY <1>3, <3>1
        <5> QED BY <5>1, <5>2
      <4> HIDE DEF n
      <4> QED BY <3>2, <4>1, <4>5, <4>6
    <3>5. Cardinality(Soon) <= n
      <4>1. Soon \in SUBSET W
        BY <1>1, <3>2
      <4> HIDE DEF n, Soon
      <4> QED BY <3>2, <3>4, <4>1, Ranked
    <3> HIDE DEF Before, Late, Soon, n
    <3>6. Cardinality(Late) <= Cardinality(In \ Before)
      BY <1>1, <3>3, Smaller
    <3>7. Cardinality(In) = Cardinality(Before) + Cardinality(In \ Before)
      <4>1. In = Before \cup (In \ Before) /\ Before \cap (In \ Before) = {}
        BY <3>2
      <4>2. (In \ Before) \in SUBSET Users
        BY <1>1
      <4> HIDE DEF In
      <4> QED BY <3>2, <4>1, <4>2, Together
    <3>8. X \in SUBSET (Late \cup Soon)
      <4>1. \A u \in X : number[u] \in Nat /\ number[o] \in Nat
        BY <1>1, <3>2
      <4> QED BY <4>1 DEF Late, Soon
    <3>9. Cardinality(X) <= Cardinality(Late) + Cardinality(Soon)
      BY <3>2, <3>8, Covered
    <3>10. /\ Cardinality(X) \in Nat /\ Cardinality(Late) \in Nat /\ Cardinality(Soon) \in Nat
           /\ Cardinality(In \ Before) \in Nat /\ Cardinality(In) \in Nat
      BY <1>1, <3>2, UsersFinite
    <3> QED BY <3>2, <3>5, <3>6, <3>7, <3>9, <3>10 DEF n
  <2> QED BY <2>1, <2>2
<1>5. Cardinality(Ahead(number, W, S, f)) <= Cardinality(X) + Cardinality(A)
  BY <1>1, Covered
<1>6. /\ Cardinality(X) \in Nat /\ Cardinality(A) \in Nat /\ Cardinality(In) \in Nat
      /\ Cardinality(Ahead(number, W, S, f)) \in Nat
  BY <1>1, UsersFinite DEF Ahead
<1> QED BY <1>4, <1>5, <1>6 DEF A

\* Behind the line are no more users than the listing is longer.
LEMMA Behind ==
    ASSUME NEW number \in [Users -> Nat], NEW V \in SUBSET Users, Apart(number, V),
           NEW S \in SUBSET V, NEW f \in Nat, NEW n \in Nat, Cardinality(V) <= f + n
    PROVE  Cardinality(Ahead(number, V, S, f)) <= n
<1> DEFINE X == Ahead(number, V, S, f)
<1>1. X \in SUBSET V
  BY DEF Ahead
<1>2. ASSUME NEW u \in X
      PROVE  Rank(number, V, u) \in f..(f + n - 1)
  <2>1. u \in V /\ Rank(number, V, u) >= f
    BY DEF Ahead
  <2>2. Newer(number, V, u) \in SUBSET V /\ Rank(number, V, u) \in Nat /\ Cardinality(V) \in Nat
    BY <2>1, RankType, UsersFinite
  <2>3. u \notin Newer(number, V, u)
    BY <2>1 DEF Newer
  <2>4. Rank(number, V, u) < Cardinality(V)
    BY <2>1, <2>2, <2>3, Strictly DEF Rank
  <2> QED BY <2>1, <2>2, <2>4
<1> HIDE DEF X
<1>3. Cardinality(X) <= n
  BY <1>1, <1>2, Ranked
<1> QED BY <1>3 DEF X

-----------------------------------------------------------------------------
(* Types *)

LEMMA PeersTyped ==
    ASSUME NEW rs \in SUBSET Request
    PROVE  Peers(rs) \in SUBSET Users
BY UsersAssumption DEF Peers, Peer, Request

LEMMA ListingTyped ==
    ASSUME NEW kind \in Kinds, NEW excluded
    PROVE  /\ Listing(kind, excluded) \in SUBSET Users
           /\ kind # "users" => Me \notin Listing(kind, excluded)
BY DEF Listing, Matches, Other, Offered, Kinds

WalkOK(w) == w \in Walk /\ (w.kind # "users" => Me \notin w.items)

LEMMA AskTyped ==
    ASSUME NEW w \in Walk
    PROVE  WalkOK(Ask(w))
BY DEF Ask, Walk, WalkOK, Reads

LEMMA AnsweredTyped ==
    ASSUME NEW w, WalkOK(w)
    PROVE  WalkOK(Answered(w))
<1> DEFINE n == w.twice + Cardinality(w.items \cap w.seen)
           all == w.seen \cup w.items
<1>1. n \in Nat /\ all \in SUBSET Users
  BY UsersFinite DEF WalkOK, Walk
<1>2. Answered(w) = [w EXCEPT !.pc = "turn", !.seen = all, !.twice = n]
  BY DEF Answered
<1> HIDE DEF n, all
<1> QED BY <1>1, <1>2 DEF Walk, WalkOK

LEMMA FoundTyped ==
    ASSUME NEW w, WalkOK(w)
    PROVE  WalkOK(Found(w))
<1>1. CASE w.todo # {}
  BY <1>1 DEF Found
<1>2. CASE w.todo = {} /\ w.kind = "all" /\ w.items # {}
  BY <1>2 DEF Found, Walk, WalkOK
<1>3. CASE w.todo = {} /\ ~(w.kind = "all" /\ w.items # {})
  BY <1>3, AnsweredTyped DEF Found
<1> QED BY <1>1, <1>2, <1>3

LEMMA DetailedTyped ==
    ASSUME NEW w, WalkOK(w)
    PROVE  WalkOK(Detailed(w))
BY AnsweredTyped DEF Detailed

LEMMA WalkTyped ==
    ASSUME TypeOK,
           ReadPeers \/ CountUsers \/ FindUsers \/ ReadConnections \/ ReadRequests \/ TurnPage
    PROVE  WalkOK(walk') /\ fresh' \subseteq Users
<1>1. WalkOK(walk) /\ walk.kind \in Kinds /\ fresh \subseteq Users
  BY DEF TypeOK, WalkOK, Walk
<1>2. CASE ReadPeers
  <2>1. Peers(requests) \in SUBSET Users
    BY PeersTyped DEF TypeOK
  <2> QED BY <1>1, <1>2, <2>1 DEF ReadPeers, Walk, WalkOK
<1>3. CASE CountUsers
  <2> DEFINE n == Cardinality(Listing(walk.kind, walk.excluded))
  <2>1. n \in Nat
    BY <1>1, ListingTyped, UsersFinite
  <2> DEFINE w == [walk EXCEPT !.todo = @ \ {"count"}, !.total = n]
  <2>2. walk' = Found(w) /\ fresh' = fresh
    BY <1>3 DEF CountUsers
  <2> HIDE DEF n
  <2>3. WalkOK(w)
    BY <1>1, <2>1 DEF Walk, WalkOK
  <2> HIDE DEF w
  <2> QED BY <1>1, <2>2, <2>3, FoundTyped
<1>4. CASE FindUsers
  <2> DEFINE V == Listing(walk.kind, walk.excluded)
             w == [walk EXCEPT !.todo = @ \ {"find"}]
             p == Page(joined, V, walk.skip)
             n == Cardinality(V)
             w1 == IF walk.paged THEN [w EXCEPT !.items = p] ELSE [w EXCEPT !.items = V, !.total = n]
  <2>1. walk' = Found(w1) /\ fresh' = fresh
    BY <1>4 DEF FindUsers
  <2>2. V \in SUBSET Users /\ (walk.kind # "users" => Me \notin V)
    BY <1>1, ListingTyped
  <2>3. p \in SUBSET V
    BY DEF Page
  <2>4. n \in Nat
    BY <2>2, UsersFinite
  <2> HIDE DEF V, p, n
  <2>5. WalkOK(w1)
    BY <1>1, <2>2, <2>3, <2>4 DEF Walk, WalkOK
  <2> HIDE DEF w1
  <2> QED BY <1>1, <2>1, <2>5, FoundTyped
<1>5. CASE ReadConnections
  <2> DEFINE w == [walk EXCEPT !.todo = @ \ {"connections"},
                               !.connected = {u \in walk.items : connection[u] # "none"}]
  <2>1. walk' = Detailed(w) /\ fresh' = fresh
    BY <1>5 DEF ReadConnections
  <2>2. WalkOK(w)
    BY <1>1 DEF Walk, WalkOK
  <2> HIDE DEF w
  <2> QED BY <1>1, <2>1, <2>2, DetailedTyped
<1>6. CASE ReadRequests
  <2> DEFINE w == [walk EXCEPT !.todo = @ \ {"requests"},
                  !.asked = {u \in walk.items :
                        \E r \in requests : r.friend /\ r.actor = Me /\ r.target = u}]
  <2>1. walk' = Detailed(w) /\ fresh' = fresh
    BY <1>6 DEF ReadRequests
  <2>2. WalkOK(w)
    BY <1>1 DEF Walk, WalkOK
  <2> HIDE DEF w
  <2> QED BY <1>1, <2>1, <2>2, DetailedTyped
<1>7. CASE TurnPage
  <2>1. CASE walk.paged /\ walk.skip + Limit < walk.total
    <3>1. [walk EXCEPT !.skip = @ + Limit] \in Walk
      BY <1>1, BoundsAssumption DEF Walk, WalkOK
    <3> QED BY <1>7, <2>1, <3>1, AskTyped DEF TurnPage
  <2>2. CASE ~(walk.paged /\ walk.skip + Limit < walk.total)
    BY <1>1, <1>7, <2>2 DEF TurnPage, Walk, WalkOK
  <2> QED BY <2>1, <2>2
<1> QED BY <1>2, <1>3, <1>4, <1>5, <1>6, <1>7

LEMMA NumberNext ==
    ASSUME NEW number, Numbering(number), NEW u \in Users, number[u] = 0
    PROVE  Numbering([number EXCEPT ![u] = Cardinality(Registered(number)) + 1])
<1> DEFINE R == Registered(number)
           n == Cardinality(R)
           next == [number EXCEPT ![u] = n + 1]
<1>1. R \in SUBSET Users /\ u \notin R /\ number \in [Users -> Nat] /\ n \in Nat
  BY UsersFinite DEF Registered, Numbering
<1>2. next \in [Users -> Nat]
  BY <1>1
<1>3. Registered(next) = R \cup {u}
  BY <1>1 DEF Registered
<1>4. Cardinality(Registered(next)) = n + 1
  BY <1>1, <1>3, UsersFinite, FS_AddElement
<1>5. \A v \in Users : number[v] <= n
  BY DEF Numbering
<1> HIDE DEF n
<1>6. \A v \in Users : next[v] <= n + 1
  BY <1>1, <1>5
<1>7. ASSUME NEW v \in Registered(next), NEW w \in Registered(next), next[v] = next[w]
      PROVE  v = w
  <2>1. v \in R \cup {u} /\ w \in R \cup {u} /\ v \in Users /\ w \in Users
    BY <1>1, <1>3
  <2>2. CASE v = u \/ w = u
    <3>1. \A x \in R : next[x] # n + 1
      BY <1>1, <1>5
    <3> QED BY <1>1, <1>7, <2>1, <2>2, <3>1
  <2>3. CASE v # u /\ w # u
    BY <1>1, <1>7, <2>1, <2>3 DEF Numbering
  <2> QED BY <2>2, <2>3
<1> QED BY <1>2, <1>4, <1>6, <1>7 DEF Numbering, n

LEMMA BelongsTyped ==
    ASSUME NEW kind, NEW rs, NEW st
    PROVE  Belongs(kind, rs, st) \in SUBSET Users
BY DEF Belongs

LEMMA OutsideTyped ==
    ASSUME TypeOK, NEW st, NEW rs \in SUBSET Request, Outside(st, rs)
    PROVE  /\ walk' = walk
           /\ outside' \in 0..MaxOutside
           /\ requests' \subseteq Request
           /\ steady' \subseteq Users /\ fresh' \subseteq Users
           /\ came' \in Nat /\ left' \in Nat
<1> DEFINE before == Belongs("users", requests, status)
           after  == Belongs("users", rs, st)
           new    == Peers(rs) \ Peers(requests)
           over   == Peers(requests) \ Peers(rs)
<1>1. /\ before \in SUBSET Users /\ after \in SUBSET Users /\ new \in SUBSET Users
      /\ over \in SUBSET Users
  BY PeersTyped, BelongsTyped DEF TypeOK
<1>2. /\ Cardinality(before \ after) \in Nat /\ Cardinality(after \ before) \in Nat
      /\ Cardinality(new) \in Nat /\ Cardinality(over) \in Nat
  BY <1>1, UsersFinite
<1>3. \/ UNCHANGED <<steady, came, left, fresh>>
      \/ /\ steady' = steady \cap Belongs(walk.kind, rs, st)
         /\ came' = came + Cardinality(after \ before) + Cardinality(over)
         /\ left' = left + Cardinality(before \ after) + Cardinality(new)
         /\ fresh' = fresh \cup new
  BY DEF Outside
<1>4. outside < MaxOutside /\ outside' = outside + 1 /\ requests' = rs /\ walk' = walk
  BY DEF Outside
<1> HIDE DEF before, after, new, over
<1> QED BY <1>1, <1>2, <1>3, <1>4, BoundsAssumption DEF TypeOK

LEMMA InitTyped == Init => TypeOK
<1> SUFFICES ASSUME Init PROVE TypeOK
  OBVIOUS
<1>1. joined = Known /\ Numbering(joined)
  BY KnownAssumption DEF Init
<1>2. /\ status \in [Users -> {"absent", "active", "blocked", "gone"}]
      /\ \A u \in Users : status[u] = "absent" <=> joined[u] = 0
  BY <1>1 DEF Init
<1>3. requests \subseteq Request
  BY RequestsAssumption DEF Init
<1>4. walk \in Walk /\ Me \notin walk.items
  BY DEF Init, Nowhere, Walk, Kinds
<1>5. outside \in 0..MaxOutside
  BY BoundsAssumption DEF Init
<1> QED BY <1>1, <1>2, <1>3, <1>4, <1>5 DEF Init, TypeOK

LEMMA StepTyped == TypeOK /\ [Next]_vars => TypeOK'
<1> SUFFICES ASSUME TypeOK, [Next]_vars PROVE TypeOK'
  OBVIOUS
<1> USE DEF docs
<1>1. CASE UNCHANGED vars
  BY <1>1 DEF TypeOK, vars, Numbering, Registered
<1>2. ASSUME NEW kind \in Kinds, NEW paged \in BOOLEAN, StartWalk(kind, paged)
      PROVE  TypeOK'
  <2>1. [Nowhere EXCEPT !.kind = kind, !.paged = paged] \in Walk
    BY DEF Nowhere, Walk
  <2>2. WalkOK(walk') /\ UNCHANGED <<docs, outside>> /\ fresh' = {}
    BY <1>2, <2>1, AskTyped DEF StartWalk
  <2>3. steady' \in SUBSET Users /\ came' = 0 /\ left' = 0
    BY <1>2, BelongsTyped DEF StartWalk
  <2> QED BY <2>2, <2>3 DEF TypeOK, WalkOK, Numbering, Registered
<1>3. CASE ReadPeers \/ CountUsers \/ FindUsers \/ ReadConnections \/ ReadRequests \/ TurnPage
  <2>1. WalkOK(walk') /\ fresh' \subseteq Users
    BY <1>3, WalkTyped
  <2>2. UNCHANGED <<docs, outside, steady, came, left>>
    BY <1>3 DEF ReadPeers, CountUsers, FindUsers, ReadConnections, ReadRequests, TurnPage
  <2> QED BY <2>1, <2>2 DEF TypeOK, WalkOK, Numbering, Registered
<1>4. ASSUME NEW u \in Users, Register(u)
      PROVE  TypeOK'
  <2>1. /\ status[u] = "absent" /\ status' = [status EXCEPT ![u] = "active"]
        /\ joined' = [joined EXCEPT ![u] = Cardinality(Registered(joined)) + 1]
        /\ UNCHANGED connection
    BY <1>4 DEF Register, Outside
  <2>2. Numbering(joined)'
    BY <2>1, NumberNext DEF TypeOK
  <2>3. /\ status' \in [Users -> {"absent", "active", "blocked", "gone"}]
        /\ \A v \in Users : status'[v] = "absent" <=> joined'[v] = 0
    <3>1. Cardinality(Registered(joined)) \in Nat
      BY UsersFinite DEF Registered
    <3>2. Cardinality(Registered(joined)) + 1 # 0
      BY <3>1
    <3>3. joined \in [Users -> Nat]
      BY DEF TypeOK, Numbering
    <3> QED BY <2>1, <3>2, <3>3 DEF TypeOK
  <2>4. /\ walk' = walk /\ outside' \in 0..MaxOutside /\ requests' \subseteq Request
        /\ steady' \subseteq Users /\ fresh' \subseteq Users /\ came' \in Nat /\ left' \in Nat
    BY <1>4, OutsideTyped DEF Register, TypeOK
  <2> QED BY <2>1, <2>2, <2>3, <2>4 DEF TypeOK
<1>5. ASSUME NEW u \in Users, NEW new \in {"active", "blocked", "gone"}, SetStatus(u, new)
      PROVE  TypeOK'
  <2>1. /\ status[u] # "absent" /\ status' = [status EXCEPT ![u] = new]
        /\ UNCHANGED <<joined, connection>>
    BY <1>5 DEF SetStatus, Outside
  <2>2. Numbering(joined)'
    BY <2>1 DEF TypeOK, Numbering, Registered
  <2>3. /\ status' \in [Users -> {"absent", "active", "blocked", "gone"}]
        /\ \A v \in Users : status'[v] = "absent" <=> joined'[v] = 0
    BY <2>1 DEF TypeOK
  <2>4. /\ walk' = walk /\ outside' \in 0..MaxOutside /\ requests' \subseteq Request
        /\ steady' \subseteq Users /\ fresh' \subseteq Users /\ came' \in Nat /\ left' \in Nat
    BY <1>5, OutsideTyped DEF SetStatus, TypeOK
  <2> QED BY <2>1, <2>2, <2>3, <2>4 DEF TypeOK
<1>6. ASSUME NEW rs \in SUBSET Request, Outside(status, rs),
             connection' \in [Users -> {"none", "open", "deleted"}], UNCHANGED joined
      PROVE  TypeOK'
  <2>1. status' = status
    BY <1>6 DEF Outside
  <2>2. /\ walk' = walk /\ outside' \in 0..MaxOutside /\ requests' \subseteq Request
        /\ steady' \subseteq Users /\ fresh' \subseteq Users /\ came' \in Nat /\ left' \in Nat
    BY <1>6, OutsideTyped
  <2> QED BY <1>6, <2>1, <2>2 DEF TypeOK, Numbering, Registered
<1>7. ASSUME NEW r \in Asks, Relate(r)
      PROVE  TypeOK'
  <2>1. requests \cup {r} \in SUBSET Request
    BY RequestsAssumption DEF TypeOK
  <2> QED BY <1>6, <1>7, <2>1 DEF Relate, TypeOK
<1>8. ASSUME NEW r \in requests, Accept(r)
      PROVE  TypeOK'
  <2>1. (requests \ {r}) \cup {[r EXCEPT !.status = "accepted"]} \in SUBSET Request
    BY DEF TypeOK, Request
  <2>2. connection' \in [Users -> {"none", "open", "deleted"}]
    BY <1>8 DEF Accept, TypeOK
  <2> QED BY <1>6, <1>8, <2>1, <2>2 DEF Accept
<1>9. ASSUME NEW r \in requests, Withdraw(r)
      PROVE  TypeOK'
  <2>1. requests \ {r} \in SUBSET Request
    BY DEF TypeOK
  <2>2. connection' \in [Users -> {"none", "open", "deleted"}]
    BY <1>9 DEF Withdraw, TypeOK
  <2> QED BY <1>6, <1>9, <2>1, <2>2 DEF Withdraw
<1> QED BY <1>1, <1>2, <1>3, <1>4, <1>5, <1>7, <1>8, <1>9 DEF Next

\* Every state of the directory, of the walk and of the histories has its type, and users are
\* numbered in the order of their creation, each with a number of its own.
THEOREM Typed == Spec => []TypeOK
BY InitTyped, StepTyped, PTL DEF Spec

-----------------------------------------------------------------------------
(* The account of a walk *)

\* Of those of S that are yet to be seen, no more have been passed over than reasons to leave
\* the listing V are on record, one of them for each peer of P that the request at work does
\* not leave out; no more were seen twice, or may still be, than reasons to come into it, one
\* for each of E that it leaves out though no longer a peer.
Account(V, P, E, number, S, seen, twice, f, c, l) ==
    /\ S \subseteq V
    /\ Cardinality(Passed(number, V, S \ seen, f)) + Cardinality(P \ E) <= l
    /\ twice + Cardinality(Ahead(number, V, seen, f)) + Cardinality(E \ P) <= c

\* An account stays in order when the listing changes, and every change is on record.
LEMMA AccountChange ==
    ASSUME NEW number \in [Users -> Nat], NEW V \in SUBSET Users, NEW W \in SUBSET Users,
           Apart(number, V), Apart(number, W),
           NEW P \in SUBSET Users, NEW Q \in SUBSET Users,
           NEW E \in SUBSET Users, NEW F \in SUBSET Users,
           NEW S \in SUBSET Users, NEW T \in SUBSET (S \cap W), NEW seen \in SUBSET Users,
           NEW twice \in Nat, NEW f \in Nat,
           NEW c \in Nat, NEW l \in Nat, NEW c2 \in Nat, NEW l2 \in Nat,
           Account(V, P, E, number, S, seen, twice, f, c, l),
           Cardinality(V \ W) + Cardinality(Q \ F) <= Cardinality(P \ E) + (l2 - l),
           Cardinality(W \ V) + Cardinality(F \ Q) <= Cardinality(E \ P) + (c2 - c)
    PROVE  Account(W, Q, F, number, T, seen, twice, f, c2, l2)
<1> DEFINE m1 == Cardinality(Passed(number, V, S \ seen, f))
           m2 == Cardinality(Passed(number, W, T \ seen, f))
           m3 == Cardinality(Passed(number, V, T \ seen, f))
           a1 == Cardinality(Ahead(number, V, seen, f))
           a2 == Cardinality(Ahead(number, W, seen, f))
           out == Cardinality(V \ W)
           in == Cardinality(W \ V)
           pe == Cardinality(P \ E)
           ep == Cardinality(E \ P)
           qf == Cardinality(Q \ F)
           fq == Cardinality(F \ Q)
<1>1. S \subseteq V /\ m1 + pe <= l /\ twice + a1 + ep <= c
  BY DEF Account
<1>2. m2 <= m3 + out
  <2>1. (T \ seen) \in SUBSET (V \cap W)
    BY <1>1
  <2> QED BY <2>1, Shrink
<1>3. m3 <= m1
  <2>1. /\ Passed(number, V, T \ seen, f) \in SUBSET Passed(number, V, S \ seen, f)
        /\ Passed(number, V, S \ seen, f) \in SUBSET Users
    BY DEF Passed
  <2> QED BY <2>1, Smaller
<1>4. a2 <= a1 + in
  BY Grow
<1>5. /\ m1 \in Nat /\ m2 \in Nat /\ m3 \in Nat /\ a1 \in Nat /\ a2 \in Nat /\ out \in Nat
      /\ in \in Nat /\ pe \in Nat /\ ep \in Nat /\ qf \in Nat /\ fq \in Nat
  <2>1. /\ Passed(number, V, S \ seen, f) \in SUBSET Users
        /\ Passed(number, V, T \ seen, f) \in SUBSET Users
        /\ Passed(number, W, T \ seen, f) \in SUBSET Users
        /\ Ahead(number, V, seen, f) \in SUBSET Users
        /\ Ahead(number, W, seen, f) \in SUBSET Users
    BY DEF Passed, Ahead
  <2> QED BY <2>1, UsersFinite
<1>6. out + qf <= pe + (l2 - l) /\ in + fq <= ep + (c2 - c)
  OBVIOUS
<1>7. m2 + qf <= l2 /\ twice + a2 + fq <= c2
  <2> HIDE DEF m1, m2, m3, a1, a2, out, in, pe, ep, qf, fq
  <2> QED BY <1>1, <1>2, <1>3, <1>4, <1>5, <1>6
<1> QED BY <1>7 DEF Account

\* The users of a page are seen, and the line moves behind them.
LEMMA AccountFind ==
    ASSUME NEW number \in [Users -> Nat], NEW V \in SUBSET Users,
           NEW P \in SUBSET Users, NEW E \in SUBSET Users, NEW S \in SUBSET Users,
           NEW seen \in SUBSET Users, NEW twice \in Nat, NEW skip \in Nat,
           NEW c \in Nat, NEW l \in Nat,
           Account(V, P, E, number, S, seen, twice, skip, c, l)
    PROVE  LET page == Page(number, V, skip)
           IN  Account(V, P, E, number, S, seen \cup page, twice + Cardinality(page \cap seen),
                       skip + Limit, c, l)
<1> DEFINE page == Page(number, V, skip)
           M1 == Passed(number, V, S \ seen, skip)
           M2 == Passed(number, V, S \ (seen \cup page), skip + Limit)
           A1 == Ahead(number, V, seen, skip)
           A2 == Ahead(number, V, seen \cup page, skip + Limit)
           again == page \cap seen
<1>0. Limit \in Nat /\ Limit > 0 /\ S \subseteq V
  BY BoundsAssumption DEF Account
<1>1. \A u \in V : u \in page <=> Rank(number, V, u) >= skip /\ Rank(number, V, u) < skip + Limit
  <2>1. ASSUME NEW u \in V
        PROVE  u \in page <=> Rank(number, V, u) >= skip /\ Rank(number, V, u) < skip + Limit
    <3>1. Rank(number, V, u) \in Nat
      BY RankType
    <3>2. u \in page <=> Rank(number, V, u) \in skip..(skip + Limit - 1)
      BY DEF Page
    <3> QED BY <1>0, <3>1, <3>2
  <2> QED BY <2>1
<1>2. page \in SUBSET V
  BY DEF Page
<1>3. \A u \in V : Rank(number, V, u) \in Nat
  BY RankType
<1>4. M2 \in SUBSET M1 /\ M1 \in SUBSET Users
  <2> HIDE DEF page
  <2>1. ASSUME NEW u \in M2 PROVE u \in M1
    <3>1. u \in V /\ u \in S /\ u \notin seen /\ u \notin page /\ Rank(number, V, u) < skip + Limit
      BY <1>0 DEF Passed
    <3>2. Rank(number, V, u) < skip
      BY <1>0, <1>1, <1>3, <3>1
    <3> QED BY <3>1, <3>2 DEF Passed
  <2> QED BY <2>1 DEF Passed
<1>5. A2 \cap again = {} /\ A2 \cup again \in SUBSET A1 /\ A1 \in SUBSET Users
  <2> HIDE DEF page
  <2>1. ASSUME NEW u \in A2 PROVE u \in A1 /\ u \notin again
    <3>1. u \in V /\ u \in seen \cup page /\ Rank(number, V, u) >= skip + Limit
      BY DEF Ahead
    <3>2. u \notin page /\ Rank(number, V, u) >= skip
      BY <1>0, <1>1, <1>3, <3>1
    <3> QED BY <3>1, <3>2 DEF Ahead
  <2>2. ASSUME NEW u \in again PROVE u \in A1
    BY <1>1, <1>2 DEF Ahead
  <2> QED BY <2>1, <2>2 DEF Ahead
<1> HIDE DEF M1, M2, A1, A2, again
<1>6. Cardinality(M2) <= Cardinality(M1)
  BY <1>4, Smaller
<1>7. Cardinality(A2) + Cardinality(again) <= Cardinality(A1)
  <2>1. A2 \in SUBSET Users /\ again \in SUBSET Users
    BY <1>5
  <2>2. Cardinality(A2 \cup again) = Cardinality(A2) + Cardinality(again)
    BY <1>5, <2>1, Together
  <2>3. Cardinality(A2 \cup again) <= Cardinality(A1)
    BY <1>5, Smaller
  <2> QED BY <2>2, <2>3
<1>8. /\ Cardinality(M1) \in Nat /\ Cardinality(M2) \in Nat /\ Cardinality(A1) \in Nat
      /\ Cardinality(A2) \in Nat /\ Cardinality(again) \in Nat
      /\ Cardinality(P \ E) \in Nat /\ Cardinality(E \ P) \in Nat
  BY <1>4, <1>5, UsersFinite
<1>9. Cardinality(M1) + Cardinality(P \ E) <= l /\ twice + Cardinality(A1) + Cardinality(E \ P) <= c
  BY DEF Account, M1, A1
<1>10. /\ Cardinality(M2) + Cardinality(P \ E) <= l
       /\ twice + Cardinality(again) + Cardinality(A2) + Cardinality(E \ P) <= c
  BY <1>6, <1>7, <1>8, <1>9
<1> QED BY <1>0, <1>10 DEF Account, M2, A2, again

\* Who is registered meanwhile is in no listing yet, and changes no rank.
LEMMA AccountNumbers ==
    ASSUME NEW V, NEW P, NEW E, NEW number, NEW next, NEW S, NEW seen, NEW twice, NEW f, NEW c, NEW l,
           \A u \in V : next[u] = number[u],
           Account(V, P, E, number, S, seen, twice, f, c, l)
    PROVE  Account(V, P, E, next, S, seen, twice, f, c, l)
<1>1. \A u \in V : Newer(next, V, u) = Newer(number, V, u)
  BY DEF Newer
<1>2. \A u \in V : Rank(next, V, u) = Rank(number, V, u)
  BY <1>1 DEF Rank
<1>3. S \subseteq V
  BY DEF Account
<1>4. /\ Passed(next, V, S \ seen, f) = Passed(number, V, S \ seen, f)
      /\ Ahead(next, V, seen, f) = Ahead(number, V, seen, f)
  BY <1>2, <1>3 DEF Passed, Ahead
<1> QED BY <1>4 DEF Account

\* When the line is behind as many users as there are said to be, what is left of the listing
\* has come into it since they were counted.
LEMMA AccountEnd ==
    ASSUME NEW number \in [Users -> Nat], NEW V \in SUBSET Users, Apart(number, V),
           NEW P \in SUBSET Users, NEW E \in SUBSET Users, NEW S \in SUBSET Users,
           NEW seen \in SUBSET Users, NEW twice \in Nat, NEW f \in Nat,
           NEW c \in Nat, NEW l \in Nat, NEW total \in Nat,
           Account(V, P, E, number, S, seen, twice, f, c, l),
           Cardinality(V) <= total + c, total <= f
    PROVE  Cardinality(S \ seen) <= l + c /\ twice <= c
<1> DEFINE M == Passed(number, V, S \ seen, f)
           A == Ahead(number, V, S \ seen, f)
<1>1. S \subseteq V
  BY DEF Account
<1>2. M \in SUBSET Users /\ A \in SUBSET Users /\ (S \ seen) \in SUBSET V
  BY <1>1 DEF Passed, Ahead
<1>3. (S \ seen) \in SUBSET (M \cup A)
  <2>1. ASSUME NEW u \in S \ seen PROVE u \in M \cup A
    <3>1. Rank(number, V, u) \in Nat /\ u \in V
      BY <1>1, RankType
    <3>2. Rank(number, V, u) < f \/ Rank(number, V, u) >= f
      BY <3>1
    <3> QED BY <3>1, <3>2 DEF Passed, Ahead
  <2> QED BY <2>1
<1>4. Cardinality(V) <= f + c
  BY UsersFinite
<1>5. Cardinality(A) <= c
  BY <1>2, <1>4, Behind
<1>6. Cardinality(S \ seen) <= Cardinality(M) + Cardinality(A)
  <2> HIDE DEF M, A
  <2> QED BY <1>2, <1>3, Covered
<1>7. /\ Cardinality(M) + Cardinality(P \ E) <= l
      /\ twice + Cardinality(Ahead(number, V, seen, f)) + Cardinality(E \ P) <= c
  BY DEF Account
<1>8. Ahead(number, V, seen, f) \in SUBSET Users
  BY DEF Ahead
<1>9. /\ Cardinality(M) \in Nat /\ Cardinality(A) \in Nat /\ Cardinality(S \ seen) \in Nat
      /\ Cardinality(P \ E) \in Nat /\ Cardinality(E \ P) \in Nat
      /\ Cardinality(Ahead(number, V, seen, f)) \in Nat
  BY <1>2, <1>8, UsersFinite
<1> HIDE DEF M, A
<1> QED BY <1>5, <1>6, <1>7, <1>9

-----------------------------------------------------------------------------
(* The walk *)

Walking(w) == w.pc \in {"peers", "read", "details", "turn"}
HasFound(w) == w.pc \in {"details", "turn"} \/ (w.pc = "read" /\ "find" \notin w.todo)
HasCounted(w) == w.pc \in {"details", "turn"} \/ (w.pc = "read" /\ "count" \notin w.todo)

\* Whom the request at work leaves out, or will.
LeftOut(w, rs) == IF w.kind = "friends" /\ w.pc # "peers" THEN w.excluded ELSE Peers(rs)

\* The listing that it reads.
Members(kind, excluded, st) == {u \in Users : Matches(kind, excluded, st, u)}
Current(w, rs, st) == Members(w.kind, LeftOut(w, rs), st)

Line(w) == IF HasFound(w) THEN w.skip + Limit ELSE w.skip
Seen(w) == w.seen \cup w.items
Twice(w) == IF w.pc = "turn" THEN w.twice ELSE w.twice + Cardinality(w.items \cap w.seen)

\* What a request has done at each of its stages.
Stage(w) ==
    /\ w.pc = "peers" => w.kind = "friends" /\ w.todo = Reads(w.paged)
    /\ w.pc = "read" => w.todo \subseteq Reads(w.paged)
    /\ w.pc = "details" => w.kind = "all"
    /\ ~HasFound(w) => w.items = {}
    /\ w.pc = "turn" => w.items \subseteq w.seen

\* Of a walk page by page the account is in order, and what has come since the count is on
\* record.
Paged(w, rs, st, number, S, c, l) ==
    /\ Account(Current(w, rs, st), Peers(rs), LeftOut(w, rs), number, S, Seen(w), Twice(w),
               Line(w), c, l)
    /\ HasCounted(w) => Cardinality(Current(w, rs, st)) <= w.total + c

\* Without pages there is one request, and it finds all.
Whole(w, S) ==
    /\ w.twice = 0
    /\ w.pc # "turn" => w.seen = {}
    /\ HasFound(w) => S \subseteq Seen(w)

Walked(w, rs, st, number, S, c, l) ==
    /\ Stage(w)
    /\ S \subseteq Belongs(w.kind, rs, st)
    /\ S \subseteq Current(w, rs, st)
    /\ IF w.paged THEN Paged(w, rs, st, number, S, c, l) ELSE Whole(w, S)

PagesInv ==
    /\ Walking(walk) => Walked(walk, requests, status, joined, steady, came, left)
    /\ PagesAccounted

-----------------------------------------------------------------------------
\* Who is listed has been registered; no two of them share a number.
LEMMA MembersApart ==
    ASSUME NEW number, Numbering(number), NEW st,
           \A u \in Users : number[u] = 0 => st[u] = "absent",
           NEW kind \in Kinds, NEW excluded
    PROVE  /\ Members(kind, excluded, st) \in SUBSET Users
           /\ Apart(number, Members(kind, excluded, st))
           /\ number \in [Users -> Nat]
<1>1. \A u \in Members(kind, excluded, st) : u \in Users /\ st[u] = "active"
  BY DEF Members, Matches, Offered, Other, Active, Kinds
<1>2. \A u \in Members(kind, excluded, st) : u \in Registered(number)
  BY <1>1 DEF Registered
<1> QED BY <1>1, <1>2 DEF Numbering, Apart

LEMMA MembersKnown ==
    ASSUME TypeOK, NEW kind \in Kinds, NEW excluded
    PROVE  /\ Members(kind, excluded, status) \in SUBSET Users
           /\ Apart(joined, Members(kind, excluded, status))
           /\ joined \in [Users -> Nat]
BY MembersApart DEF TypeOK

\* Only the listing of findFriends depends on whom it leaves out.
LEMMA MembersSame ==
    ASSUME NEW kind \in Kinds, kind # "friends", NEW a, NEW b, NEW st
    PROVE  Members(kind, a, st) = Members(kind, b, st)
BY DEF Members, Matches, Kinds

LEMMA MembersMove ==
    ASSUME NEW kind \in Kinds, NEW a, NEW b, NEW st
    PROVE  Members(kind, a, st) \ Members(kind, b, st) \subseteq b \ a
<1>1. CASE kind = "friends"
  BY <1>1 DEF Members, Matches, Offered
<1>2. CASE kind # "friends"
  BY <1>2, MembersSame
<1> QED BY <1>1, <1>2

LEMMA ListingCurrent ==
    ASSUME NEW w \in Walk, w.pc # "peers", NEW rs
    PROVE  Listing(w.kind, w.excluded) = Current(w, rs, status)
<1>1. w.kind \in Kinds
  BY DEF Walk
<1>2. Listing(w.kind, w.excluded) = Members(w.kind, w.excluded, status)
  BY DEF Listing, Members
<1>3. CASE w.kind = "friends"
  BY <1>2, <1>3 DEF Current, LeftOut
<1>4. CASE w.kind # "friends"
  BY <1>1, <1>2, <1>4, MembersSame DEF Current
<1> QED BY <1>3, <1>4

LEMMA WalkedTyped ==
    ASSUME NEW w, WalkOK(w), NEW rs \in SUBSET Request
    PROVE  /\ Seen(w) \in SUBSET Users /\ Twice(w) \in Nat /\ Line(w) \in Nat
           /\ LeftOut(w, rs) \in SUBSET Users /\ Peers(rs) \in SUBSET Users
           /\ w.kind \in Kinds /\ w.total \in Nat /\ w.skip \in Nat /\ w.paged \in BOOLEAN
           /\ w.items \in SUBSET Users /\ w.seen \in SUBSET Users /\ w.twice \in Nat
<1>1. /\ w.items \in SUBSET Users /\ w.seen \in SUBSET Users /\ w.twice \in Nat
      /\ w.kind \in Kinds /\ w.total \in Nat /\ w.skip \in Nat /\ w.paged \in BOOLEAN
      /\ w.excluded \in SUBSET Users
  BY DEF WalkOK, Walk
<1>2. Seen(w) \in SUBSET Users /\ Line(w) \in Nat
  BY <1>1, BoundsAssumption DEF Seen, Line
<1>3. Twice(w) \in Nat
  BY <1>1, UsersFinite DEF Twice
<1>4. LeftOut(w, rs) \in SUBSET Users /\ Peers(rs) \in SUBSET Users
  BY <1>1, PeersTyped DEF LeftOut
<1> QED BY <1>1, <1>2, <1>3, <1>4

-----------------------------------------------------------------------------
(* The steps of a request *)

\* Taking the answer moves its users to those seen, and nothing else.
LEMMA AnsweredWalked ==
    ASSUME NEW w, WalkOK(w), w.pc \in {"read", "details"}, HasFound(w), HasCounted(w),
           NEW rs, NEW st, NEW number, NEW S, NEW c, NEW l,
           Walked(w, rs, st, number, S, c, l)
    PROVE  Walked(Answered(w), rs, st, number, S, c, l)
<1> DEFINE n == w.twice + Cardinality(w.items \cap w.seen)
           all == w.seen \cup w.items
           a == [w EXCEPT !.pc = "turn", !.seen = all, !.twice = n]
<1>1. Answered(w) = a
  BY DEF Answered
<1>2. /\ a.pc = "turn" /\ a.seen = all /\ a.twice = n /\ a.items = w.items /\ a.kind = w.kind
      /\ a.paged = w.paged /\ a.skip = w.skip /\ a.total = w.total /\ a.excluded = w.excluded
  BY DEF WalkOK, Walk
<1>3. w.pc # "peers" /\ w.pc # "turn"
  OBVIOUS
<1>4. /\ LeftOut(a, rs) = LeftOut(w, rs) /\ Seen(a) = Seen(w) /\ Twice(a) = Twice(w)
      /\ Line(a) = Line(w) /\ HasFound(a) /\ HasCounted(a)
  BY <1>2, <1>3 DEF LeftOut, Seen, Twice, Line, HasFound, HasCounted
<1>5. Current(a, rs, st) = Current(w, rs, st)
  BY <1>2, <1>4 DEF Current
<1>6. Stage(a)
  BY <1>2, <1>4 DEF Stage
<1>7. w.paged => Paged(a, rs, st, number, S, c, l)
  BY <1>2, <1>4, <1>5 DEF Walked, Paged
<1>8. ~w.paged => Whole(a, S)
  <2> SUFFICES ASSUME ~w.paged PROVE Whole(a, S)
    OBVIOUS
  <2>1. w.twice = 0 /\ w.seen = {} /\ S \subseteq Seen(w)
    BY <1>3 DEF Walked, Whole
  <2>2. n = 0
    <3>1. w.items \cap w.seen = {} /\ Cardinality({}) = 0
      BY <2>1, FS_EmptySet
    <3> QED BY <2>1, <3>1
  <2> QED BY <1>2, <1>4, <2>1, <2>2 DEF Whole
<1>9. a.paged = w.paged /\ a.kind = w.kind
  BY <1>2
<1> HIDE DEF a
<1> QED BY <1>1, <1>5, <1>6, <1>7, <1>8, <1>9 DEF Walked

LEMMA FoundWalked ==
    ASSUME NEW w, WalkOK(w), w.pc = "read",
           NEW rs, NEW st, NEW number, NEW S, NEW c, NEW l,
           Walked(w, rs, st, number, S, c, l)
    PROVE  Walked(Found(w), rs, st, number, S, c, l)
<1>1. CASE w.todo # {}
  BY <1>1 DEF Found
<1>2. CASE w.todo = {} /\ w.kind = "all" /\ w.items # {}
  <2> DEFINE a == [w EXCEPT !.pc = "details", !.todo = {"connections", "requests"}]
  <2>1. Found(w) = a
    BY <1>2 DEF Found
  <2>2. /\ a.pc = "details" /\ a.seen = w.seen /\ a.twice = w.twice /\ a.items = w.items
        /\ a.kind = w.kind /\ a.paged = w.paged /\ a.skip = w.skip /\ a.total = w.total
    BY DEF WalkOK, Walk
  <2>3. /\ LeftOut(a, rs) = LeftOut(w, rs) /\ Seen(a) = Seen(w) /\ Twice(a) = Twice(w)
        /\ Line(a) = Line(w) /\ HasFound(a) /\ HasCounted(a) /\ HasFound(w) /\ HasCounted(w)
    BY <1>2, <2>2 DEF LeftOut, Seen, Twice, Line, HasFound, HasCounted
  <2>4. Current(a, rs, st) = Current(w, rs, st)
    BY <2>2, <2>3 DEF Current
  <2>5. Stage(a)
    BY <1>2, <2>2, <2>3 DEF Stage
  <2>6. w.paged => Paged(a, rs, st, number, S, c, l)
    BY <2>2, <2>3, <2>4 DEF Walked, Paged
  <2>7. ~w.paged => Whole(a, S)
    BY <2>2, <2>3 DEF Walked, Whole
  <2> HIDE DEF a
  <2> QED BY <2>1, <2>2, <2>4, <2>5, <2>6, <2>7 DEF Walked
<1>3. CASE w.todo = {} /\ ~(w.kind = "all" /\ w.items # {})
  <2>1. Found(w) = Answered(w)
    BY <1>3 DEF Found
  <2>2. HasFound(w) /\ HasCounted(w)
    BY <1>3 DEF HasFound, HasCounted
  <2> QED BY <2>1, <2>2, AnsweredWalked
<1> QED BY <1>1, <1>2, <1>3

LEMMA ReadPeersWalked ==
    ASSUME TypeOK, PagesInv, ReadPeers
    PROVE  PagesInv'
<1> DEFINE a == [walk EXCEPT !.pc = "read", !.excluded = Peers(requests)]
<1>1. /\ walk.pc = "peers" /\ walk' = a /\ UNCHANGED <<docs, steady, came, left>>
      /\ WalkOK(walk)
  BY DEF ReadPeers, TypeOK, WalkOK
<1>2. /\ a.pc = "read" /\ a.seen = walk.seen /\ a.twice = walk.twice /\ a.items = walk.items
      /\ a.kind = walk.kind /\ a.paged = walk.paged /\ a.skip = walk.skip /\ a.total = walk.total
      /\ a.excluded = Peers(requests) /\ a.todo = walk.todo
  BY <1>1 DEF WalkOK, Walk
<1>3. Walked(walk, requests, status, joined, steady, came, left)
  BY <1>1 DEF PagesInv, Walking
<1>4. walk.kind = "friends" /\ walk.todo = Reads(walk.paged) /\ ~HasFound(walk) /\ ~HasFound(a)
  BY <1>1, <1>2, <1>3 DEF Walked, Stage, HasFound, Reads
<1>5. /\ LeftOut(a, requests) = LeftOut(walk, requests) /\ Seen(a) = Seen(walk)
      /\ Twice(a) = Twice(walk) /\ Line(a) = Line(walk)
  BY <1>1, <1>2, <1>4 DEF LeftOut, Seen, Twice, Line
<1>6. Current(a, requests, status) = Current(walk, requests, status)
  BY <1>2, <1>5 DEF Current
<1>7. Stage(a)
  BY <1>2, <1>3, <1>4 DEF Stage, Walked
<1>8. walk.paged => Paged(a, requests, status, joined, steady, came, left)
  <2> SUFFICES ASSUME walk.paged PROVE Paged(a, requests, status, joined, steady, came, left)
    OBVIOUS
  <2>1. ~HasCounted(a)
    BY <1>2, <1>4 DEF HasCounted, Reads
  <2> QED BY <1>3, <1>5, <1>6, <2>1 DEF Walked, Paged
<1>9. ~walk.paged => Whole(a, steady)
  BY <1>1, <1>2, <1>3, <1>4 DEF Walked, Whole
<1> HIDE DEF a
<1>10. Walked(a, requests, status, joined, steady, came, left)
  BY <1>2, <1>3, <1>6, <1>7, <1>8, <1>9 DEF Walked
<1> QED BY <1>1, <1>2, <1>10 DEF PagesInv, PagesAccounted, docs

LEMMA CountWalked ==
    ASSUME TypeOK, PagesInv, CountUsers
    PROVE  PagesInv'
<1> DEFINE n == Cardinality(Listing(walk.kind, walk.excluded))
           a == [walk EXCEPT !.todo = @ \ {"count"}, !.total = n]
<1>1. /\ walk.pc = "read" /\ walk' = Found(a) /\ UNCHANGED <<docs, steady, came, left>>
      /\ WalkOK(walk) /\ "count" \in walk.todo
  BY DEF CountUsers, TypeOK, WalkOK
<1>2. n \in Nat /\ n = Cardinality(Current(walk, requests, status))
  <2>1. walk \in Walk /\ walk.kind \in Kinds
    BY <1>1 DEF WalkOK, Walk
  <2> QED BY <1>1, <2>1, ListingCurrent, ListingTyped, UsersFinite
<1> HIDE DEF n
<1>3. /\ a.pc = "read" /\ a.seen = walk.seen /\ a.twice = walk.twice /\ a.items = walk.items
      /\ a.kind = walk.kind /\ a.paged = walk.paged /\ a.skip = walk.skip /\ a.total = n
      /\ a.excluded = walk.excluded /\ a.todo = walk.todo \ {"count"} /\ WalkOK(a)
  BY <1>1, <1>2 DEF WalkOK, Walk
<1> HIDE DEF a
<1>4. Walked(walk, requests, status, joined, steady, came, left)
  BY <1>1 DEF PagesInv, Walking
<1>5. /\ LeftOut(a, requests) = LeftOut(walk, requests) /\ Seen(a) = Seen(walk)
      /\ Twice(a) = Twice(walk) /\ Line(a) = Line(walk) /\ HasFound(a) = HasFound(walk)
  BY <1>1, <1>3 DEF LeftOut, Seen, Twice, Line, HasFound
<1>6. Current(a, requests, status) = Current(walk, requests, status)
  BY <1>3, <1>5 DEF Current
<1>7. Stage(a)
  BY <1>1, <1>3, <1>4, <1>5 DEF Stage, Walked
<1>8. walk.paged => Paged(a, requests, status, joined, steady, came, left)
  <2>1. Cardinality(Current(a, requests, status)) <= a.total + came
    BY <1>2, <1>3, <1>6 DEF TypeOK
  <2> QED BY <1>4, <1>5, <1>6, <2>1 DEF Walked, Paged
<1>9. ~walk.paged => Whole(a, steady)
  BY <1>1, <1>3, <1>4, <1>5 DEF Walked, Whole
<1>10. Walked(a, requests, status, joined, steady, came, left)
  BY <1>3, <1>4, <1>6, <1>7, <1>8, <1>9 DEF Walked
<1>11. Walked(Found(a), requests, status, joined, steady, came, left)
  BY <1>3, <1>10, FoundWalked
<1>12. walk'.pc # "end"
  BY <1>1, <1>3 DEF Found, Answered, WalkOK, Walk
<1> QED BY <1>1, <1>11, <1>12 DEF PagesInv, PagesAccounted, docs

LEMMA FindWalked ==
    ASSUME TypeOK, PagesInv, FindUsers
    PROVE  PagesInv'
<1> DEFINE V == Current(walk, requests, status)
           w == [walk EXCEPT !.todo = @ \ {"find"}]
           page == Page(joined, V, walk.skip)
           n == Cardinality(V)
           a == IF walk.paged THEN [w EXCEPT !.items = page] ELSE [w EXCEPT !.items = V, !.total = n]
           E == LeftOut(walk, requests)
<1>1. /\ walk.pc = "read" /\ UNCHANGED <<docs, steady, came, left>>
      /\ WalkOK(walk) /\ "find" \in walk.todo
  BY DEF FindUsers, TypeOK, WalkOK
<1>2. walk' = Found(a)
  <2>1. Listing(walk.kind, walk.excluded) = V
    BY <1>1, ListingCurrent DEF WalkOK
  <2> QED BY <2>1 DEF FindUsers
<1>3. /\ V \in SUBSET Users /\ n \in Nat /\ page \in SUBSET Users
      /\ walk.kind # "users" => Me \notin V
  <2>1. walk \in Walk /\ walk.kind \in Kinds
    BY <1>1 DEF WalkOK, Walk
  <2>2. V = Listing(walk.kind, walk.excluded)
    BY <1>1, <2>1, ListingCurrent
  <2>3. V \in SUBSET Users /\ (walk.kind # "users" => Me \notin V)
    BY <2>1, <2>2, ListingTyped
  <2> QED BY <2>3, UsersFinite DEF Page
<1>4. page \in SUBSET V
  BY DEF Page
<1>5. Walked(walk, requests, status, joined, steady, came, left)
  BY <1>1 DEF PagesInv, Walking
<1>6. /\ WalkOK(a) /\ a.pc = "read" /\ a.seen = walk.seen /\ a.twice = walk.twice
      /\ a.items = (IF walk.paged THEN page ELSE V)
      /\ a.kind = walk.kind /\ a.paged = walk.paged /\ a.skip = walk.skip
      /\ a.total = (IF walk.paged THEN walk.total ELSE n)
      /\ a.excluded = walk.excluded /\ a.todo = walk.todo \ {"find"}
  <2> HIDE DEF V, page, n
  <2> QED BY <1>1, <1>3, <1>4 DEF WalkOK, Walk
<1> HIDE DEF a, w
<1>7. ~HasFound(walk) /\ HasFound(a) /\ HasCounted(a) = HasCounted(walk) /\ walk.items = {}
  BY <1>1, <1>5, <1>6 DEF HasFound, HasCounted, Walked, Stage
<1>8. LeftOut(a, requests) = E
  BY <1>1, <1>6 DEF LeftOut
<1>9. Current(a, requests, status) = V
  BY <1>6, <1>8 DEF Current
<1>10. Stage(a)
  BY <1>1, <1>5, <1>6, <1>7 DEF Stage, Walked
<1>11. walk.paged => Paged(a, requests, status, joined, steady, came, left)
  <2> SUFFICES ASSUME walk.paged PROVE Paged(a, requests, status, joined, steady, came, left)
    OBVIOUS
  <2> DEFINE P == Peers(requests)
  <2>1. /\ Seen(walk) = walk.seen /\ Twice(walk) = walk.twice /\ Line(walk) = walk.skip
    <3>1. walk.items \cap walk.seen = {} /\ Cardinality({}) = 0
      BY <1>7, FS_EmptySet
    <3>2. walk.twice \in Nat
      BY <1>1 DEF WalkOK, Walk
    <3> QED BY <1>1, <1>7, <3>1, <3>2 DEF Seen, Twice, Line
  <2>2. /\ Seen(a) = walk.seen \cup page /\ Line(a) = walk.skip + Limit
        /\ Twice(a) = walk.twice + Cardinality(page \cap walk.seen)
    <3> HIDE DEF page
    <3> QED BY <1>6, <1>7 DEF Seen, Twice, Line
  <2>3. Account(V, P, E, joined, steady, walk.seen, walk.twice, walk.skip, came, left)
    BY <1>5, <2>1 DEF Walked, Paged
  <2>4. /\ P \in SUBSET Users /\ E \in SUBSET Users /\ walk.seen \in SUBSET Users
        /\ walk.twice \in Nat /\ walk.skip \in Nat /\ steady \in SUBSET Users
        /\ came \in Nat /\ left \in Nat /\ joined \in [Users -> Nat]
    BY <1>1, WalkedTyped DEF TypeOK, Numbering
  <2> HIDE DEF V, P, E
  <2>5. Account(V, P, E, joined, steady, walk.seen \cup page,
                walk.twice + Cardinality(page \cap walk.seen), walk.skip + Limit, came, left)
    BY <1>3, <2>3, <2>4, AccountFind
  <2>6. HasCounted(a) => Cardinality(V) <= a.total + came
    BY <1>5, <1>6, <1>7 DEF Walked, Paged, V
  <2> HIDE DEF page
  <2> QED BY <1>8, <1>9, <2>2, <2>5, <2>6 DEF Paged, P
<1>12. ~walk.paged => Whole(a, steady)
  BY <1>1, <1>5, <1>6 DEF Walked, Whole, Seen
<1>13. Walked(a, requests, status, joined, steady, came, left)
  BY <1>5, <1>6, <1>9, <1>10, <1>11, <1>12 DEF Walked
<1>14. Walked(Found(a), requests, status, joined, steady, came, left)
  BY <1>6, <1>13, FoundWalked
<1>15. walk'.pc # "end"
  BY <1>2, <1>6 DEF Found, Answered, WalkOK, Walk
<1> QED BY <1>1, <1>2, <1>14, <1>15 DEF PagesInv, PagesAccounted, docs

LEMMA DetailsWalked ==
    ASSUME TypeOK, PagesInv, ReadConnections \/ ReadRequests
    PROVE  PagesInv'
<1>1. PICK a : /\ walk' = Detailed(a) /\ WalkOK(a) /\ a.pc = "details" /\ a.seen = walk.seen
               /\ a.twice = walk.twice /\ a.items = walk.items /\ a.kind = walk.kind
               /\ a.paged = walk.paged /\ a.skip = walk.skip /\ a.total = walk.total
               /\ a.excluded = walk.excluded
  <2>1. WalkOK(walk)
    BY DEF TypeOK, WalkOK
  <2>2. CASE ReadConnections
    <3> DEFINE a == [walk EXCEPT !.todo = @ \ {"connections"},
                  !.connected = {u \in walk.items : connection[u] # "none"}]
    <3>1. walk' = Detailed(a) /\ walk.pc = "details"
      BY <2>2 DEF ReadConnections
    <3>2. /\ WalkOK(a) /\ a.pc = walk.pc /\ a.seen = walk.seen /\ a.twice = walk.twice
          /\ a.items = walk.items /\ a.kind = walk.kind /\ a.paged = walk.paged
          /\ a.skip = walk.skip /\ a.total = walk.total /\ a.excluded = walk.excluded
      BY <2>1 DEF WalkOK, Walk
    <3> HIDE DEF a
    <3> QED BY <3>1, <3>2
  <2>3. CASE ReadRequests
    <3> DEFINE a == [walk EXCEPT !.todo = @ \ {"requests"},
                  !.asked = {u \in walk.items :
                        \E r \in requests : r.friend /\ r.actor = Me /\ r.target = u}]
    <3>1. walk' = Detailed(a) /\ walk.pc = "details"
      BY <2>3 DEF ReadRequests
    <3>2. /\ WalkOK(a) /\ a.pc = walk.pc /\ a.seen = walk.seen /\ a.twice = walk.twice
          /\ a.items = walk.items /\ a.kind = walk.kind /\ a.paged = walk.paged
          /\ a.skip = walk.skip /\ a.total = walk.total /\ a.excluded = walk.excluded
      BY <2>1 DEF WalkOK, Walk
    <3> HIDE DEF a
    <3> QED BY <3>1, <3>2
  <2> QED BY <2>2, <2>3
<1>2. walk.pc = "details" /\ UNCHANGED <<docs, steady, came, left>> /\ WalkOK(walk)
  BY DEF ReadConnections, ReadRequests, TypeOK, WalkOK
<1>3. Walked(walk, requests, status, joined, steady, came, left)
  BY <1>2 DEF PagesInv, Walking
<1>4. /\ LeftOut(a, requests) = LeftOut(walk, requests) /\ Seen(a) = Seen(walk)
      /\ Twice(a) = Twice(walk) /\ Line(a) = Line(walk) /\ HasFound(a) /\ HasFound(walk)
      /\ HasCounted(a) /\ HasCounted(walk)
  BY <1>1, <1>2 DEF LeftOut, Seen, Twice, Line, HasFound, HasCounted
<1>5. Current(a, requests, status) = Current(walk, requests, status)
  BY <1>1, <1>4 DEF Current
<1>6. Stage(a)
  BY <1>1, <1>2, <1>3, <1>4 DEF Stage, Walked
<1>7. walk.paged => Paged(a, requests, status, joined, steady, came, left)
  BY <1>1, <1>3, <1>4, <1>5 DEF Walked, Paged
<1>8. ~walk.paged => Whole(a, steady)
  BY <1>1, <1>2, <1>3, <1>4 DEF Walked, Whole
<1>9. Walked(a, requests, status, joined, steady, came, left)
  BY <1>1, <1>3, <1>5, <1>6, <1>7, <1>8 DEF Walked
<1>10. Walked(Detailed(a), requests, status, joined, steady, came, left)
  BY <1>1, <1>4, <1>9, AnsweredWalked DEF Detailed
<1>11. walk'.pc # "end"
  BY <1>1 DEF Detailed, Answered, WalkOK, Walk
<1> QED BY <1>1, <1>2, <1>10, <1>11 DEF PagesInv, PagesAccounted, docs

LEMMA AskFields ==
    ASSUME NEW w \in Walk
    PROVE  LET a == Ask(w)
           IN  /\ a.pc = (IF w.kind = "friends" THEN "peers" ELSE "read")
               /\ a.todo = Reads(w.paged) /\ a.excluded = {} /\ a.items = {}
               /\ a.kind = w.kind /\ a.paged = w.paged /\ a.skip = w.skip
               /\ a.seen = w.seen /\ a.twice = w.twice
               /\ Stage(a) /\ ~HasFound(a) /\ (w.paged => ~HasCounted(a))
<1>1. "find" \in Reads(w.paged) /\ (w.paged => "count" \in Reads(w.paged))
  BY DEF Reads
<1> QED BY <1>1 DEF Ask, Walk, Stage, HasFound, HasCounted

\* Who is asked for at the next page is who was asked for at this, but for those that became
\* or ceased to be peers since, and that is on record.
LEMMA TurnWalked ==
    ASSUME TypeOK, PagesInv, TurnPage
    PROVE  PagesInv'
<1>1. /\ walk.pc = "turn" /\ UNCHANGED <<docs, steady, came, left>>
      /\ WalkOK(walk) /\ Walked(walk, requests, status, joined, steady, came, left)
  BY DEF TurnPage, TypeOK, WalkOK, PagesInv, Walking
<1> DEFINE V == Current(walk, requests, status)
           P == Peers(requests)
           E == LeftOut(walk, requests)
<1>2. /\ V \in SUBSET Users /\ P \in SUBSET Users /\ E \in SUBSET Users
      /\ Apart(joined, V) /\ joined \in [Users -> Nat]
      /\ walk.kind \in Kinds /\ walk.paged \in BOOLEAN /\ walk.skip \in Nat /\ walk.total \in Nat
      /\ walk.items \in SUBSET Users /\ walk.seen \in SUBSET Users /\ walk.twice \in Nat
      /\ steady \in SUBSET Users /\ came \in Nat /\ left \in Nat
      /\ requests \in SUBSET Request
  <2>1. requests \in SUBSET Request /\ walk.kind \in Kinds
    BY <1>1 DEF TypeOK, WalkOK, Walk
  <2> QED BY <1>1, <2>1, WalkedTyped, MembersKnown DEF TypeOK, Current
<1>3. /\ Seen(walk) = walk.seen /\ Twice(walk) = walk.twice /\ Line(walk) = walk.skip + Limit
      /\ HasFound(walk) /\ HasCounted(walk)
  BY <1>1 DEF Walked, Stage, Seen, Twice, Line, HasFound, HasCounted
<1>4. walk.paged =>
        /\ Account(V, P, E, joined, steady, walk.seen, walk.twice, walk.skip + Limit, came, left)
        /\ Cardinality(V) <= walk.total + came
  BY <1>1, <1>3 DEF Walked, Paged
<1>5. CASE walk.paged /\ walk.skip + Limit < walk.total
  <2> DEFINE w == [walk EXCEPT !.skip = @ + Limit]
             a == Ask(w)
             W == Current(a, requests, status)
  <2>1. walk' = a
    BY <1>5 DEF TurnPage
  <2>2. /\ w \in Walk /\ w.kind = walk.kind /\ w.paged = walk.paged /\ w.skip = walk.skip + Limit
        /\ w.seen = walk.seen /\ w.twice = walk.twice
    BY <1>1, BoundsAssumption DEF WalkOK, Walk
  <2> HIDE DEF w
  <2>3. /\ a.kind = walk.kind /\ a.paged /\ a.skip = walk.skip + Limit /\ a.items = {}
        /\ a.seen = walk.seen /\ a.twice = walk.twice /\ Stage(a) /\ ~HasFound(a) /\ ~HasCounted(a)
        /\ a.pc = (IF walk.kind = "friends" THEN "peers" ELSE "read")
    BY <1>5, <2>2, AskFields
  <2> HIDE DEF a
  <2>4. LeftOut(a, requests) = P
    BY <2>3 DEF LeftOut
  <2>5. W \in SUBSET Users /\ Apart(joined, W)
    BY <1>2, <2>3, MembersKnown DEF Current
  <2>6. (V \ W) \in SUBSET (P \ E) /\ (W \ V) \in SUBSET (E \ P)
    BY <1>2, <2>3, <2>4, MembersMove DEF Current
  <2>7. /\ Cardinality(V \ W) <= Cardinality(P \ E) /\ Cardinality(W \ V) <= Cardinality(E \ P)
        /\ Cardinality(V \ W) \in Nat /\ Cardinality(W \ V) \in Nat
        /\ Cardinality(P \ E) \in Nat /\ Cardinality(E \ P) \in Nat
    BY <1>2, <2>5, <2>6, Smaller, UsersFinite
  <2>8. steady \in SUBSET W /\ steady \subseteq Belongs(walk.kind, requests, status)
    <3>1. steady \subseteq Belongs(walk.kind, requests, status)
      BY <1>1 DEF Walked
    <3>2. Belongs(walk.kind, requests, status) = W
      <4>1. CASE walk.kind = "friends"
        BY <2>3, <2>4, <4>1 DEF Belongs, Current, Members
      <4>2. CASE walk.kind # "friends"
        BY <1>2, <2>3, <4>2 DEF Belongs, Current, Members, Matches, Kinds
      <4> QED BY <4>1, <4>2
    <3> QED BY <3>1, <3>2
  <2>9. P \ P = {} /\ Cardinality(P \ P) = 0 /\ steady \cap W = steady
    BY <2>8, FS_EmptySet
  <2>10. walk.skip + Limit \in Nat
    BY <1>2, BoundsAssumption
  <2>11. /\ Cardinality(V \ W) + Cardinality(P \ P) <= Cardinality(P \ E) + (left - left)
         /\ Cardinality(W \ V) + Cardinality(P \ P) <= Cardinality(E \ P) + (came - came)
    BY <1>2, <2>7, <2>9
  <2>12. Account(W, P, P, joined, steady, walk.seen, walk.twice, walk.skip + Limit, came, left)
    <3> DEFINE f == walk.skip + Limit
    <3>1. steady \in SUBSET (steady \cap W)
      BY <2>9
    <3>2. Account(V, P, E, joined, steady, walk.seen, walk.twice, f, came, left) /\ f \in Nat
      BY <1>4, <1>5, <2>10
    <3> HIDE DEF V, W, P, E, f
    <3>3. Account(W, P, P, joined, steady, walk.seen, walk.twice, f, came, left)
      BY <1>2, <2>5, <2>11, <3>1, <3>2, AccountChange
    <3> QED BY <3>3 DEF f
  <2>13. /\ Seen(a) = walk.seen /\ Line(a) = walk.skip + Limit /\ Twice(a) = walk.twice
    <3>1. {} \cap walk.seen = {} /\ Cardinality({}) = 0
      BY FS_EmptySet
    <3>2. a.items \cap a.seen = {}
      BY <2>3
    <3> QED BY <1>2, <2>3, <3>1, <3>2 DEF Seen, Line, Twice
  <2>14. Paged(a, requests, status, joined, steady, came, left)
    BY <2>3, <2>4, <2>12, <2>13 DEF Paged
  <2>15. Walked(a, requests, status, joined, steady, came, left)
    BY <2>3, <2>8, <2>14 DEF Walked
  <2>16. a.pc # "end"
    BY <2>3
  <2> QED BY <1>1, <2>1, <2>15, <2>16 DEF PagesInv, PagesAccounted, docs
<1>6. CASE ~(walk.paged /\ walk.skip + Limit < walk.total)
  <2>1. walk' = [walk EXCEPT !.pc = "end"]
    BY <1>6 DEF TurnPage
  <2>2. walk'.pc = "end" /\ walk'.seen = walk.seen /\ walk'.twice = walk.twice
    BY <1>1, <2>1 DEF WalkOK, Walk
  <2>3. Cardinality(steady \ walk.seen) <= left + came /\ walk.twice <= came
    <3>1. CASE walk.paged
      <4> DEFINE f == walk.skip + Limit
      <4>1. f \in Nat /\ walk.total <= f
        BY <1>2, <1>6, <3>1, BoundsAssumption
      <4>2. /\ Account(V, P, E, joined, steady, walk.seen, walk.twice, f, came, left)
            /\ Cardinality(V) <= walk.total + came
        BY <1>4, <3>1
      <4> HIDE DEF V, P, E, f
      <4> QED BY <1>2, <4>1, <4>2, AccountEnd
    <3>2. CASE ~walk.paged
      <4>1. walk.twice = 0 /\ steady \ walk.seen = {} /\ Cardinality({}) = 0
        BY <1>1, <1>3, <3>2, FS_EmptySet DEF Walked, Whole
      <4>2. 0 <= left + came /\ 0 <= came
        BY <1>2
      <4> QED BY <4>1, <4>2
    <3> QED BY <1>2, <3>1, <3>2
  <2> QED BY <1>1, <2>2, <2>3 DEF PagesInv, PagesAccounted, Walking
<1> QED BY <1>5, <1>6

LEMMA StartWalked ==
    ASSUME TypeOK, NEW kind \in Kinds, NEW paged \in BOOLEAN, StartWalk(kind, paged)
    PROVE  PagesInv'
<1> DEFINE w == [Nowhere EXCEPT !.kind = kind, !.paged = paged]
           a == Ask(w)
           V == Current(a, requests, status)
           P == Peers(requests)
<1>1. /\ walk' = a /\ UNCHANGED docs /\ steady' = Belongs(kind, requests, status)
      /\ came' = 0 /\ left' = 0
  BY DEF StartWalk
<1>2. /\ w \in Walk /\ w.kind = kind /\ w.paged = paged /\ w.skip = 0 /\ w.seen = {} /\ w.twice = 0
  BY DEF Nowhere, Walk
<1> HIDE DEF w
<1>3. /\ a.kind = kind /\ a.paged = paged /\ a.skip = 0 /\ a.items = {} /\ a.seen = {}
      /\ a.twice = 0 /\ Stage(a) /\ ~HasFound(a) /\ (paged => ~HasCounted(a))
      /\ a.pc = (IF kind = "friends" THEN "peers" ELSE "read")
  BY <1>2, AskFields
<1> HIDE DEF a
<1>4. LeftOut(a, requests) = P
  BY <1>3 DEF LeftOut
<1>5. Belongs(kind, requests, status) = V
  <2>1. CASE kind = "friends"
    BY <1>3, <1>4, <2>1 DEF Belongs, Current, Members
  <2>2. CASE kind # "friends"
    BY <1>3, <2>2 DEF Belongs, Current, Members, Matches, Kinds
  <2> QED BY <2>1, <2>2
<1>6. V \in SUBSET Users /\ joined \in [Users -> Nat]
  BY <1>3, MembersKnown DEF Current
<1>7. Seen(a) = {} /\ Line(a) = 0 /\ Twice(a) = 0 /\ Cardinality({}) = 0
  <2>1. {} \cap {} = {} /\ Cardinality({}) = 0
    BY FS_EmptySet
  <2> QED BY <1>3, <2>1 DEF Seen, Line, Twice
<1>8. Account(V, P, P, joined, V, {}, 0, 0, 0, 0)
  <2>1. Passed(joined, V, V \ {}, 0) = {}
    <3>1. \A u \in V : Rank(joined, V, u) \in Nat
      BY <1>6, RankType
    <3> QED BY <3>1 DEF Passed
  <2>2. Ahead(joined, V, {}, 0) = {} /\ P \ P = {}
    BY DEF Ahead
  <2> QED BY <1>7, <2>1, <2>2 DEF Account
<1>9. paged => Paged(a, requests, status, joined, V, 0, 0)
  <2> HIDE DEF P
  <2> QED BY <1>3, <1>4, <1>7, <1>8 DEF Paged, P
<1>10. ~paged => Whole(a, V)
  BY <1>3 DEF Whole
<1>11. Walked(a, requests, status, joined, V, 0, 0)
  BY <1>3, <1>5, <1>9, <1>10 DEF Walked
<1>12. a.pc # "end"
  BY <1>3
<1> HIDE DEF V
<1> QED BY <1>1, <1>5, <1>11, <1>12 DEF PagesInv, PagesAccounted, docs

\* What others do to the listing is on record, whether they change users or requests.
LEMMA OutsideMoves ==
    ASSUME NEW w, WalkOK(w), NEW ps \in SUBSET Request, NEW rs \in SUBSET Request, NEW at, NEW st
    PROVE  LET V == Current(w, ps, at)
               W == Current(w, rs, st)
               P == Peers(ps)
               Q == Peers(rs)
               E == LeftOut(w, ps)
               F == LeftOut(w, rs)
               before == Belongs("users", ps, at)
               after == Belongs("users", rs, st)
           IN  /\ Cardinality(V \ W) + Cardinality(Q \ F)
                     <= Cardinality(P \ E) + Cardinality(before \ after) + Cardinality(Q \ P)
               /\ Cardinality(W \ V) + Cardinality(F \ Q)
                     <= Cardinality(E \ P) + Cardinality(after \ before) + Cardinality(P \ Q)
               /\ Cardinality(W \ V) <= Cardinality(after \ before) + Cardinality(P \ Q)
<1> DEFINE V == Current(w, ps, at)
           W == Current(w, rs, st)
           P == Peers(ps)
           Q == Peers(rs)
           E == LeftOut(w, ps)
           F == LeftOut(w, rs)
           before == Belongs("users", ps, at)
           after == Belongs("users", rs, st)
<1>1. /\ V \in SUBSET Users /\ W \in SUBSET Users /\ P \in SUBSET Users /\ Q \in SUBSET Users
      /\ E \in SUBSET Users /\ F \in SUBSET Users /\ before \in SUBSET Users /\ after \in SUBSET Users
      /\ w.kind \in Kinds
  BY WalkedTyped, BelongsTyped DEF Current, Members
<1>2. /\ Cardinality(V \ W) \in Nat /\ Cardinality(W \ V) \in Nat
      /\ Cardinality(P \ Q) \in Nat /\ Cardinality(Q \ P) \in Nat
      /\ Cardinality(P \ E) \in Nat /\ Cardinality(E \ P) \in Nat
      /\ Cardinality(Q \ F) \in Nat /\ Cardinality(F \ Q) \in Nat
      /\ Cardinality(before \ after) \in Nat /\ Cardinality(after \ before) \in Nat
  BY <1>1, UsersFinite
<1>3. \A u \in Users : u \in before <=> Active(at, u)
  BY DEF Belongs, Matches
<1>4. \A u \in Users : u \in after <=> Active(st, u)
  BY DEF Belongs, Matches
<1>5. \A u \in Users : u \in V <=> Matches(w.kind, E, at, u)
  BY DEF Current, Members
<1>6. \A u \in Users : u \in W <=> Matches(w.kind, F, st, u)
  BY DEF Current, Members
<1>7. E = F \/ (E = P /\ F = Q)
  BY DEF LeftOut
<1> HIDE DEF V, W, P, Q, E, F, before, after
<1>8. (V \ W) \in SUBSET ((before \ after) \cup (F \ E))
  BY <1>1, <1>3, <1>4, <1>5, <1>6 DEF Matches, Offered, Other, Kinds
<1>9. (W \ V) \in SUBSET ((after \ before) \cup (E \ F))
  BY <1>1, <1>3, <1>4, <1>5, <1>6 DEF Matches, Offered, Other, Kinds
<1>10. /\ (before \ after) \in SUBSET Users /\ (after \ before) \in SUBSET Users
       /\ (F \ E) \in SUBSET Users /\ (E \ F) \in SUBSET Users
       /\ (P \ E) \in SUBSET Users /\ (E \ P) \in SUBSET Users
       /\ (P \ Q) \in SUBSET Users /\ (Q \ P) \in SUBSET Users
  BY <1>1
<1>11. /\ Cardinality(V \ W) <= Cardinality(before \ after) + Cardinality(F \ E)
       /\ Cardinality(W \ V) <= Cardinality(after \ before) + Cardinality(E \ F)
  BY <1>8, <1>9, <1>10, Covered
<1> DEFINE out == Cardinality(V \ W)
           in == Cardinality(W \ V)
           gone == Cardinality(before \ after)
           back == Cardinality(after \ before)
           new == Cardinality(Q \ P)
           over == Cardinality(P \ Q)
           pe == Cardinality(P \ E)
           ep == Cardinality(E \ P)
           qf == Cardinality(Q \ F)
           fq == Cardinality(F \ Q)
           fe == Cardinality(F \ E)
           ef == Cardinality(E \ F)
<1>12. out + qf <= pe + gone + new /\ in + fq <= ep + back + over /\ in <= back + over
  <2>1. /\ out \in Nat /\ in \in Nat /\ gone \in Nat /\ back \in Nat /\ new \in Nat /\ over \in Nat
        /\ pe \in Nat /\ ep \in Nat /\ qf \in Nat /\ fq \in Nat /\ out <= gone + fe /\ in <= back + ef
    BY <1>2, <1>11
  <2>2. CASE E = F
    <3>1. fe = 0 /\ ef = 0
      <4>1. F \ E = {} /\ E \ F = {} /\ Cardinality({}) = 0
        BY <2>2, FS_EmptySet
      <4> QED BY <4>1
    <3>2. /\ (Q \ F) \in SUBSET ((P \ E) \cup (Q \ P))
          /\ (F \ Q) \in SUBSET ((E \ P) \cup (P \ Q))
      BY <2>2
    <3>3. qf <= pe + new /\ fq <= ep + over
      BY <1>10, <3>2, Covered
    <3> HIDE DEF out, in, gone, back, new, over, pe, ep, qf, fq, fe, ef
    <3> QED BY <2>1, <3>1, <3>3
  <2>3. CASE E = P /\ F = Q
    <3>1. qf = 0 /\ fq = 0 /\ pe = 0 /\ ep = 0
      <4>1. Q \ F = {} /\ F \ Q = {} /\ P \ E = {} /\ E \ P = {} /\ Cardinality({}) = 0
        BY <2>3, FS_EmptySet
      <4> QED BY <4>1
    <3>2. fe = new /\ ef = over
      BY <2>3
    <3> HIDE DEF out, in, gone, back, new, over, pe, ep, qf, fq, fe, ef
    <3> QED BY <2>1, <3>1, <3>2
  <2> QED BY <1>7, <2>2, <2>3
<1> QED BY <1>12 DEF V, W, P, Q, E, F, before, after

LEMMA OutsideWalked ==
    ASSUME TypeOK, TypeOK', PagesInv, NEW st, NEW rs \in SUBSET Request, Outside(st, rs),
           \A u \in Users : status[u] = "active" => joined'[u] = joined[u]
    PROVE  PagesInv'
<1>1. /\ WalkOK(walk) /\ walk' = walk /\ status' = st /\ requests' = rs
      /\ requests \in SUBSET Request
  BY DEF Outside, TypeOK, WalkOK
<1>2. CASE ~Walking(walk)
  <2>1. walk.pc = "end" => UNCHANGED <<steady, came, left>>
    BY DEF Outside
  <2> QED BY <1>1, <1>2, <2>1 DEF PagesInv, PagesAccounted
<1>3. CASE Walking(walk)
  <2> DEFINE V == Current(walk, requests, status)
             W == Current(walk, rs, st)
             P == Peers(requests)
             Q == Peers(rs)
             E == LeftOut(walk, requests)
             F == LeftOut(walk, rs)
             before == Belongs("users", requests, status)
             after == Belongs("users", rs, st)
             out == Cardinality(V \ W)
             in == Cardinality(W \ V)
             gone == Cardinality(before \ after)
             back == Cardinality(after \ before)
             new == Cardinality(Q \ P)
             over == Cardinality(P \ Q)
             pe == Cardinality(P \ E)
             ep == Cardinality(E \ P)
             qf == Cardinality(Q \ F)
             fq == Cardinality(F \ Q)
  <2>1. /\ steady' = steady \cap Belongs(walk.kind, rs, st)
        /\ came' = came + back + over
        /\ left' = left + gone + new
    BY <1>3 DEF Outside, Walking
  <2>2. /\ V \in SUBSET Users /\ W \in SUBSET Users /\ P \in SUBSET Users /\ Q \in SUBSET Users
        /\ E \in SUBSET Users /\ F \in SUBSET Users /\ before \in SUBSET Users /\ after \in SUBSET Users
        /\ walk.kind \in Kinds /\ Seen(walk) \in SUBSET Users /\ Twice(walk) \in Nat
        /\ Line(walk) \in Nat /\ walk.total \in Nat
    BY <1>1, WalkedTyped, BelongsTyped DEF Current, Members
  <2>3. /\ steady \in SUBSET Users /\ came \in Nat /\ left \in Nat /\ came' \in Nat /\ left' \in Nat
        /\ joined \in [Users -> Nat] /\ joined' \in [Users -> Nat]
    BY DEF TypeOK, Numbering
  <2>4. Apart(joined, V) /\ Apart(joined', W)
    <3>1. Apart(joined, V)
      BY <2>2, MembersKnown DEF Current
    <3>2. Numbering(joined') /\ \A u \in Users : joined'[u] = 0 => st[u] = "absent"
      BY <1>1 DEF TypeOK
    <3>3. Apart(joined', W)
      BY <2>2, <3>2, MembersApart DEF Current
    <3> QED BY <3>1, <3>3
  <2>5. \A u \in V : joined'[u] = joined[u]
    <3>1. \A u \in V : u \in Users /\ status[u] = "active"
      BY <2>2 DEF Current, Members, Matches, Offered, Other, Active, Kinds
    <3> QED BY <3>1
  <2>6. Apart(joined', V)
    BY <2>4, <2>5 DEF Apart
  <2>7. /\ out + qf <= pe + gone + new
        /\ in + fq <= ep + back + over
        /\ in <= back + over
    BY <1>1, OutsideMoves
  <2>8. /\ out \in Nat /\ in \in Nat /\ gone \in Nat /\ back \in Nat /\ new \in Nat /\ over \in Nat
        /\ pe \in Nat /\ ep \in Nat /\ qf \in Nat /\ fq \in Nat
    BY <2>2, UsersFinite
  <2>9. Walked(walk, requests, status, joined, steady, came, left)
    BY <1>3 DEF PagesInv
  <2>10. /\ steady' \in SUBSET (steady \cap W)
         /\ steady' \subseteq Belongs(walk.kind, rs, st)
    <3>1. steady \subseteq V
      BY <2>9 DEF Walked
    <3>2. V \cap Belongs(walk.kind, rs, st) \subseteq W
      BY <2>2 DEF Current, Members, Belongs, Matches, Offered, LeftOut, Kinds
    <3> QED BY <2>1, <3>1, <3>2
  <2>11. walk.paged => Paged(walk, rs, st, joined', steady', came', left')
    <3> SUFFICES ASSUME walk.paged
                 PROVE  Paged(walk, rs, st, joined', steady', came', left')
      OBVIOUS
    <3> DEFINE f == Line(walk)
               t == Twice(walk)
               s == Seen(walk)
    <3>1. Account(V, P, E, joined, steady, s, t, f, came, left)
      BY <2>9 DEF Walked, Paged
    <3>2. /\ HasCounted(walk) => Cardinality(V) <= walk.total + came
          /\ Cardinality(V) \in Nat /\ Cardinality(W) \in Nat
      BY <2>2, <2>9, UsersFinite DEF Walked, Paged
    <3>3. Cardinality(W) <= Cardinality(V) + in
      <4>1. W \in SUBSET (V \cup (W \ V)) /\ (W \ V) \in SUBSET Users
        BY <2>2
      <4> HIDE DEF V, W
      <4> QED BY <2>2, <4>1, Covered
    <3>4. in <= back + over
      BY <2>7
    <3> HIDE DEF V, W, P, Q, E, F, s, t, f, before, after
    <3>5. Account(V, P, E, joined', steady, s, t, f, came, left)
      BY <2>5, <3>1, AccountNumbers
    <3>6. s \in SUBSET Users /\ t \in Nat /\ f \in Nat
      BY <2>2 DEF s, t, f
    <3>7. out + qf <= pe + (left' - left) /\ in + fq <= ep + (came' - came)
      <4> HIDE DEF out, in, gone, back, new, over, pe, ep, qf, fq
      <4> QED BY <2>1, <2>3, <2>7, <2>8
    <3>8. Account(W, Q, F, joined', steady', s, t, f, came', left')
      BY <2>2, <2>3, <2>4, <2>6, <2>10, <3>5, <3>6, <3>7, AccountChange
    <3>9. HasCounted(walk) => Cardinality(W) <= walk.total + came'
      <4> HIDE DEF in, back, over
      <4> QED BY <2>1, <2>2, <2>3, <2>8, <3>2, <3>3, <3>4
    <3> QED BY <3>8, <3>9 DEF Paged, W, Q, F, s, t, f
  <2>12. ~walk.paged => Whole(walk, steady')
    BY <2>9, <2>10 DEF Walked, Whole
  <2>13. Walked(walk, rs, st, joined', steady', came', left')
    BY <2>9, <2>10, <2>11, <2>12 DEF Walked
  <2>14. walk.pc # "end"
    BY <1>3 DEF Walking
  <2> HIDE DEF V, W, P, Q, E, F
  <2> QED BY <1>1, <2>13, <2>14 DEF PagesInv, PagesAccounted
<1> QED BY <1>2, <1>3

LEMMA StepPages == TypeOK /\ TypeOK' /\ PagesInv /\ [Next]_vars => PagesInv'
<1> SUFFICES ASSUME TypeOK, TypeOK', PagesInv, [Next]_vars PROVE PagesInv'
  OBVIOUS
<1>1. CASE UNCHANGED vars
  BY <1>1 DEF vars, PagesInv, PagesAccounted
<1>2. ASSUME NEW kind \in Kinds, NEW paged \in BOOLEAN, StartWalk(kind, paged)
      PROVE  PagesInv'
  BY <1>2, StartWalked
<1>3. CASE ReadPeers \/ CountUsers \/ FindUsers \/ ReadConnections \/ ReadRequests \/ TurnPage
  BY <1>3, ReadPeersWalked, CountWalked, FindWalked, DetailsWalked, TurnWalked
<1>4. ASSUME NEW u \in Users, Register(u)
      PROVE  PagesInv'
  <2>1. /\ Outside([status EXCEPT ![u] = "active"], requests) /\ status[u] = "absent"
        /\ joined' = [joined EXCEPT ![u] = Cardinality(Registered(joined)) + 1]
    BY <1>4 DEF Register
  <2>2. \A v \in Users : status[v] = "active" => joined'[v] = joined[v]
    BY <2>1 DEF TypeOK, Numbering
  <2> QED BY <2>1, <2>2, OutsideWalked DEF TypeOK
<1>5. ASSUME NEW u \in Users, NEW new \in {"active", "blocked", "gone"}, SetStatus(u, new)
      PROVE  PagesInv'
  <2>1. Outside([status EXCEPT ![u] = new], requests) /\ joined' = joined
    BY <1>5 DEF SetStatus
  <2> QED BY <2>1, OutsideWalked DEF TypeOK
<1>6. ASSUME NEW r \in Asks, Relate(r)
      PROVE  PagesInv'
  <2>1. Outside(status, requests \cup {r}) /\ joined' = joined
    BY <1>6 DEF Relate
  <2>2. requests \cup {r} \in SUBSET Request
    BY RequestsAssumption DEF TypeOK
  <2> QED BY <2>1, <2>2, OutsideWalked
<1>7. ASSUME NEW r \in requests, Accept(r)
      PROVE  PagesInv'
  <2>1. Outside(status, (requests \ {r}) \cup {[r EXCEPT !.status = "accepted"]}) /\ joined' = joined
    BY <1>7 DEF Accept
  <2>2. (requests \ {r}) \cup {[r EXCEPT !.status = "accepted"]} \in SUBSET Request
    BY DEF TypeOK, Request
  <2> QED BY <2>1, <2>2, OutsideWalked
<1>8. ASSUME NEW r \in requests, Withdraw(r)
      PROVE  PagesInv'
  <2>1. Outside(status, requests \ {r}) /\ joined' = joined
    BY <1>8 DEF Withdraw
  <2>2. requests \ {r} \in SUBSET Request
    BY DEF TypeOK
  <2> QED BY <2>1, <2>2, OutsideWalked
<1> QED BY <1>1, <1>2, <1>3, <1>4, <1>5, <1>6, <1>7, <1>8 DEF Next

\* A client that walks through a listing, page by page or at once, misses no more of the users
\* that belong to it all along than users came and left meanwhile, and sees none twice that
\* nobody came for.
THEOREM PagesHold == Spec => []PagesAccounted
<1>1. Init => PagesInv
  BY DEF Init, Nowhere, PagesInv, PagesAccounted, Walking
<1>2. PagesInv => PagesAccounted
  BY DEF PagesInv
<1> QED BY <1>1, <1>2, Typed, StepPages, PTL DEF Spec

-----------------------------------------------------------------------------
(* Strangers *)

HasAsked(w) == w.pc = "turn" \/ (w.pc = "details" /\ "requests" \notin w.todo)

\* findFriends leaves out the peers of the moment it looked, all but the fresh ones;
\* findAllFriends knows whom Me has asked by the target, but for the fresh ones.
Shown(w, rs, fr) ==
    /\ w.kind = "friends" =>
        /\ Peers(rs) \subseteq LeftOut(w, rs) \cup fr
        /\ w.items \cap LeftOut(w, rs) = {}
        /\ w.pc = "peers" => w.items = {}
    /\ w.kind = "all" /\ HasAsked(w) =>
        \A r \in rs :
            r.friend /\ r.actor = Me /\ r.target \in w.items => r.target \in w.asked \cup fr

StrangersInv ==
    /\ requests \subseteq {r \in Request : NamedOnce(r)}
    /\ Walking(walk) => Shown(walk, requests, fresh)

LEMMA ShownOffered == TypeOK /\ StrangersInv => StrangersOffered
<1> SUFFICES ASSUME TypeOK, StrangersInv PROVE StrangersOffered
  OBVIOUS
<1>1. ASSUME walk.pc = "turn", NEW u \in walk.items, NEW r \in requests, r.friend, Peer(r) = u
      PROVE  \/ u \in fresh
             \/ walk.kind = "users"
             \/ walk.kind = "all" /\ (r.actor # Me \/ r.target = NoUser
                                        \/ u \in walk.asked \cup walk.connected)
  <2>1. /\ Shown(walk, requests, fresh) /\ walk.kind \in {"users", "all", "friends"} /\ u \in Users
        /\ walk.kind # "users" => u # Me
    BY <1>1 DEF StrangersInv, Walking, TypeOK, Walk, Kinds
  <2>2. CASE walk.kind = "friends"
    <3>1. u \in Peers(requests)
      BY <1>1, <2>1, <2>2, UsersAssumption DEF Peers
    <3> QED BY <1>1, <2>1, <2>2, <3>1 DEF Shown
  <2>3. CASE walk.kind = "all"
    BY <1>1, <2>1, <2>3 DEF Shown, HasAsked, Peer
  <2> QED BY <2>1, <2>2, <2>3
<1>2. ASSUME NEW u \in Users, Offered(Peers(requests), status, u), NEW r \in PendingFor(u)
      PROVE  ~r.friend
  <2> SUFFICES ASSUME r.friend PROVE FALSE
    OBVIOUS
  <2>1. r \in requests /\ r.actor = Me /\ u \in {r.target, r.meta}
    BY DEF PendingFor
  <2>2. Peer(r) = u
    BY <2>1, UsersAssumption DEF StrangersInv, NamedOnce, Peer
  <2>3. u = Me \/ u \in Peers(requests)
    BY <2>1, <2>2, UsersAssumption DEF Peers
  <2> QED BY <1>2, <2>3 DEF Offered, Other
<1>3. StrangersShown
  BY <1>1 DEF StrangersShown
<1>4. LookupsAgree
  BY <1>2 DEF LookupsAgree
<1> QED BY <1>3, <1>4 DEF StrangersOffered

LEMMA AnsweredShown ==
    ASSUME NEW w, WalkOK(w), NEW rs, NEW fr, w.pc \in {"read", "details"}, Shown(w, rs, fr),
           w.kind = "all" => HasAsked(w) \/ w.items = {}
    PROVE  Shown(Answered(w), rs, fr)
<1> DEFINE a == Answered(w)
<1>1. /\ a.pc = "turn" /\ a.items = w.items /\ a.kind = w.kind /\ a.asked = w.asked
      /\ a.excluded = w.excluded
  BY DEF Answered, WalkOK, Walk
<1> HIDE DEF a
<1>2. LeftOut(a, rs) = LeftOut(w, rs)
  BY <1>1 DEF LeftOut
<1>3. Shown(a, rs, fr)
  BY <1>1, <1>2 DEF Shown
<1> QED BY <1>3 DEF a

LEMMA FoundShown ==
    ASSUME NEW w, WalkOK(w), NEW rs, NEW fr, w.pc = "read", Shown(w, rs, fr)
    PROVE  Shown(Found(w), rs, fr)
<1>1. CASE w.todo # {}
  BY <1>1 DEF Found
<1>2. CASE w.todo = {} /\ w.kind = "all" /\ w.items # {}
  <2> DEFINE a == [w EXCEPT !.pc = "details", !.todo = {"connections", "requests"}]
  <2>1. Found(w) = a /\ a.kind = "all" /\ ~HasAsked(a)
    BY <1>2 DEF Found, HasAsked, WalkOK, Walk
  <2> HIDE DEF a
  <2> QED BY <2>1 DEF Shown
<1>3. CASE w.todo = {} /\ ~(w.kind = "all" /\ w.items # {})
  <2>1. Found(w) = Answered(w)
    BY <1>3 DEF Found
  <2> QED BY <1>3, <2>1, AnsweredShown
<1> QED BY <1>1, <1>2, <1>3

LEMMA DetailedShown ==
    ASSUME NEW w, WalkOK(w), NEW rs, NEW fr, w.pc = "details", Shown(w, rs, fr)
    PROVE  Shown(Detailed(w), rs, fr)
<1>1. CASE w.todo # {}
  BY <1>1 DEF Detailed
<1>2. CASE w.todo = {}
  BY <1>2, AnsweredShown DEF Detailed, HasAsked
<1> QED BY <1>1, <1>2

LEMMA AskShown ==
    ASSUME NEW w \in Walk, NEW rs, NEW fr
    PROVE  Shown(Ask(w), rs, fr)
<1> DEFINE a == Ask(w)
<1>1. /\ a.pc = (IF w.kind = "friends" THEN "peers" ELSE "read") /\ a.items = {} /\ a.kind = w.kind
  BY AskFields
<1> HIDE DEF a
<1>2. Shown(a, rs, fr)
  BY <1>1 DEF Shown, LeftOut, HasAsked
<1> QED BY <1>2 DEF a

LEMMA WalkShown ==
    ASSUME TypeOK, PagesInv, StrangersInv,
           ReadPeers \/ CountUsers \/ FindUsers \/ ReadConnections \/ ReadRequests \/ TurnPage
    PROVE  Walking(walk') => Shown(walk', requests, fresh')
<1>1. WalkOK(walk) /\ walk.kind \in Kinds
  BY DEF TypeOK, WalkOK, Walk
<1>2. Walking(walk)
  BY DEF ReadPeers, CountUsers, FindUsers, ReadConnections, ReadRequests, TurnPage, Walking
<1>3. Shown(walk, requests, fresh) /\ Stage(walk)
  BY <1>2 DEF StrangersInv, PagesInv, Walked
<1>4. CASE ReadPeers
  <2> DEFINE a == [walk EXCEPT !.pc = "read", !.excluded = Peers(requests)]
  <2>1. walk' = a /\ fresh' = fresh /\ walk.pc = "peers"
    BY <1>4 DEF ReadPeers
  <2>2. a.pc = "read" /\ a.excluded = Peers(requests) /\ a.items = walk.items /\ a.kind = walk.kind
    BY <1>1 DEF WalkOK, Walk
  <2> HIDE DEF a
  <2>3. Shown(a, requests, fresh)
    BY <1>3, <2>1, <2>2 DEF Shown, LeftOut, HasAsked
  <2> QED BY <2>1, <2>3
<1>5. CASE CountUsers
  <2> DEFINE n == Cardinality(Listing(walk.kind, walk.excluded))
             a == [walk EXCEPT !.todo = @ \ {"count"}, !.total = n]
  <2>1. walk' = Found(a) /\ fresh' = fresh /\ walk.pc = "read"
    BY <1>5 DEF CountUsers
  <2>2. n \in Nat
    BY <1>1, ListingTyped, UsersFinite
  <2> HIDE DEF n
  <2>3. /\ WalkOK(a) /\ a.pc = "read" /\ a.excluded = walk.excluded /\ a.items = walk.items
        /\ a.kind = walk.kind
    BY <1>1, <2>1, <2>2 DEF WalkOK, Walk
  <2> HIDE DEF a
  <2>4. Shown(a, requests, fresh)
    BY <1>3, <2>1, <2>3 DEF Shown, LeftOut, HasAsked
  <2> QED BY <2>1, <2>3, <2>4, FoundShown
<1>6. CASE FindUsers
  <2> DEFINE V == Listing(walk.kind, walk.excluded)
             w == [walk EXCEPT !.todo = @ \ {"find"}]
             p == Page(joined, V, walk.skip)
             n == Cardinality(V)
             a == IF walk.paged THEN [w EXCEPT !.items = p] ELSE [w EXCEPT !.items = V, !.total = n]
  <2>1. walk' = Found(a) /\ fresh' = fresh /\ walk.pc = "read"
    BY <1>6 DEF FindUsers
  <2>2. /\ V \in SUBSET Users /\ (walk.kind # "users" => Me \notin V) /\ n \in Nat
        /\ walk.kind = "friends" => V \cap walk.excluded = {}
    BY <1>1, ListingTyped, UsersFinite DEF Listing, Matches, Offered
  <2>3. p \in SUBSET V
    BY DEF Page
  <2> HIDE DEF V, p, n
  <2>4. /\ WalkOK(a) /\ a.pc = "read" /\ a.excluded = walk.excluded /\ a.items \subseteq V
        /\ a.kind = walk.kind
    BY <1>1, <2>1, <2>2, <2>3 DEF WalkOK, Walk
  <2> HIDE DEF a
  <2>5. Shown(a, requests, fresh)
    BY <1>3, <2>1, <2>2, <2>4 DEF Shown, LeftOut, HasAsked
  <2> QED BY <2>1, <2>4, <2>5, FoundShown
<1>7. CASE ReadConnections
  <2> DEFINE a == [walk EXCEPT !.todo = @ \ {"connections"},
                               !.connected = {u \in walk.items : connection[u] # "none"}]
  <2>1. walk' = Detailed(a) /\ fresh' = fresh /\ walk.pc = "details"
    BY <1>7 DEF ReadConnections
  <2>2. /\ WalkOK(a) /\ a.pc = "details" /\ a.excluded = walk.excluded /\ a.items = walk.items
        /\ a.kind = walk.kind /\ a.asked = walk.asked /\ a.todo = walk.todo \ {"connections"}
    BY <1>1, <2>1 DEF WalkOK, Walk
  <2> HIDE DEF a
  <2>3. Shown(a, requests, fresh)
    BY <1>3, <2>1, <2>2 DEF Shown, LeftOut, HasAsked
  <2> QED BY <2>1, <2>2, <2>3, DetailedShown
<1>8. CASE ReadRequests
  <2> DEFINE known == {u \in walk.items :
                        \E r \in requests : r.friend /\ r.actor = Me /\ r.target = u}
             a == [walk EXCEPT !.todo = @ \ {"requests"}, !.asked = known]
  <2>1. walk' = Detailed(a) /\ fresh' = fresh /\ walk.pc = "details"
    BY <1>8 DEF ReadRequests
  <2>2. /\ WalkOK(a) /\ a.pc = "details" /\ a.excluded = walk.excluded /\ a.items = walk.items
        /\ a.kind = walk.kind /\ a.asked = known
    BY <1>1, <2>1 DEF WalkOK, Walk
  <2> HIDE DEF a
  <2>3. Shown(a, requests, fresh)
    BY <1>3, <2>1, <2>2 DEF Shown, LeftOut, Stage
  <2> QED BY <2>1, <2>2, <2>3, DetailedShown
<1>9. CASE TurnPage
  <2>1. CASE walk.paged /\ walk.skip + Limit < walk.total
    <3> DEFINE w == [walk EXCEPT !.skip = @ + Limit]
    <3>1. walk' = Ask(w) /\ w \in Walk
      BY <1>1, <1>9, <2>1, BoundsAssumption DEF TurnPage, WalkOK, Walk
    <3> HIDE DEF w
    <3> QED BY <3>1, AskShown
  <2>2. CASE ~(walk.paged /\ walk.skip + Limit < walk.total)
    BY <1>1, <1>9, <2>2 DEF TurnPage, WalkOK, Walk, Walking
  <2> QED BY <2>1, <2>2
<1> QED BY <1>4, <1>5, <1>6, <1>7, <1>8, <1>9

\* Others do not take a request out of sight: who is asked newly is fresh.
LEMMA OutsideShown ==
    ASSUME TypeOK, StrangersInv, NEW st, NEW rs \in SUBSET {r \in Request : NamedOnce(r)},
           Outside(st, rs),
           \A r \in {q \in rs : q.friend} :
              \/ Peer(r) \notin Peers(requests)
              \/ \E q \in requests : q.friend /\ q.actor = r.actor /\ q.target = r.target
    PROVE  StrangersInv'
<1>1. requests' = rs /\ walk' = walk /\ WalkOK(walk)
  BY DEF Outside, TypeOK, WalkOK
<1>2. ASSUME Walking(walk)
      PROVE  Shown(walk, rs, fresh')
  <2>1. fresh' = fresh \cup (Peers(rs) \ Peers(requests)) /\ Shown(walk, requests, fresh)
    BY <1>2 DEF Outside, Walking, StrangersInv
  <2>2. walk.kind = "friends" =>
          /\ Peers(rs) \subseteq LeftOut(walk, rs) \cup fresh'
          /\ walk.items \cap LeftOut(walk, rs) = {}
          /\ walk.pc = "peers" => walk.items = {}
    BY <2>1 DEF Shown, LeftOut
  <2>3. ASSUME walk.kind = "all", HasAsked(walk), NEW r \in rs, r.friend, r.actor = Me,
               r.target \in walk.items
        PROVE  r.target \in walk.asked \cup fresh'
    <3>1. r.target \in Users /\ r.target # Me
      BY <1>1, <2>3 DEF WalkOK, Walk
    <3>2. Peer(r) = r.target /\ Peer(r) \in Peers(rs)
      BY <2>3, <3>1, UsersAssumption DEF Peer, Peers
    <3>3. CASE Peer(r) \notin Peers(requests)
      BY <2>1, <3>2, <3>3
    <3>4. CASE \E q \in requests : q.friend /\ q.actor = r.actor /\ q.target = r.target
      BY <2>1, <2>3, <3>4 DEF Shown
    <3> QED BY <2>3, <3>3, <3>4
  <2> QED BY <2>2, <2>3 DEF Shown
<1> QED BY <1>1, <1>2 DEF StrangersInv

LEMMA StepStrangers == TypeOK /\ PagesInv /\ StrangersInv /\ [Next]_vars => StrangersInv'
<1> SUFFICES ASSUME TypeOK, PagesInv, StrangersInv, [Next]_vars PROVE StrangersInv'
  OBVIOUS
<1>1. CASE UNCHANGED vars
  BY <1>1 DEF vars, docs, StrangersInv
<1>2. ASSUME NEW kind \in Kinds, NEW paged \in BOOLEAN, StartWalk(kind, paged)
      PROVE  StrangersInv'
  <2> DEFINE w == [Nowhere EXCEPT !.kind = kind, !.paged = paged]
  <2>1. w \in Walk
    BY DEF Nowhere, Walk
  <2>2. walk' = Ask(w) /\ requests' = requests
    BY <1>2 DEF StartWalk, docs
  <2> HIDE DEF w
  <2> QED BY <2>1, <2>2, AskShown DEF StrangersInv
<1>3. CASE ReadPeers \/ CountUsers \/ FindUsers \/ ReadConnections \/ ReadRequests \/ TurnPage
  <2>1. requests' = requests
    BY <1>3 DEF ReadPeers, CountUsers, FindUsers, ReadConnections, ReadRequests, TurnPage, docs
  <2>2. Walking(walk') => Shown(walk', requests, fresh')
    BY <1>3, WalkShown
  <2> QED BY <2>1, <2>2 DEF StrangersInv
<1>4. ASSUME NEW st, Outside(st, requests)
      PROVE  StrangersInv'
  BY <1>4, OutsideShown DEF StrangersInv
<1>5. ASSUME NEW u \in Users, Register(u)
      PROVE  StrangersInv'
  BY <1>4, <1>5 DEF Register
<1>6. ASSUME NEW u \in Users, NEW new \in {"active", "blocked", "gone"}, SetStatus(u, new)
      PROVE  StrangersInv'
  BY <1>4, <1>6 DEF SetStatus
<1>7. ASSUME NEW r \in Asks, Relate(r)
      PROVE  StrangersInv'
  <2>1. Outside(status, requests \cup {r}) /\ (r.friend => Peer(r) \notin Peers(requests))
    BY <1>7 DEF Relate
  <2>2. requests \cup {r} \in SUBSET {q \in Request : NamedOnce(q)}
    BY RequestsAssumption DEF StrangersInv
  <2> QED BY <2>1, <2>2, OutsideShown
<1>8. ASSUME NEW r \in requests, Accept(r)
      PROVE  StrangersInv'
  <2> DEFINE a == [r EXCEPT !.status = "accepted"]
             rs == (requests \ {r}) \cup {a}
  <2>1. Outside(status, rs)
    BY <1>8 DEF Accept
  <2>2. /\ a \in {q \in Request : NamedOnce(q)} /\ a.actor = r.actor /\ a.target = r.target
        /\ a.friend = r.friend
    BY DEF StrangersInv, Request, NamedOnce
  <2> HIDE DEF a
  <2>3. rs \in SUBSET {q \in Request : NamedOnce(q)}
    BY <2>2 DEF StrangersInv
  <2>4. \A x \in {y \in rs : y.friend} :
           \E q \in requests : q.friend /\ q.actor = x.actor /\ q.target = x.target
    BY <2>2
  <2> HIDE DEF rs
  <2> QED BY <2>1, <2>3, <2>4, OutsideShown
<1>9. ASSUME NEW r \in requests, Withdraw(r)
      PROVE  StrangersInv'
  <2>1. Outside(status, requests \ {r})
    BY <1>9 DEF Withdraw
  <2>2. requests \ {r} \in SUBSET {q \in Request : NamedOnce(q)}
    BY DEF StrangersInv
  <2> QED BY <2>1, <2>2, OutsideShown
<1> QED BY <1>1, <1>2, <1>3, <1>5, <1>6, <1>7, <1>8, <1>9 DEF Next

\* Nobody whom Me has asked to be a friend, or who has asked Me, is offered by findFriends or
\* shown without the request by findAllFriends, unless the request came while the page was on
\* its way; and the look-up by phone number shows a request to someone that findFriends would
\* offer only if none of those pending is a friend request.
THEOREM StrangersHold == Spec => []StrangersOffered
<1>1. Init => PagesInv /\ StrangersInv
  BY RequestsAssumption
     DEF Init, Nowhere, PagesInv, PagesAccounted, Walking, StrangersInv
<1> QED BY <1>1, Typed, StepPages, StepStrangers, ShownOffered, PTL DEF Spec
=============================================================================
