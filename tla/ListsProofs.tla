---------------------------- MODULE ListsProofs ----------------------------
(***************************************************************************)
(* Proofs about Lists, for every set of accounts, every page size and any  *)
(* number of requests.  The laws of the pages follow from where ranks lie  *)
(* in a finite set.                                                        *)
(***************************************************************************)
EXTENDS Lists, FiniteSetTheorems, TLAPS

USE SizeAssumption

(***************************************************************************)
(* Ranks                                                                   *)
(***************************************************************************)
\* The rank of a member is less than the number of members.
LEMMA RankBound ==
  ASSUME NEW S \in SUBSET Nat, IsFiniteSet(S), NEW x \in S
  PROVE  /\ Rank(S, x) \in Nat /\ Cardinality(S) \in Nat
         /\ Rank(S, x) < Cardinality(S)
<1> DEFINE L == {y \in S : y < x}
<1>1. L \in SUBSET (S \ {x})
  OBVIOUS
<1>2. IsFiniteSet(S \ {x}) /\ Cardinality(S \ {x}) = Cardinality(S) - 1
  BY FS_RemoveElement
<1>3. IsFiniteSet(L) /\ Cardinality(L) <= Cardinality(S) - 1
  BY <1>1, <1>2, FS_Subset
<1> QED
  BY <1>3, FS_CardinalityType DEF Rank

\* Of two members the larger has the larger rank.
LEMMA RankGrows ==
  ASSUME NEW S \in SUBSET Nat, IsFiniteSet(S), NEW x \in S, NEW y \in S, x < y
  PROVE  Rank(S, x) < Rank(S, y)
<1> DEFINE L == {z \in S : z < x}
           U == {z \in S : z < y}
<1>1. L \in SUBSET (U \ {x}) /\ x \in U /\ U \in SUBSET S
  <2>1. x \in Nat /\ y \in Nat /\ \A z \in S : z \in Nat
    OBVIOUS
  <2>2. \A z \in S : z < x => z < y /\ z # x
    BY <2>1
  <2> QED
    BY <2>2
<1>2. IsFiniteSet(U)
  BY <1>1, FS_Subset
<1>3. IsFiniteSet(U \ {x}) /\ Cardinality(U \ {x}) = Cardinality(U) - 1
  BY <1>1, <1>2, FS_RemoveElement
<1>4. IsFiniteSet(L) /\ Cardinality(L) <= Cardinality(U) - 1
  BY <1>1, <1>3, FS_Subset
<1> QED
  BY <1>2, <1>4, FS_CardinalityType DEF Rank

\* Every rank below the number of members is that of a member.
LEMMA RankReached ==
  ASSUME NEW S \in SUBSET Nat, IsFiniteSet(S), NEW k \in Nat, k < Cardinality(S)
  PROVE  \E x \in S : Rank(S, x) = k
<1> DEFINE n == Cardinality(S)
           f == [x \in S |-> Rank(S, x)]
           T == 0 .. (n - 1)
<1>1. n \in Nat
  BY FS_CardinalityType
<1>2. IsFiniteSet(T) /\ Cardinality(T) = n
  <2>1. 0 \in Int /\ n - 1 \in Int
    BY <1>1
  <2>2. IsFiniteSet(T) /\ Cardinality(T) = IF 0 > n - 1 THEN 0 ELSE n - 1 - 0 + 1
    BY <2>1, FS_Interval
  <2> QED
    BY <1>1, <2>2
<1>3. f \in [S -> T]
  BY <1>1, RankBound
<1>4. \A x, y \in S : x # y => f[x] # f[y]
  <2> SUFFICES ASSUME NEW x \in S, NEW y \in S, x # y
               PROVE  Rank(S, x) # Rank(S, y)
    OBVIOUS
  <2>1. Rank(S, x) \in Nat /\ Rank(S, y) \in Nat
    BY RankBound
  <2>2. x < y \/ y < x
    OBVIOUS
  <2> QED
    BY <2>1, <2>2, RankGrows
<1>5. f \in Injection(S, T)
  BY <1>3, <1>4 DEF Injection, IsInjective
<1>6. f \in Surjection(S, T)
  BY <1>2, <1>5, FS_Injection
<1>7. k \in T
  BY <1>1
<1>8. PICK x \in S : f[x] = k
  BY <1>6, <1>7 DEF Surjection
<1> QED
  BY <1>8

(***************************************************************************)
(* Types                                                                   *)
(***************************************************************************)
LEMMA StepTypes == TypeOK /\ [Next]_vars => TypeOK'
<1> SUFFICES ASSUME TypeOK, [Next]_vars
             PROVE  TypeOK'
  OBVIOUS
<1>1. ASSUME NEW t \in Tids, NEW r \in Requests, Arrive(t, r)
      PROVE  TypeOK'
  BY <1>1 DEF Arrive, TypeOK
<1>2. ASSUME NEW s \in Tids, NEW t \in Tids, Befriend(s, t)
      PROVE  TypeOK'
  <2> DEFINE both == << [source |-> s, target |-> t], [source |-> t, target |-> s] >>
  <2>1. both \in Seq([source : Tids, target : Tids])
    OBVIOUS
  <2>2. friend' \in Seq([source : Tids, target : Tids])
    BY <1>2, <2>1 DEF Befriend, TypeOK
  <2> QED
    BY <1>2, <2>2 DEF Befriend, TypeOK
<1>3. CASE UNCHANGED vars
  BY <1>3 DEF vars, TypeOK
<1> QED
  BY <1>1, <1>2, <1>3 DEF Next

\* Both stores of Lists keep their types, and a request is in one inbox only.
THEOREM ListsTypes == Spec => []TypeOK
<1>1. Init => TypeOK
  BY DEF Init, TypeOK
<1> QED
  BY <1>1, StepTypes, PTL DEF Spec

\* An inbox is a finite set of numbers, none larger than the bound.
LEMMA InboxFinite ==
  ASSUME TypeOK, NEW t \in Tids
  PROVE  /\ inbox[t] \in SUBSET Nat /\ IsFiniteSet(inbox[t])
         /\ Cardinality(inbox[t]) \in Nat /\ Cardinality(inbox[t]) <= MaxRequests
<1>1. inbox[t] \in SUBSET (1..MaxRequests)
  BY DEF TypeOK, Requests
<1>2. IsFiniteSet(1..MaxRequests) /\ Cardinality(1..MaxRequests) = MaxRequests
  BY FS_Interval
<1> QED
  BY <1>1, <1>2, FS_Subset, FS_CardinalityType

(***************************************************************************)
(* The pages of requests                                                   *)
(***************************************************************************)
\* What is on a page, by rank, when its first rank is not negative.
LEMMA LaterPage ==
  ASSUME TypeOK, NEW t \in Tids, NEW p \in Nat, p >= Size, NEW r \in inbox[t],
         p - Size <= Rank(inbox[t], r), Rank(inbox[t], r) <= p * Size
  PROVE  r \in RequestPage(t, p)
<1>1. PageStart(p) = p - Size /\ p # NoPage
  BY DEF PageStart
<1>2. p * Size \in Nat
  OBVIOUS
<1> QED
  BY <1>1, <1>2 DEF RequestPage, ZRange, FromEnd

\* The request of rank k is on page Size + k.
LEMMA PageOfRank ==
  ASSUME TypeOK, NEW t \in Tids, NEW r \in inbox[t]
  PROVE  \E p \in 1..(Size + MaxRequests) : r \in RequestPage(t, p)
<1> DEFINE k == Rank(inbox[t], r)
           p == Size + k
<1>1. k \in Nat /\ k < MaxRequests
  BY InboxFinite, RankBound
<1>2. p \in 1..(Size + MaxRequests) /\ p \in Nat /\ p - Size = k
  BY <1>1
<1>3. k <= p * Size
  <2> HIDE DEF k
  <2>1. \A m \in Nat, s \in Nat \ {0} : m <= m * s
    OBVIOUS
  <2>2. p <= p * Size
    BY <1>2, <2>1
  <2> QED
    BY <1>1, <2>2
<1>4. r \in RequestPage(t, p)
  BY <1>1, <1>2, <1>3, LaterPage
<1> QED
  BY <1>2, <1>4

\* A call without a page is answered with the whole inbox.
LEMMA WholeInbox ==
  ASSUME TypeOK, NEW t \in Tids, NEW r \in inbox[t]
  PROVE  r \in RequestPage(t, NoPage)
<1>1. Rank(inbox[t], r) \in Nat /\ Rank(inbox[t], r) <= MaxRank
  BY InboxFinite, RankBound
<1> QED
  BY <1>1 DEF RequestPage, ZRange, FromEnd

\* Every request in an inbox is on some page: whatever the precedence of *
\* and - makes of the first rank of a page, page Size + k begins with rank k.
THEOREM RequestsHavePages == Spec => []EveryRequestHasAPage
<1>1. TypeOK => EveryRequestHasAPage
  BY PageOfRank, WholeInbox DEF EveryRequestHasAPage
<1> QED
  BY <1>1, ListsTypes, PTL

\* Page one begins Size - 1 ranks before the end of the inbox.
LEMMA FirstPage ==
  ASSUME TypeOK, NEW t \in Tids, Size > 1
  PROVE  RequestPage(t, 1) =
           {r \in inbox[t] : /\ Cardinality(inbox[t]) + 1 - Size <= Rank(inbox[t], r)
                             /\ Rank(inbox[t], r) <= Size}
<1>1. PageStart(1) = 1 - Size /\ PageStart(1) < 0 /\ 1 * Size = Size /\ 1 # NoPage
  BY DEF PageStart
<1>2. Cardinality(inbox[t]) \in Nat
  BY InboxFinite
<1>3. /\ FromEnd(inbox[t], PageStart(1)) = Cardinality(inbox[t]) + 1 - Size
      /\ FromEnd(inbox[t], 1 * Size) = Size
  BY <1>1, <1>2 DEF FromEnd
<1> QED
  BY <1>3 DEF RequestPage, ZRange

\* Page one of getAllRequest is whole below Size requests, empty from twice
\* Size on, and neither in between: it is the end of the inbox that it shows.
THEOREM FirstPages == Spec => []FirstPageByLength
<1>1. ASSUME TypeOK, NEW t \in Tids, Size > 1
      PROVE  LET n == Cardinality(inbox[t])
             IN  /\ n < Size => RequestPage(t, 1) = inbox[t]
                 /\ n >= 2 * Size => RequestPage(t, 1) = {}
                 /\ n \in 1..(2 * Size - 1) => RequestPage(t, 1) # {}
  <2> DEFINE n == Cardinality(inbox[t])
  <2>1. /\ inbox[t] \in SUBSET Nat /\ IsFiniteSet(inbox[t]) /\ n \in Nat
        /\ \A r \in inbox[t] : Rank(inbox[t], r) \in Nat /\ Rank(inbox[t], r) < n
    BY <1>1, InboxFinite, RankBound
  <2>2. n < Size => RequestPage(t, 1) = inbox[t]
    <3>1. ASSUME n < Size, NEW r \in inbox[t]
          PROVE  r \in RequestPage(t, 1)
      BY <1>1, <2>1, <3>1, FirstPage
    <3> QED
      BY <1>1, <3>1, FirstPage
  <2>3. n >= 2 * Size => RequestPage(t, 1) = {}
    BY <1>1, <2>1, FirstPage
  <2>4. ASSUME n \in 1..(2 * Size - 1)
        PROVE  RequestPage(t, 1) # {}
    <3> DEFINE k == IF n < Size THEN 0 ELSE n + 1 - Size
    <3>1. k \in Nat /\ k < n /\ n + 1 - Size <= k /\ k <= Size
      BY <1>1, <2>1, <2>4
    <3>2. PICK r \in inbox[t] : Rank(inbox[t], r) = k
      BY <2>1, <3>1, RankReached
    <3> QED
      BY <1>1, <3>1, <3>2, FirstPage
  <2> QED
    BY <2>2, <2>3, <2>4
<1>2. TypeOK => FirstPageByLength
  BY <1>1 DEF FirstPageByLength
<1> QED
  BY <1>2, ListsTypes, PTL

(***************************************************************************)
(* The pages of friends                                                    *)
(***************************************************************************)
\* With $limit before $skip every page of FriendsService.get after the first is
\* empty, and what lies beyond the first documents of the collection, whoever
\* they belong to, is on none: so it would be if $lookup found the friends.
LaterPageIsEmpty ==
  \A p \in Nat \ {0} :
    /\ p > 1 => \A t \in Tids : FriendPage(t, p) = {}
    /\ \A i \in Window(p) : i <= FriendSize

THEOREM LaterPagesEmpty == Spec => []LaterPageIsEmpty
<1>1. ASSUME TypeOK, NEW p \in Nat, p > 1
      PROVE  Window(p) = {}
  <2>1. \A m \in Nat, n \in Nat : m >= 1 => m * n >= n
    OBVIOUS
  <2>2. (p - 1) * FriendSize \in Nat /\ (p - 1) * FriendSize >= FriendSize
    <3>1. p - 1 \in Nat /\ p - 1 >= 1
      BY <1>1
    <3> QED
      BY <2>1, <3>1
  <2>3. friend \in Seq([source : Tids, target : Tids])
    BY <1>1 DEF TypeOK
  <2>4. \A i \in DOMAIN friend : i \in Nat
    BY <2>3
  <2>5. \A i \in DOMAIN friend : ~((p - 1) * FriendSize < i /\ i <= FriendSize)
    BY <2>2, <2>4
  <2> QED
    BY <2>5 DEF Window
<1>2. TypeOK => LaterPageIsEmpty
  BY <1>1 DEF LaterPageIsEmpty, Window, FriendPage
<1> QED
  BY <1>2, ListsTypes, PTL
=============================================================================
