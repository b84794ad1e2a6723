------------------------------- MODULE Lists -------------------------------
(***************************************************************************)
(* What GET /request and GET /friends show of the stores: the pages of     *)
(* RequestService.getAllRequest, which reads ranks of the sorted set       *)
(* request:split:<tid>, and of FriendsService.get, an aggregation over the *)
(* friend collection.  How the stores are filled is FriendRequests; here   *)
(* requests and friendships simply arrive.                                 *)
(***************************************************************************)
EXTENDS SortedSets, Sequences

CONSTANTS
  Tids,          \* account ids, as the text that requests and friends hold
  Registered,    \* Registered[t]: the tid field of the user with tid t
  Size,          \* system.request.size
  NoPage,        \* what a call without a page asks for
  MaxRank,       \* Number.MAX_SAFE_INTEGER, which no inbox reaches
  FriendSize,    \* system.friends.size, or ten
  MaxRequests,   \* bound: requests that arrive
  MaxFriends     \* bound: friendships that are made

ASSUME SizeAssumption ==
  /\ Size \in Nat \ {0} /\ FriendSize \in Nat \ {0}
  /\ MaxRequests \in Nat /\ MaxFriends \in Nat
  /\ NoPage \notin Nat /\ MaxRank \in Nat /\ MaxRequests <= MaxRank

VARIABLES
  inbox,         \* Redis: the members of request:split:<tid>, for each tid; a
                 \* request is a number, and numbers are in order of score
  friend         \* MongoDB: the documents of the friend collection, in order

vars == <<inbox, friend>>

Requests == 1..MaxRequests

Init ==
  /\ inbox = [t \in Tids |-> {}]
  /\ friend = <<>>

\* A request reaches its receiver; a late one may have an early expiry.
ArriveTwice(t, r) ==  \* fault
  /\ inbox' = [inbox EXCEPT ![t] = @ \cup {r}]
  /\ UNCHANGED friend

Arrive(t, r) ==
  /\ \A s \in Tids : r \notin inbox[s]
  /\ inbox' = [inbox EXCEPT ![t] = @ \cup {r}]
  /\ UNCHANGED friend

\* FriendsService.accept stores its two documents.
Befriend(s, t) ==
  /\ Len(friend) < 2 * MaxFriends
  /\ friend' = friend \o << [source |-> s, target |-> t],
                            [source |-> t, target |-> s] >>
  /\ UNCHANGED inbox

Next == \/ \E t \in Tids, r \in Requests : Arrive(t, r)
        \/ \E s, t \in Tids : Befriend(s, t)

Spec == Init /\ [][Next]_vars

(***************************************************************************)
(* GET /request?page=p: RequestService.getAllRequest                       *)
(***************************************************************************)
\* page - 1 * size: the product comes first.
PageStartNext(p) == p * Size  \* fault
PageStartMeant(p) == (p - 1) * Size  \* fault
PageStart(p) == p - 1 * Size
RequestPage(t, p) ==
  IF p = NoPage THEN ZRange(inbox[t], 0, MaxRank)
                ELSE ZRange(inbox[t], PageStart(p), p * Size)

(***************************************************************************)
(* GET /friends?page=p: FriendsService.get                                 *)
(***************************************************************************)
\* $limit comes before $skip, and both before the documents of t are picked.
Window(p) ==
  LET start == (p - 1) * FriendSize
  IN  {i \in DOMAIN friend : start < i /\ i <= FriendSize}

\* $lookup compares the target of a document with the tid of a user.
Joined(d) == {t \in Tids : Registered[t] = d.target}

FriendPage(t, p) ==
  UNION {Joined(friend[i]) : i \in {j \in Window(p) : friend[j].source = t}}

(***************************************************************************)
(* Properties                                                              *)
(***************************************************************************)

\* Both stores have their types, and a request is in one inbox at most.
TypeOK ==
  /\ inbox \in [Tids -> SUBSET Requests]
  /\ \A s, t \in Tids : s # t => inbox[s] \cap inbox[t] = {}
  /\ friend \in Seq([source : Tids, target : Tids])

\* However long an inbox, and whatever the precedence in PageStart makes of
\* its pages: each request is on some page, and in what a call without a page
\* is answered, so a reader that tries them all can answer it.
EveryRequestHasAPage ==
  \A t \in Tids : \A r \in inbox[t] :
    /\ r \in RequestPage(t, NoPage)
    /\ \E p \in 1..(Size + MaxRequests) : r \in RequestPage(t, p)

\* What the mistake does to page one, with pages of two requests or more: it
\* is the whole inbox as long as there is less than a page of requests, and
\* empty as soon as there are two pages of them.
FirstPageByLength ==
  \A t \in Tids :
    LET n == Cardinality(inbox[t])
    IN  Size > 1 =>
          /\ n < Size => RequestPage(t, 1) = inbox[t]
          /\ n >= 2 * Size => RequestPage(t, 1) = {}
          /\ n \in 1..(2 * Size - 1) => RequestPage(t, 1) # {}

\* The tests of FriendsService.get and of GET /friends expect friends: page one
\* of whoever has friends shows one of them.
FriendsAreListed ==
  \A t \in Tids :
    (\E i \in DOMAIN friend : friend[i].source = t) => FriendPage(t, 1) # {}
=============================================================================
