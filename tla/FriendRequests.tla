--------------------------- MODULE FriendRequests ---------------------------
(***************************************************************************)
(* Friend requests from end to end: the HTTP calls of FriendsController    *)
(* and RequestController, the RPC messages they publish through RabbitMQ,  *)
(* the handlers RequestService.addRequest, RequestService.removeRequest    *)
(* and FriendsService.accept that consume them, the Redis hash and sorted  *)
(* set that hold the requests, and the MongoDB collection of friends.      *)
(*                                                                         *)
(* Every await of the code ends an action: between two of them any other   *)
(* call, any handler, the clock or a failure may run.  Each HTTP call is   *)
(* an element of a constant set and happens at most once; it is also the   *)
(* correlation id of the RPC message it publishes.                         *)
(***************************************************************************)
EXTENDS Naturals, FiniteSets

CONSTANTS
  Tids,        \* account ids
  Msgs,        \* greetings that travel with a request
  Tags,        \* labels a user may put on a friend
  NoTag,       \* the label of a friend that has none
  Adds,        \* calls of PUT /friends
  Answers,     \* calls of PUT /request/accept and DELETE /request/refuse
  Removes,     \* calls of DELETE /friends
  Retags,      \* calls of PATCH /friends/tag
  UserId,      \* UserId[t]: the MongoDB _id of the account with tid t
  ObjectKey,   \* what the Redis client makes of an object used as a key
  Expire,      \* system.request.expire, the lifetime of a request
  MaxTime,     \* bound: the clock stops here
  MaxFaults    \* bound: failures of a handler, crashes included

ASSUME NatAssumption == Expire \in Nat /\ MaxTime \in Nat /\ MaxFaults \in Nat
ASSUME KeyAssumption ==
  /\ ObjectKey \notin Tids
  /\ \A t \in Tids : UserId[t] \notin Tids
  /\ Adds \cap Answers = {}

VARIABLES
  now,         \* the clock
  hash,        \* Redis: fields of the hashes request:<tid>
  split,       \* Redis: members of the sorted sets request:split:<tid>
  friend,      \* MongoDB: the committed documents of the friend collection
  adding,      \* state of each call of Adds
  answering,   \* state of each call of Answers
  removing,    \* state of each call of Removes
  tagging,     \* state of each call of Retags
  msg,         \* the RPC message of a call, and how far its handler is
  txn,         \* documents saved in the session of an accept handler
  commits,     \* how often a transaction of an accept message committed
  removals,    \* request.remove messages that wait in the queue
  faults       \* failures so far

reads == <<now, hash, split, friend>>
handlers == <<msg, txn, commits, removals, faults>>
vars == <<now, hash, split, friend, adding, answering, removing, tagging,
          msg, txn, commits, removals, faults>>

(***************************************************************************)
(* Data.  A rid is sender, receiver, worker and the md5 of the request, so *)
(* it stands for the request: the request is its own rid.                  *)
(***************************************************************************)
Request == [sender : Tids, recive : Tids, msg : Msgs, expire : Nat]

Idle == [at |-> "idle"]
At == {"checked", "waiting", "done", "failed"}
AddCall == {Idle} \cup [at : At, req : Request]
AnswerCall == {Idle} \cup [at : At, status : {"accept", "refuse"},
                           by : Tids, req : Request]
RemoveCall == {Idle} \cup [at : At, by : Tids, target : Tids]
TagCall == {Idle} \cup [at : At, by : Tids, target : Tids, tag : Tags]

Doc == [id : Answers \X Nat \X {0, 1}, source : Tids, target : Tids,
        tag : Tags \cup {NoTag}]
Field == [ns : Tids, rid : Request, val : {"json", "number"}]

\* Where a message is: not published, dropped by the exchange, in its queue,
\* inside its handler, or acknowledged.
AddSteps == {"begun", "hset", "hsetnx", "finished", "replied"}
AcceptSteps == {"begun", "saved", "savedBoth", "removing", "removed",
                "finished", "replied"}
MsgState == {"none", "dropped", "queued", "acked"} \cup AddSteps \cup AcceptSteps

Calls == Adds \cup Answers

Init ==
  /\ now = 0
  /\ hash = {} /\ split = {} /\ friend = {}
  /\ adding = [c \in Adds |-> Idle]
  /\ answering = [c \in Answers |-> Idle]
  /\ removing = [c \in Removes |-> Idle]
  /\ tagging = [c \in Retags |-> Idle]
  /\ msg = [c \in Calls |-> "none"]
  /\ txn = [c \in Answers |-> {}]
  /\ commits = [c \in Answers |-> 0]
  /\ removals = {}
  /\ faults = 0

HasFriend(s, t) == \E d \in friend : d.source = s /\ d.target = t
Expired(r) == r.expire < now
FieldOf(r, v) == [ns |-> r.recive, rid |-> r, val |-> v]

Tick ==
  /\ now < MaxTime
  /\ now' = now + 1
  /\ UNCHANGED <<hash, split, friend, adding, answering, removing, tagging,
                 handlers>>

(***************************************************************************)
(* The Redis commands the request service uses.                            *)
(***************************************************************************)
HSet(h, r) == {e \in h : e.rid # r} \cup {FieldOf(r, "json")}
HSetNxOverwrites(h, r) == {e \in h : e.rid # r} \cup {FieldOf(r, "number")}  \* fault
HSetNx(h, r) == IF \E e \in h : e.rid = r THEN h ELSE h \cup {FieldOf(r, "number")}
HDel(h, k, f) == {e \in h : ~(e.ns = k /\ e.rid = f)}
HGetAnyKey(h, k, f) == {e.val : e \in {x \in h : x.rid = f}}  \* fault
HGet(h, k, f) == {e.val : e \in {x \in h : x.ns = k /\ x.rid = f}}

(***************************************************************************)
(* PUT /friends: FriendsService.add                                        *)
(***************************************************************************)
AddCheck(c, s, r, m) ==
  /\ adding[c] = Idle
  /\ adding' = [adding EXCEPT ![c] =
       [at |-> IF HasFriend(s, r) THEN "failed" ELSE "checked",
        req |-> [sender |-> s, recive |-> r, msg |-> m, expire |-> 0]]]
  /\ UNCHANGED <<reads, answering, removing, tagging, handlers>>

\* The lookup has answered: the request is made, its expiry counted from now,
\* and published; request.add is bound to the queue of the request service.
AddPublish(c) ==
  /\ adding[c].at = "checked"
  /\ adding' = [adding EXCEPT ![c] =
       [at |-> "waiting", req |-> [@.req EXCEPT !.expire = now + Expire]]]
  /\ msg' = [msg EXCEPT ![c] = "queued"]
  /\ UNCHANGED <<reads, answering, removing, tagging,
                 txn, commits, removals, faults>>

(***************************************************************************)
(* PUT /request/accept, DELETE /request/refuse: RequestService.call        *)
(***************************************************************************)
\* t sends a rid that some list has shown; the field is looked up among the
\* requests t has received, and one that is absent, or holds no object, ends
\* the call with NOT_FIND_REQUEST.
CallGet(c, t, r, s) ==
  /\ answering[c] = Idle
  /\ answering' = [answering EXCEPT ![c] =
       [at |-> IF HGet(hash, t, r) = {"json"} THEN "checked" ELSE "failed",
        status |-> s, by |-> t, req |-> r]]
  /\ UNCHANGED <<reads, adding, removing, tagging, handlers>>

\* friend.add.accept is bound to the queue of the friends service, and
\* friend.add.refuse to none: the exchange drops what nobody is bound to.
RouteIgnoringStatus(s) == "queued"  \* fault
Route(s) == IF s = "accept" THEN "queued" ELSE "dropped"

CallPublish(c) ==
  /\ answering[c].at = "checked"
  /\ IF Expired(answering[c].req)
       THEN /\ answering' = [answering EXCEPT ![c].at = "failed"]
            /\ msg' = msg
       ELSE /\ answering' = [answering EXCEPT ![c].at = "waiting"]
            /\ msg' = [msg EXCEPT ![c] = Route(answering[c].status)]
  /\ UNCHANGED <<reads, adding, removing, tagging,
                 txn, commits, removals, faults>>

(***************************************************************************)
(* The RPC library.  A caller waits ten seconds for its answer; the message *)
(* lives on.  An answer is sent before the message is acknowledged, and    *)
(* one that nobody waits for is dropped.                                   *)
(***************************************************************************)
TimeoutOfAddOnly(c) ==  \* fault
  /\ c \in Adds /\ adding[c].at = "waiting"
  /\ adding' = [adding EXCEPT ![c].at = "failed"]
  /\ UNCHANGED <<reads, answering, removing, tagging, handlers>>

Timeout(c) ==
  /\ \/ /\ c \in Adds
        /\ adding[c].at = "waiting"
        /\ adding' = [adding EXCEPT ![c].at = "failed"]
        /\ UNCHANGED answering
     \/ /\ c \in Answers
        /\ answering[c].at = "waiting"
        /\ answering' = [answering EXCEPT ![c].at = "failed"]
        /\ UNCHANGED adding
  /\ UNCHANGED <<reads, removing, tagging, handlers>>

Deliver(c) ==
  /\ msg[c] = "queued"
  /\ msg' = [msg EXCEPT ![c] = "begun"]
  /\ UNCHANGED <<reads, adding, answering, removing, tagging,
                 txn, commits, removals, faults>>

Answered(f, c) ==
  IF f[c].at = "waiting" THEN [f EXCEPT ![c].at = "done"] ELSE f

Reply(c) ==
  /\ msg[c] = "finished"
  /\ msg' = [msg EXCEPT ![c] = "replied"]
  /\ adding' = IF c \in Adds THEN Answered(adding, c) ELSE adding
  /\ answering' = IF c \in Answers THEN Answered(answering, c) ELSE answering
  /\ UNCHANGED <<reads, removing, tagging, txn, commits, removals, faults>>

AckRequeues(c) ==  \* fault
  /\ msg[c] = "replied"
  /\ msg' = [msg EXCEPT ![c] = "queued"]
  /\ UNCHANGED <<reads, adding, answering, removing, tagging,
                 txn, commits, removals, faults>>

Ack(c) ==
  /\ msg[c] = "replied"
  /\ msg' = [msg EXCEPT ![c] = "acked"]
  /\ UNCHANGED <<reads, adding, answering, removing, tagging,
                 txn, commits, removals, faults>>

\* A handler throws, its process dies or its connection breaks: the message
\* returns to its queue, and what the session saved is rolled back.
Abandoned(c) == {x \in removals : x[1] # c}
                \cup {<<c, "abandoned">> : x \in {y \in removals : y[1] = c}}

FailTo(c, m) ==
  /\ faults < MaxFaults
  /\ faults' = faults + 1
  /\ msg[c] \in AddSteps \cup AcceptSteps
  /\ msg' = [msg EXCEPT ![c] = m]
  /\ txn' = IF c \in Answers THEN [txn EXCEPT ![c] = {}] ELSE txn
  /\ removals' = Abandoned(c)
  /\ UNCHANGED <<reads, adding, answering, removing, tagging, commits>>

FailSwallowed(c) == FailTo(c, IF c \in Answers THEN "finished" ELSE "queued")  \* fault
FailDropped(c) == FailTo(c, "dropped")  \* fault
Fail(c) == FailTo(c, "queued")

(***************************************************************************)
(* request.add: RequestService.addRequest                                  *)
(***************************************************************************)
AddHset(c) ==
  /\ msg[c] = "begun"
  /\ hash' = HSet(hash, adding[c].req)
  /\ msg' = [msg EXCEPT ![c] = "hset"]
  /\ UNCHANGED <<now, split, friend, adding, answering, removing, tagging,
                 txn, commits, removals, faults>>

AddHsetnxLast(c) ==  \* fault
  /\ msg[c] = "hset"
  /\ hash' = HSetNx(hash, adding[c].req)
  /\ msg' = [msg EXCEPT ![c] = "finished"]
  /\ UNCHANGED <<now, split, friend, adding, answering, removing, tagging,
                 txn, commits, removals, faults>>

AddHsetnx(c) ==
  /\ msg[c] = "hset"
  /\ hash' = HSetNx(hash, adding[c].req)
  /\ msg' = [msg EXCEPT ![c] = "hsetnx"]
  /\ UNCHANGED <<now, split, friend, adding, answering, removing, tagging,
                 txn, commits, removals, faults>>

\* The score is the expiry plus the lifetime again, a function of the member.
AddZadd(c) ==
  /\ msg[c] = "hsetnx"
  /\ split' = split \cup {adding[c].req}
  /\ msg' = [msg EXCEPT ![c] = "finished"]
  /\ UNCHANGED <<now, hash, friend, adding, answering, removing, tagging,
                 txn, commits, removals, faults>>

(***************************************************************************)
(* friend.add.accept: FriendsService.accept                                *)
(***************************************************************************)
DocumentById(c, i) ==  \* fault
  LET r == answering[c].req
  IN  [id |-> <<c, commits[c], i>>, tag |-> NoTag,
       source |-> IF i = 0 THEN r.sender ELSE r.recive,
       target |-> UserId[IF i = 0 THEN r.recive ELSE r.sender]]

Document(c, i) ==
  LET r == answering[c].req
  IN  [id |-> <<c, commits[c], i>>, tag |-> NoTag,
       source |-> IF i = 0 THEN r.sender ELSE r.recive,
       target |-> IF i = 0 THEN r.recive ELSE r.sender]

\* The expiry check is outside the try block: the error goes to the library,
\* which puts the message back to be delivered again.
AcceptExpired(c) ==
  /\ msg[c] = "begun"
  /\ Expired(answering[c].req)
  /\ msg' = [msg EXCEPT ![c] = "queued"]
  /\ UNCHANGED <<reads, adding, answering, removing, tagging,
                 txn, commits, removals, faults>>

AcceptSaveNoCheck(c) ==  \* fault
  /\ msg[c] = "begun"
  /\ txn' = [txn EXCEPT ![c] = {Document(c, 0)}]
  /\ msg' = [msg EXCEPT ![c] = "saved"]
  /\ UNCHANGED <<reads, adding, answering, removing, tagging,
                 commits, removals, faults>>

AcceptSaveNoSession(c) ==  \* fault
  /\ msg[c] = "begun"
  /\ ~Expired(answering[c].req)
  /\ friend' = friend \cup {Document(c, 0)}
  /\ msg' = [msg EXCEPT ![c] = "saved"]
  /\ UNCHANGED <<now, hash, split, adding, answering, removing, tagging,
                 txn, commits, removals, faults>>

AcceptSave(c) ==
  /\ msg[c] = "begun"
  /\ ~Expired(answering[c].req)
  /\ txn' = [txn EXCEPT ![c] = {Document(c, 0)}]
  /\ msg' = [msg EXCEPT ![c] = "saved"]
  /\ UNCHANGED <<reads, adding, answering, removing, tagging,
                 commits, removals, faults>>

AcceptSaveMirror(c) ==
  /\ msg[c] = "saved"
  /\ txn' = [txn EXCEPT ![c] = @ \cup {Document(c, 1)}]
  /\ msg' = [msg EXCEPT ![c] = "savedBoth"]
  /\ UNCHANGED <<reads, adding, answering, removing, tagging,
                 commits, removals, faults>>

AcceptCallRemove(c) ==
  /\ msg[c] = "savedBoth"
  /\ removals' = removals \cup {<<c, "awaited">>}
  /\ msg' = [msg EXCEPT ![c] = "removing"]
  /\ UNCHANGED <<reads, adding, answering, removing, tagging,
                 txn, commits, faults>>

\* request.remove: RequestService.removeRequest(tid, rid).  The library calls
\* a handler with the payload and the raw message, so tid is the object
\* {tid, rid} and rid an AMQP message: neither names what the caller meant.
RemovedKey(r) == ObjectKey
RemovedField(r) == ObjectKey

RemoveRequest(c, w) ==
  /\ <<c, w>> \in removals
  /\ removals' = removals \ {<<c, w>>}
  /\ hash' = HDel(hash, RemovedKey(answering[c].req),
                        RemovedField(answering[c].req))
  /\ msg' = IF w = "awaited" THEN [msg EXCEPT ![c] = "removed"] ELSE msg
  /\ UNCHANGED <<now, split, friend, adding, answering, removing, tagging,
                 txn, commits, faults>>

Commit(c) ==
  /\ msg[c] = "removed"
  /\ friend' = friend \cup txn[c]
  /\ commits' = [commits EXCEPT ![c] = @ + 1]
  /\ txn' = [txn EXCEPT ![c] = {}]

AcceptCommit(c) ==
  /\ Commit(c)
  /\ msg' = [msg EXCEPT ![c] = "finished"]
  /\ UNCHANGED <<now, hash, split, adding, answering, removing, tagging,
                 removals, faults>>

\* The commit takes effect and its answer is lost: the catch block cannot
\* abort it any more, throws, and the message is delivered again.
AcceptCommitLost(c) ==
  /\ faults < MaxFaults
  /\ faults' = faults + 1
  /\ Commit(c)
  /\ msg' = [msg EXCEPT ![c] = "queued"]
  /\ UNCHANGED <<now, hash, split, adding, answering, removing, tagging,
                 removals>>

(***************************************************************************)
(* DELETE /friends: FriendsService.remove                                  *)
(***************************************************************************)
RemoveCheck(c, s, t) ==
  /\ removing[c] = Idle
  /\ removing' = [removing EXCEPT ![c] =
       [at |-> IF HasFriend(s, t) THEN "checked" ELSE "failed",
        by |-> s, target |-> t]]
  /\ UNCHANGED <<reads, adding, answering, tagging, handlers>>

\* deleteOne of a document whose target is x, which need not exist.
WithoutOne(s, x) ==
  LET match == {d \in friend : d.source = s /\ d.target = x}
  IN  IF match = {} THEN {friend} ELSE {friend \ {d} : d \in match}

\* Friends are stored under the tid of their target and deleted by its _id,
\* if users.findOne, which casts the tid it is given, finds one.  Then the
\* notice is published with the routing key config.toml does not define:
\* whether the call ends well is up to both clients.
RemovedTargetByTid(t) == t  \* fault
RemovedTarget(t) == UserId[t]

RemoveDelete(c) ==
  /\ removing[c].at = "checked"
  /\ friend' \in WithoutOne(removing[c].by, RemovedTarget(removing[c].target))
  /\ \E a \in {"done", "failed"} :
       removing' = [removing EXCEPT ![c].at = a]
  /\ UNCHANGED <<now, hash, split, adding, answering, tagging, handlers>>

(***************************************************************************)
(* PATCH /friends/tag: FriendsService.updateTag                            *)
(***************************************************************************)
TagCheck(c, s, t, g) ==
  /\ tagging[c] = Idle
  /\ tagging' = [tagging EXCEPT ![c] =
       [at |-> IF HasFriend(s, t) THEN "checked" ELSE "failed",
        by |-> s, target |-> t, tag |-> g]]
  /\ UNCHANGED <<reads, adding, answering, removing, handlers>>

TagUpdate(c) ==
  LET t == tagging[c]
  IN  /\ t.at = "checked"
      /\ \/ /\ ~HasFriend(t.by, t.target)
            /\ friend' = friend
         \/ \E d \in friend :
              /\ d.source = t.by /\ d.target = t.target
              /\ friend' = (friend \ {d}) \cup {[d EXCEPT !.tag = t.tag]}
      /\ tagging' = [tagging EXCEPT ![c].at = "done"]
      /\ UNCHANGED <<now, hash, split, adding, answering, removing, handlers>>

(***************************************************************************)
(* The system                                                              *)
(***************************************************************************)
AddCallStep(c) ==
  \/ \E s, r \in Tids, m \in Msgs : AddCheck(c, s, r, m)
  \/ AddPublish(c)

AnswerCallStep(c) ==
  \/ \E t \in Tids, s \in {"accept", "refuse"} :
       \E r \in split : CallGet(c, t, r, s)
  \/ CallPublish(c)

EditStep ==
  \/ \E c \in Removes : \/ \E s, t \in Tids : RemoveCheck(c, s, t)
                        \/ RemoveDelete(c)
  \/ \E c \in Retags : \/ \E s, t \in Tids, g \in Tags : TagCheck(c, s, t, g)
                       \/ TagUpdate(c)

AddHandler(c) == AddHset(c) \/ AddHsetnx(c) \/ AddZadd(c)

AcceptHandler(c) ==
  \/ AcceptExpired(c)
  \/ AcceptSave(c)
  \/ AcceptSaveMirror(c)
  \/ AcceptCallRemove(c)
  \/ AcceptCommit(c)

Consumer(c) == Deliver(c) \/ Reply(c) \/ Ack(c)

Next ==
  \/ Tick
  \/ \E c \in Adds : AddCallStep(c) \/ AddHandler(c)
  \/ \E c \in Answers : \/ AnswerCallStep(c)
                        \/ AcceptHandler(c)
                        \/ AcceptCommitLost(c)
                        \/ \E w \in {"awaited", "abandoned"} : RemoveRequest(c, w)
  \/ \E c \in Calls : Timeout(c) \/ Consumer(c) \/ Fail(c)
  \/ EditStep

Spec == Init /\ [][Next]_vars

\* Node's event loop runs every continuation and every timer, and the broker
\* delivers what is queued, so each step of a call or handler that can go on
\* is taken at last.  No user has to call, and the clock may stand still.
Fairness ==
  /\ \A c \in Adds : WF_vars(AddPublish(c)) /\ WF_vars(AddHandler(c))
  /\ \A c \in Answers :
       /\ WF_vars(CallPublish(c)) /\ WF_vars(AcceptHandler(c))
       /\ WF_vars(RemoveRequest(c, "awaited"))
  /\ \A c \in Calls : WF_vars(Timeout(c)) /\ WF_vars(Consumer(c))

LiveSpec == Spec /\ Fairness

(***************************************************************************)
(* Properties                                                              *)
(***************************************************************************)

\* Every variable has its type: what the code stores, sends and remembers.
TypeOK ==
  /\ now \in Nat /\ faults \in Nat
  /\ hash \subseteq Field
  /\ split \subseteq Request
  /\ friend \subseteq Doc
  /\ adding \in [Adds -> AddCall]
  /\ answering \in [Answers -> AnswerCall]
  /\ removing \in [Removes -> RemoveCall]
  /\ tagging \in [Retags -> TagCall]
  /\ msg \in [Calls -> MsgState]
  /\ txn \in [Answers -> SUBSET Doc]
  /\ commits \in [Answers -> Nat]
  /\ removals \subseteq Answers \X {"awaited", "abandoned"}

Mirror(d, e) == /\ e.id = <<d.id[1], d.id[2], 1 - d.id[3]>>
                /\ e.source = d.target /\ e.target = d.source

\* A friendship is stored for both of its members or for neither: whatever
\* crashes, fails or is delivered twice, no document of FriendsService.accept
\* is ever in the collection without the one its transaction saved with it.
FriendshipIsMutual == \A d \in friend : \E e \in friend : Mirror(d, e)

\* Nobody becomes a friend unasked: a document goes back to an accept call,
\* made by the receiver of a request which its sender had sent to them.
FriendshipByConsent ==
  \A d \in friend :
    LET a == answering[d.id[1]]
    IN  /\ a # Idle /\ a.status = "accept" /\ a.by = a.req.recive
        /\ {d.source, d.target} = {a.req.sender, a.req.recive}
        /\ \E c \in Adds : adding[c] # Idle /\ adding[c].req = a.req

\* When PUT /request/accept answers without an error, the two are friends of
\* each other, however often its message was delivered before.
AcceptedMeansFriends ==
  \A c \in Answers :
    answering[c].at = "done" =>
      /\ HasFriend(answering[c].req.sender, answering[c].by)
      /\ HasFriend(answering[c].by, answering[c].req.sender)

\* When PUT /friends answers without an error, the request is in the sorted
\* set its receiver's list is read from.
AddedIsListed ==
  \A c \in Adds : adding[c].at = "done" => adding[c].req \in split

\* getAllRequest parses the hash field of every member of the sorted set: the
\* field is there, and holds the request and not a bare number.
ListedIsStored == \A r \in split : HGet(hash, r.recive, r) = {"json"}

\* The accept calls whose message was published, and those between s and t.
Accepted == {c \in Answers : msg[c] # "none" /\ answering[c].status = "accept"}
AcceptedOf(s, t) ==
  {c \in Accepted : {answering[c].req.sender, answering[c].req.recive} = {s, t}}

\* The pairs of documents between s and t: ids of one pair differ in the last place.
PairsOf(s, t) ==
  {<<d.id[1], d.id[2]>> : d \in {e \in friend : {e.source, e.target} = {s, t}}}

\* Two users have one pair of documents for every accept that was published
\* between them, and at most one more for every failure.  Nothing keeps them
\* from having several: a request can be accepted twice, and two can cross.
OnePairPerAcceptOrFault ==
  \A s, t \in Tids :
    Cardinality(PairsOf(s, t)) <= Cardinality(AcceptedOf(s, t)) + faults

Overdue(c) == answering[c] # Idle /\ Expired(answering[c].req)

\* A request that was accepted in time, but whose message is still in the
\* queue when it expires, never makes a friendship: it is bounced for ever.
ExpiredNeverAccepted ==
  \A c \in Answers :
    []( msg[c] = "queued" /\ commits[c] = 0 /\ Overdue(c)
        => [](commits[c] = 0) )

\* Every call is answered: with a result, an error or the RPC timeout.
EveryCallAnswered ==
  /\ \A c \in Adds : adding[c] # Idle ~> adding[c].at \in {"done", "failed"}
  /\ \A c \in Answers :
       answering[c] # Idle ~> answering[c].at \in {"done", "failed"}

\* An accept message in the queue is acknowledged in the end, failures and
\* redeliveries notwithstanding, unless its request expires first.
AcceptSettles ==
  \A c \in Answers :
    msg[c] = "queued" ~> msg[c] = "acked" \/ Overdue(c)

\* The services implement Friendship: a pair has asked once the request is
\* stored, has agreed once its accept message is published, and is friends
\* once a document says so.
Asked == {<<e.rid.sender, e.rid.recive>> : e \in hash}
Agreed == {<<answering[c].req.sender, answering[c].req.recive>> : c \in Accepted}
Friends == {<<d.source, d.target>> : d \in friend}
F == INSTANCE Friendship WITH asked <- Asked, agreed <- Agreed, friends <- Friends
ImplementsFriendship == F!Spec

\* The test of removeRequest takes the request of a rid out of the store, and
\* accept calls it: a request that was accepted is not stored any longer.
AcceptedIsRemoved ==
  \A c \in Answers :
    answering[c].at = "done" =>
      HGet(hash, answering[c].req.recive, answering[c].req) = {}
=============================================================================
