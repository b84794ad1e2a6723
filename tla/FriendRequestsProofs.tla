------------------------ MODULE FriendRequestsProofs ------------------------
(***************************************************************************)
(* Proofs about FriendRequests, for every set of accounts and calls, every *)
(* lifetime of a request and every number of failures.                     *)
(***************************************************************************)
EXTENDS FriendRequests, FiniteSetTheorems, TLAPS

USE DEF Idle, At

(***************************************************************************)
(* Types                                                                   *)
(***************************************************************************)

\* The document a handler makes of the request it was sent is well typed.
LEMMA DocumentType ==
  ASSUME TypeOK, NEW c \in Answers, NEW i \in {0, 1},
         answering[c] \in [at : At, status : {"accept", "refuse"},
                           by : Tids, req : Request]
  PROVE  Document(c, i) \in Doc
  BY DEF TypeOK, Document, Doc, Request

\* A message is in the steps of its own kind of handler, and is not there at
\* all before its call has published it.
MsgInv ==
  /\ \A c \in Adds :
       /\ msg[c] \in {"none", "queued", "acked"} \cup AddSteps
       /\ adding[c].at \in {"idle", "checked"} => msg[c] = "none"
       /\ adding[c].at \in {"waiting", "done"} => msg[c] # "none"
  /\ \A c \in Answers :
       /\ msg[c] \in {"none", "dropped", "queued", "acked"} \cup AcceptSteps
       /\ answering[c].at \in {"idle", "checked"} => msg[c] = "none"
       /\ answering[c].at \in {"waiting", "done"} => msg[c] # "none"
       /\ msg[c] \notin {"none", "dropped"} => answering[c].status = "accept"
       /\ commits[c] > 0 => msg[c] \notin {"none", "dropped"}
       /\ <<c, "awaited">> \in removals => msg[c] = "removing"

Typed == TypeOK /\ MsgInv

\* Nothing has been published at first, so the messages are where they may be.
LEMMA InitTyped == Init => Typed
<1> SUFFICES ASSUME Init PROVE Typed
  OBVIOUS
<1>1. TypeOK
  BY DEF Init, TypeOK, AddCall, AnswerCall, RemoveCall, TagCall, MsgState, Calls
<1>2. MsgInv
  BY DEF Init, MsgInv, Calls
<1> QED
  BY <1>1, <1>2 DEF Typed

\* The call of a message has made its request.
LEMMA AddIsTyped ==
  ASSUME Typed, NEW c \in Adds, msg[c] # "none" \/ adding[c].at \in At
  PROVE  adding[c] \in [at : At, req : Request]
  BY DEF Typed, TypeOK, MsgInv, AddCall

\* So has the call that answers it, which knows the status, too.
LEMMA AnswerIsTyped ==
  ASSUME Typed, NEW c \in Answers, msg[c] # "none" \/ answering[c].at \in At
  PROVE  answering[c] \in [at : At, status : {"accept", "refuse"},
                           by : Tids, req : Request]
<1>1. answering[c] # Idle
  <2>1. answering[c].at \in {"idle", "checked"} => msg[c] = "none"
    BY DEF Typed, MsgInv
  <2> QED
    BY <2>1
<1>2. answering[c] \in AnswerCall
  BY DEF Typed, TypeOK
<1> QED
  BY <1>1, <1>2 DEF AnswerCall

\* HSET and HSETNX keep a hash a set of fields.
LEMMA HashIsTyped ==
  ASSUME NEW h, h \subseteq Field, NEW r \in Request
  PROVE  HSet(h, r) \subseteq Field /\ HSetNx(h, r) \subseteq Field
  BY DEF HSet, HSetNx, FieldOf, Field, Request

\* Every step of a call, handler or queue keeps the types, and its message in the
\* steps of its own kind.
LEMMA NextTyped == Typed /\ [Next]_vars => Typed'
<1> SUFFICES ASSUME Typed, [Next]_vars PROVE Typed'
  OBVIOUS
<1> USE DEF Typed, TypeOK, MsgInv, reads, handlers, Calls, MsgState, AddSteps,
            AcceptSteps
<1>1. CASE Tick
  BY <1>1 DEF Tick
<1>2. ASSUME NEW c \in Adds, NEW s \in Tids, NEW r \in Tids, NEW m \in Msgs,
             AddCheck(c, s, r, m)
      PROVE  Typed'
  BY <1>2 DEF AddCheck, AddCall, Request
<1>3. ASSUME NEW c \in Adds, AddPublish(c) PROVE Typed'
  <2>1. adding[c] \in [at : At, req : Request]
    BY <1>3, AddIsTyped DEF AddPublish
  <2>2. [at |-> "waiting", req |-> [adding[c].req EXCEPT !.expire = now + Expire]]
          \in [at : At, req : Request]
    BY <2>1, NatAssumption DEF Request
  <2>3. adding' \in [Adds -> AddCall]
    BY <1>3, <2>2 DEF AddPublish, AddCall
  <2> QED
    BY <1>3, <2>3, KeyAssumption DEF AddPublish
<1>4. ASSUME NEW c \in Adds, AddHset(c) PROVE Typed'
  <2>1. hash' \subseteq Field
    BY <1>4, AddIsTyped, HashIsTyped DEF AddHset
  <2> QED
    BY <1>4, <2>1, KeyAssumption DEF AddHset
<1>5. ASSUME NEW c \in Adds, AddHsetnx(c) PROVE Typed'
  <2>1. hash' \subseteq Field
    BY <1>5, AddIsTyped, HashIsTyped DEF AddHsetnx
  <2> QED
    BY <1>5, <2>1, KeyAssumption DEF AddHsetnx
<1>6. ASSUME NEW c \in Adds, AddZadd(c) PROVE Typed'
  <2>1. split' \subseteq Request
    BY <1>6, AddIsTyped DEF AddZadd
  <2> QED
    BY <1>6, <2>1, KeyAssumption DEF AddZadd
<1>7. ASSUME NEW c \in Answers, NEW t \in Tids, NEW s \in {"accept", "refuse"},
             NEW r \in split, CallGet(c, t, r, s)
      PROVE  Typed'
  BY <1>7 DEF CallGet, AnswerCall
<1>8. ASSUME NEW c \in Answers, CallPublish(c) PROVE Typed'
  <2>1. answering[c] \in [at : At, status : {"accept", "refuse"},
                          by : Tids, req : Request]
    BY <1>8, AnswerIsTyped DEF CallPublish
  <2>2. answering' \in [Answers -> AnswerCall]
    BY <1>8, <2>1 DEF CallPublish, AnswerCall
  <2>3. msg' \in [Calls -> MsgState]
    BY <1>8 DEF CallPublish, Route
  <2> QED
    BY <1>8, <2>1, <2>2, <2>3, KeyAssumption DEF CallPublish, Route
<1>9. ASSUME NEW c \in Answers, AcceptExpired(c) PROVE Typed'
  BY <1>9, KeyAssumption DEF AcceptExpired
<1>10. ASSUME NEW c \in Answers, AcceptSave(c) PROVE Typed'
  <2>1. Document(c, 0) \in Doc
    BY <1>10, AnswerIsTyped, DocumentType DEF AcceptSave
  <2> QED
    BY <1>10, <2>1, KeyAssumption DEF AcceptSave
<1>11. ASSUME NEW c \in Answers, AcceptSaveMirror(c) PROVE Typed'
  <2>1. Document(c, 1) \in Doc
    BY <1>11, AnswerIsTyped, DocumentType DEF AcceptSaveMirror
  <2> QED
    BY <1>11, <2>1, KeyAssumption DEF AcceptSaveMirror
<1>12. ASSUME NEW c \in Answers, AcceptCallRemove(c) PROVE Typed'
  BY <1>12, KeyAssumption DEF AcceptCallRemove
<1>13. ASSUME NEW c \in Answers, AcceptCommit(c) PROVE Typed'
  BY <1>13, KeyAssumption DEF AcceptCommit, Commit
<1>14. ASSUME NEW c \in Answers, AcceptCommitLost(c) PROVE Typed'
  BY <1>14, KeyAssumption DEF AcceptCommitLost, Commit
<1>15. ASSUME NEW c \in Answers, NEW w \in {"awaited", "abandoned"},
              RemoveRequest(c, w)
       PROVE  Typed'
  <2>1. hash' \subseteq Field
    BY <1>15 DEF RemoveRequest, HDel
  <2>2. msg' \in [Calls -> MsgState]
    BY <1>15 DEF RemoveRequest
  <2> QED
    BY <1>15, <2>1, <2>2, KeyAssumption DEF RemoveRequest
<1>16. ASSUME NEW c \in Calls, Timeout(c) PROVE Typed'
  BY <1>16, KeyAssumption DEF Timeout, AddCall, AnswerCall
<1>17. ASSUME NEW c \in Calls, Deliver(c) PROVE Typed'
  BY <1>17, KeyAssumption DEF Deliver
<1>18. ASSUME NEW c \in Calls, Reply(c) PROVE Typed'
  BY <1>18, KeyAssumption DEF Reply, Answered, AddCall, AnswerCall
<1>19. ASSUME NEW c \in Calls, Ack(c) PROVE Typed'
  BY <1>19, KeyAssumption DEF Ack
<1>20. ASSUME NEW c \in Calls, Fail(c) PROVE Typed'
  <2>1. removals' \subseteq Answers \X {"awaited", "abandoned"}
    BY <1>20 DEF Fail, FailTo, Abandoned
  <2>2. txn' \in [Answers -> SUBSET Doc]
    BY <1>20 DEF Fail, FailTo
  <2>3. \A k \in Answers : <<k, "awaited">> \in removals'
                           => k # c /\ <<k, "awaited">> \in removals
    BY <1>20 DEF Fail, FailTo, Abandoned
  <2> QED
    BY <1>20, <2>1, <2>2, <2>3, KeyAssumption DEF Fail, FailTo
<1>21. ASSUME NEW c \in Removes, NEW s \in Tids, NEW t \in Tids, RemoveCheck(c, s, t)
       PROVE  Typed'
  BY <1>21 DEF RemoveCheck, RemoveCall
<1>22. ASSUME NEW c \in Removes, RemoveDelete(c) PROVE Typed'
  <2>1. friend' \subseteq friend
    BY <1>22 DEF RemoveDelete, WithoutOne
  <2>2. removing' \in [Removes -> RemoveCall]
    BY <1>22 DEF RemoveDelete, RemoveCall
  <2> QED
    BY <1>22, <2>1, <2>2 DEF RemoveDelete
<1>23. ASSUME NEW c \in Retags, NEW s \in Tids, NEW t \in Tids, NEW g \in Tags,
              TagCheck(c, s, t, g)
       PROVE  Typed'
  BY <1>23 DEF TagCheck, TagCall
<1>24. ASSUME NEW c \in Retags, TagUpdate(c) PROVE Typed'
  <2>1. tagging[c] \in [at : At, by : Tids, target : Tids, tag : Tags]
    BY <1>24 DEF TagUpdate, TagCall
  <2>2. friend' \subseteq Doc
    BY <1>24, <2>1 DEF TagUpdate, Doc
  <2>3. tagging' \in [Retags -> TagCall]
    BY <1>24, <2>1 DEF TagUpdate, TagCall
  <2> QED
    BY <1>24, <2>2, <2>3 DEF TagUpdate
<1>25. CASE UNCHANGED vars
  BY <1>25 DEF vars
<1> QED
  BY <1>1, <1>2, <1>3, <1>4, <1>5, <1>6, <1>7, <1>8, <1>9, <1>10, <1>11, <1>12,
     <1>13, <1>14, <1>15, <1>16, <1>17, <1>18, <1>19, <1>20, <1>21, <1>22, <1>23,
     <1>24, <1>25
     DEF Next, AddCallStep, AnswerCallStep, AddHandler, AcceptHandler, Consumer,
         EditStep

(***************************************************************************)
(* The request store                                                       *)
(***************************************************************************)

\* Every field of the hashes holds a request some call has published, every
\* listed request is stored, and the steps of the add handler leave behind
\* what they say; an answer under way is by the receiver of a stored request.
StoreInv ==
  /\ \A e \in hash :
       /\ e = FieldOf(e.rid, "json")
       /\ \E a \in Adds : msg[a] # "none" /\ adding[a].req = e.rid
  /\ \A r \in split : FieldOf(r, "json") \in hash
  /\ \A c \in Adds :
       /\ msg[c] \in {"hset", "hsetnx", "finished", "replied", "acked"}
            => FieldOf(adding[c].req, "json") \in hash
       /\ msg[c] \in {"finished", "replied", "acked"} \/ adding[c].at = "done"
            => adding[c].req \in split
  /\ \A c \in Answers :
       answering[c].at = "checked" \/ msg[c] # "none"
         => /\ answering[c].by = answering[c].req.recive
            /\ FieldOf(answering[c].req, "json") \in hash

\* The request store of addRequest is empty at first.
LEMMA InitStore == Init => StoreInv
  BY DEF Init, StoreInv, Calls

\* HSET adds the field or changes nothing, since no field holds a number.
LEMMA HSetAdds ==
  ASSUME StoreInv, NEW r
  PROVE  HSet(hash, r) = hash \cup {FieldOf(r, "json")}
  BY DEF StoreInv, HSet, FieldOf

\* HDEL finds nothing under the key of an object.
LEMMA HDelFindsNothing ==
  ASSUME TypeOK, NEW c
  PROVE  HDel(hash, RemovedKey(c), RemovedField(c)) = hash
  BY KeyAssumption DEF TypeOK, Field, HDel, RemovedKey

\* A request looked up among those of t and found was sent to t.
LEMMA FoundIsOwn ==
  ASSUME StoreInv, NEW t, NEW r, HGet(hash, t, r) = {"json"}
  PROVE  r.recive = t /\ FieldOf(r, "json") \in hash
<1>1. PICK e \in hash : e.ns = t /\ e.rid = r
  BY DEF HGet
<1>2. e = FieldOf(r, "json")
  BY <1>1 DEF StoreInv
<1> QED
  BY <1>1, <1>2 DEF FieldOf

\* The order hset, hsetnx, zadd of addRequest survives retries and crashes: no
\* member is listed before its field is stored, and no field becomes a number.
LEMMA NextStore == Typed /\ Typed' /\ StoreInv /\ [Next]_vars => StoreInv'
<1> SUFFICES ASSUME Typed, Typed', StoreInv, [Next]_vars PROVE StoreInv'
  OBVIOUS
<1> USE DEF StoreInv, reads, handlers, Calls
<1>t. /\ adding \in [Adds -> AddCall] /\ answering \in [Answers -> AnswerCall]
      /\ msg \in [Calls -> MsgState]
  BY DEF Typed, TypeOK
<1>m. /\ \A c \in Adds : adding[c].at \in {"idle", "checked"} => msg[c] = "none"
      /\ \A c \in Answers : answering[c].at \in {"idle", "checked"} => msg[c] = "none"
  BY DEF Typed, MsgInv
<1>1. CASE Tick
  BY <1>1 DEF Tick
<1>2. ASSUME NEW c \in Adds, NEW s \in Tids, NEW r \in Tids, NEW m \in Msgs,
             AddCheck(c, s, r, m)
      PROVE  StoreInv'
  BY <1>2, <1>t, <1>m DEF AddCheck
<1>3. ASSUME NEW c \in Adds, AddPublish(c) PROVE StoreInv'
  BY <1>3, <1>t, <1>m, KeyAssumption DEF AddPublish
<1>4. ASSUME NEW c \in Adds, AddHset(c) PROVE StoreInv'
  <2>1. hash' = hash \cup {FieldOf(adding[c].req, "json")}
    BY <1>4, HSetAdds DEF AddHset
  <2> QED
    BY <1>4, <2>1, <1>t, KeyAssumption DEF AddHset, FieldOf
<1>5. ASSUME NEW c \in Adds, AddHsetnx(c) PROVE StoreInv'
  <2>1. hash' = hash
    BY <1>5 DEF AddHsetnx, HSetNx, FieldOf
  <2> QED
    BY <1>5, <2>1, <1>t, KeyAssumption DEF AddHsetnx
<1>6. ASSUME NEW c \in Adds, AddZadd(c) PROVE StoreInv'
  BY <1>6, <1>t, KeyAssumption DEF AddZadd
<1>7. ASSUME NEW c \in Answers, NEW t \in Tids, NEW s \in {"accept", "refuse"},
             NEW r \in split, CallGet(c, t, r, s)
      PROVE  StoreInv'
  <2>1. answering'[c].at = "checked" => r.recive = t /\ FieldOf(r, "json") \in hash
    BY <1>7, <1>t, FoundIsOwn DEF CallGet
  <2>2. msg[c] = "none"
    BY <1>7, <1>m DEF CallGet
  <2> QED
    BY <1>7, <2>1, <2>2, <1>t DEF CallGet
<1>8. ASSUME NEW c \in Answers, CallPublish(c) PROVE StoreInv'
  <2>1. \A k \in Answers : answering'[k].by = answering[k].by
                          /\ answering'[k].req = answering[k].req
    BY <1>8, <1>t, AnswerIsTyped DEF CallPublish
  <2>2. \A k \in Answers : k # c => answering'[k] = answering[k] /\ msg'[k] = msg[k]
    BY <1>8, <1>t DEF CallPublish
  <2>3. \A k \in Adds : msg'[k] = msg[k]
    BY <1>8, <1>t, KeyAssumption DEF CallPublish
  <2> QED
    BY <1>8, <2>1, <2>2, <2>3 DEF CallPublish
<1>9. ASSUME NEW c \in Answers, AcceptHandler(c) \/ AcceptCommitLost(c) PROVE StoreInv'
  BY <1>9, <1>t, KeyAssumption DEF AcceptHandler, AcceptExpired, AcceptSave,
     AcceptSaveMirror, AcceptCallRemove, AcceptCommit, AcceptCommitLost, Commit
<1>10. ASSUME NEW c \in Answers, NEW w \in {"awaited", "abandoned"},
              RemoveRequest(c, w)
       PROVE  StoreInv'
  <2>1. hash' = hash
    BY <1>10, HDelFindsNothing DEF RemoveRequest, Typed
  <2>2. w = "awaited" => msg[c] = "removing"
    BY <1>10 DEF RemoveRequest, Typed, MsgInv
  <2> QED
    BY <1>10, <2>1, <2>2, <1>t, KeyAssumption DEF RemoveRequest
<1>11. ASSUME NEW c \in Calls, Timeout(c) PROVE StoreInv'
  <2>1. \A k \in Adds : /\ adding'[k].req = adding[k].req
                        /\ adding'[k].at = "done" => adding[k].at = "done"
    BY <1>11, <1>t, AddIsTyped DEF Timeout
  <2>2. \A k \in Answers : /\ answering'[k].by = answering[k].by
                           /\ answering'[k].req = answering[k].req
                           /\ answering'[k].at = "checked" => answering[k].at = "checked"
    BY <1>11, <1>t, AnswerIsTyped DEF Timeout
  <2>3. UNCHANGED <<hash, split, msg>>
    BY <1>11 DEF Timeout
  <2> QED
    BY <2>1, <2>2, <2>3 DEF FieldOf
<1>12. ASSUME NEW c \in Calls, Deliver(c) \/ Ack(c) \/ Fail(c) PROVE StoreInv'
  BY <1>12, <1>t, KeyAssumption DEF Deliver, Ack, Fail, FailTo, AddSteps, AcceptSteps
<1>13. ASSUME NEW c \in Calls, Reply(c) PROVE StoreInv'
  BY <1>13, <1>t, KeyAssumption DEF Reply, Answered
<1>14. CASE EditStep
  BY <1>14 DEF EditStep, RemoveCheck, RemoveDelete, TagCheck, TagUpdate
<1>15. CASE UNCHANGED vars
  BY <1>15 DEF vars
<1> QED
  BY <1>1, <1>2, <1>3, <1>4, <1>5, <1>6, <1>7, <1>8, <1>9, <1>10, <1>11, <1>12,
     <1>13, <1>14, <1>15
     DEF Next, AddCallStep, AnswerCallStep, AddHandler, Consumer

(***************************************************************************)
(* The friend collection                                                   *)
(***************************************************************************)

\* d names the two ends of the request of its accept call.
Made(d) ==
  LET r == answering[d.id[1]].req
  IN  /\ d.source = IF d.id[3] = 0 THEN r.sender ELSE r.recive
      /\ d.target = IF d.id[3] = 0 THEN r.recive ELSE r.sender

\* A session holds what its handler has saved so far.  A stored document was
\* made by an earlier commit of its call, and its mirror with it; a call has
\* documents once its transaction committed, which is before its message is
\* answered.
FriendInv ==
  /\ \A c \in Answers :
       txn[c] = IF msg[c] = "saved" THEN {Document(c, 0)}
                ELSE IF msg[c] \in {"savedBoth", "removing", "removed"}
                       THEN {Document(c, 0), Document(c, 1)}
                       ELSE {}
  /\ \A d \in friend : d.id[2] < commits[d.id[1]] /\ Made(d)
  /\ FriendshipIsMutual
  /\ \A c \in Answers :
       /\ commits[c] > 0 => \E d \in friend : d.id[1] = c
       /\ msg[c] \in {"finished", "replied", "acked"} \/ answering[c].at = "done"
            => commits[c] > 0

\* No document of the friend collection is there at first.
LEMMA InitFriend == Init => FriendInv
  BY DEF Init, FriendInv, FriendshipIsMutual, Calls

\* A commit adds a pair of new documents, each the mirror of the other.
LEMMA CommitKeepsFriend ==
  ASSUME Typed, Typed', FriendInv, NEW c \in Answers, Commit(c),
         UNCHANGED answering, msg' \in [Calls -> MsgState],
         \A k \in Answers : k # c => msg'[k] = msg[k],
         msg'[c] \in {"finished", "queued"}
  PROVE  FriendInv'
<1> DEFINE d0 == Document(c, 0)
           d1 == Document(c, 1)
<1>1. friend' = friend \cup {d0, d1}
  BY DEF Commit, FriendInv
<1>2. /\ commits \in [Answers -> Nat]
      /\ commits' = [commits EXCEPT ![c] = @ + 1]
      /\ txn' = [txn EXCEPT ![c] = {}]
      /\ txn \in [Answers -> SUBSET Doc]
  BY DEF Commit, Typed, TypeOK
<1>3. /\ d0.id = <<c, commits[c], 0>> /\ d1.id = <<c, commits[c], 1>>
      /\ Mirror(d0, d1) /\ Mirror(d1, d0)
  BY DEF Document, Mirror
<1>4. Made(d0) /\ Made(d1)
  BY DEF Document, Made
<1>5. \A k \in Answers : txn'[k] = IF msg'[k] = "saved" THEN {Document(k, 0)'}
                       ELSE IF msg'[k] \in {"savedBoth", "removing", "removed"}
                              THEN {Document(k, 0)', Document(k, 1)'}
                              ELSE {}
  <2> TAKE k \in Answers
  <2>1. CASE k = c
    BY <2>1, <1>2
  <2>2. CASE k # c
    <3>1. commits'[k] = commits[k] /\ txn'[k] = txn[k]
      BY <2>2, <1>2
    <3> QED
      BY <2>2, <3>1 DEF FriendInv, Document
  <2> QED
    BY <2>1, <2>2
<1>6. \A d \in friend' : d.id[2] < commits'[d.id[1]] /\ Made(d)'
  <2> TAKE d \in friend'
  <2>1. CASE d \in friend
    <3>1. d.id[1] \in Answers /\ d.id[2] \in Nat
      BY <2>1 DEF Typed, TypeOK, Doc
    <3>2. d.id[2] < commits[d.id[1]] /\ Made(d)
      BY <2>1 DEF FriendInv
    <3> QED
      BY <3>1, <3>2, <1>2 DEF Made
  <2>2. CASE d \in {d0, d1}
    BY <2>2, <1>2, <1>3, <1>4 DEF Made
  <2> QED
    BY <2>1, <2>2, <1>1
<1>7. FriendshipIsMutual'
  <2>1. \A d \in friend : \E e \in friend : Mirror(d, e)
    BY DEF FriendInv, FriendshipIsMutual
  <2>2. \A d \in friend' : \E e \in friend' : Mirror(d, e)
    BY <2>1, <1>1, <1>3
  <2> QED
    BY <2>2 DEF FriendshipIsMutual, Mirror
<1>8. \A k \in Answers :
        /\ commits'[k] > 0 => \E d \in friend' : d.id[1] = k
        /\ msg'[k] \in {"finished", "replied", "acked"} \/ answering'[k].at = "done"
             => commits'[k] > 0
  <2> TAKE k \in Answers
  <2>1. CASE k = c
    BY <2>1, <1>1, <1>2, <1>3
  <2>2. CASE k # c
    BY <2>2, <1>1, <1>2 DEF FriendInv
  <2> QED
    BY <2>1, <2>2
<1> QED
  BY <1>5, <1>6, <1>7, <1>8 DEF FriendInv

\* What a session holds when the message of its handler is at step m.
Saved(k, m) == IF m = "saved" THEN {Document(k, 0)}
               ELSE IF m \in {"savedBoth", "removing", "removed"}
                      THEN {Document(k, 0), Document(k, 1)}
                      ELSE {}

\* A step that commits nothing need only keep the requests of the calls whose
\* message was published, the sessions in step with the handlers, and answer
\* no message before its commit.
LEMMA FrameFriend ==
  ASSUME Typed, FriendInv, UNCHANGED <<friend, commits>>,
         \A k \in Answers : msg[k] # "none" => answering'[k].req = answering[k].req,
         \A k \in Answers : msg[k] = "none" => txn'[k] = {},
         \A k \in Answers : txn'[k] = Saved(k, msg'[k]),
         \A k \in Answers :
           msg'[k] \in {"finished", "replied", "acked"} \/ answering'[k].at = "done"
             => commits[k] > 0
  PROVE  FriendInv'
<1>1. \A k \in Answers : msg[k] # "none" => /\ Document(k, 0)' = Document(k, 0)
                                          /\ Document(k, 1)' = Document(k, 1)
  BY DEF Document
<1>2. \A k \in Answers : txn'[k] = IF msg'[k] = "saved" THEN {Document(k, 0)'}
                       ELSE IF msg'[k] \in {"savedBoth", "removing", "removed"}
                              THEN {Document(k, 0)', Document(k, 1)'}
                              ELSE {}
  BY <1>1 DEF Saved
<1>3. \A d \in friend' : d.id[2] < commits'[d.id[1]] /\ Made(d)'
  <2> TAKE d \in friend'
  <2>1. d \in friend /\ d.id[1] \in Answers /\ d.id[2] \in Nat
    BY DEF Typed, TypeOK, Doc
  <2>2. d.id[2] < commits[d.id[1]] /\ Made(d)
    BY <2>1 DEF FriendInv
  <2>3. commits[d.id[1]] \in Nat
    BY <2>1 DEF Typed, TypeOK
  <2>4. commits[d.id[1]] > 0
    BY <2>1, <2>2, <2>3
  <2>5. msg[d.id[1]] # "none"
    BY <2>1, <2>4 DEF Typed, MsgInv
  <2> QED
    BY <2>1, <2>2, <2>5 DEF Made
<1>4. FriendshipIsMutual'
  BY DEF FriendInv, FriendshipIsMutual, Mirror
<1> QED
  BY <1>2, <1>3, <1>4 DEF FriendInv

SameButTag(x, y) == x.id = y.id /\ x.source = y.source /\ x.target = y.target

\* Another tag changes nothing of this.
LEMMA RetagKeepsFriend ==
  ASSUME FriendInv, UNCHANGED <<txn, commits, answering, msg>>,
         \A x \in friend' : \E y \in friend : SameButTag(x, y),
         \A y \in friend : \E x \in friend' : SameButTag(x, y)
  PROVE  FriendInv'
<1>1. \A k \in Answers : txn'[k] = IF msg'[k] = "saved" THEN {Document(k, 0)'}
                       ELSE IF msg'[k] \in {"savedBoth", "removing", "removed"}
                              THEN {Document(k, 0)', Document(k, 1)'}
                              ELSE {}
  BY DEF FriendInv, Document
<1>2. \A x \in friend' : x.id[2] < commits'[x.id[1]] /\ Made(x)'
  BY DEF FriendInv, Made, SameButTag
<1>3. FriendshipIsMutual'
  <2>1. ASSUME NEW x \in friend' PROVE \E e \in friend' : Mirror(x, e)
    <3>1. PICK y \in friend : SameButTag(x, y)
      OBVIOUS
    <3>2. PICK z \in friend : Mirror(y, z)
      BY DEF FriendInv, FriendshipIsMutual
    <3>3. PICK w \in friend' : SameButTag(w, z)
      OBVIOUS
    <3> QED
      BY <3>1, <3>2, <3>3 DEF SameButTag, Mirror
  <2> QED
    BY <2>1 DEF FriendshipIsMutual, Mirror
<1>4. \A k \in Answers :
        /\ commits'[k] > 0 => \E d \in friend' : d.id[1] = k
        /\ msg'[k] \in {"finished", "replied", "acked"} \/ answering'[k].at = "done"
             => commits'[k] > 0
  BY DEF FriendInv, SameButTag
<1> QED
  BY <1>1, <1>2, <1>3, <1>4 DEF FriendInv

\* Every step keeps the documents of accept in committed pairs, each of them the
\* one its own request calls for.
LEMMA NextFriend == Typed /\ Typed' /\ FriendInv /\ [Next]_vars => FriendInv'
<1> SUFFICES ASSUME Typed, Typed', FriendInv, [Next]_vars PROVE FriendInv'
  OBVIOUS
<1> USE DEF reads, handlers, Calls
<1>t. /\ msg \in [Calls -> MsgState] /\ msg' \in [Calls -> MsgState]
      /\ answering \in [Answers -> AnswerCall]
      /\ txn \in [Answers -> SUBSET Doc]
      /\ commits \in [Answers -> Nat]
  BY DEF Typed, TypeOK
<1>s. \A k \in Answers : txn[k] = Saved(k, msg[k])
  BY DEF FriendInv, Saved
<1>d. \A k \in Answers :
        msg[k] \in {"finished", "replied", "acked"} \/ answering[k].at = "done"
          => commits[k] > 0
  BY DEF FriendInv
<1>i. \A k \in Answers : answering[k].at \in {"idle", "checked"} => msg[k] = "none"
  BY DEF Typed, MsgInv
<1>m. \A k \in Answers :
        /\ commits[k] > 0 => msg[k] # "none"
        /\ msg[k] \in {"none", "dropped", "queued", "acked"} \cup AcceptSteps
        /\ <<k, "awaited">> \in removals => msg[k] = "removing"
  BY DEF Typed, MsgInv
<1>1. ASSUME UNCHANGED <<friend, txn, commits, answering>>,
             \A k \in Answers : msg'[k] = msg[k]
      PROVE  FriendInv'
  BY <1>1, <1>s, <1>d, FrameFriend DEF Saved
<1>2. CASE Tick
  BY <1>2, <1>1 DEF Tick
<1>3. ASSUME NEW c \in Adds, AddCallStep(c) \/ AddHandler(c) PROVE FriendInv'
  BY <1>3, <1>1, <1>t, KeyAssumption DEF AddCallStep, AddHandler, AddCheck, AddPublish,
     AddHset, AddHsetnx, AddZadd
<1>4. ASSUME NEW c \in Answers, NEW t \in Tids, NEW s \in {"accept", "refuse"},
             NEW r \in split, CallGet(c, t, r, s)
      PROVE  FriendInv'
  <2>1. msg[c] = "none"
    BY <1>4, <1>i DEF CallGet
  <2> QED
    BY <1>4, <2>1, <1>t, <1>s, <1>d, FrameFriend DEF CallGet, Saved
<1>5. ASSUME NEW c \in Answers, CallPublish(c) PROVE FriendInv'
  <2>1. msg[c] = "none"
    BY <1>5, <1>i DEF CallPublish
  <2>2. msg'[c] \in {"none", "queued", "dropped"} /\ answering'[c].at # "done"
    BY <1>5, <2>1, <1>t, AnswerIsTyped DEF CallPublish, Route
  <2>3. \A k \in Answers : k # c => answering'[k] = answering[k] /\ msg'[k] = msg[k]
    BY <1>5, <1>t DEF CallPublish
  <2>4. UNCHANGED <<friend, txn, commits>>
    BY <1>5 DEF CallPublish
  <2> QED
    BY <2>1, <2>2, <2>3, <2>4, <1>s, <1>d, FrameFriend DEF Saved
<1>6. ASSUME NEW c \in Answers,
             AcceptExpired(c) \/ AcceptSave(c) \/ AcceptSaveMirror(c)
               \/ AcceptCallRemove(c)
      PROVE  FriendInv'
  <2>1. /\ UNCHANGED <<friend, commits, answering>>
        /\ msg[c] # "none"
        /\ msg'[c] \notin {"finished", "replied", "acked"}
        /\ txn'[c] = Saved(c, msg'[c])
    BY <1>6, <1>s, <1>t DEF AcceptExpired, AcceptSave, AcceptSaveMirror,
       AcceptCallRemove, Saved
  <2>2. \A k \in Answers : k # c => txn'[k] = txn[k] /\ msg'[k] = msg[k]
    BY <1>6, <1>t DEF AcceptExpired, AcceptSave, AcceptSaveMirror, AcceptCallRemove
  <2> QED
    BY <2>1, <2>2, <1>s, <1>d, FrameFriend DEF Saved
<1>7. ASSUME NEW c \in Answers, NEW w \in {"awaited", "abandoned"},
             RemoveRequest(c, w)
      PROVE  FriendInv'
  <2>1. msg'[c] = msg[c] \/ (msg[c] = "removing" /\ msg'[c] = "removed")
    BY <1>7, <1>m, <1>t DEF RemoveRequest
  <2>2. \A k \in Answers : k # c => msg'[k] = msg[k]
    BY <1>7, <1>t DEF RemoveRequest
  <2>3. UNCHANGED <<friend, txn, commits, answering>>
    BY <1>7 DEF RemoveRequest
  <2> QED
    BY <2>1, <2>2, <2>3, <1>s, <1>d, FrameFriend DEF Saved
<1>8. ASSUME NEW c \in Answers, AcceptCommit(c) \/ AcceptCommitLost(c)
      PROVE  FriendInv'
  <2>1. /\ Commit(c) /\ UNCHANGED answering
        /\ \A k \in Answers : k # c => msg'[k] = msg[k]
        /\ msg'[c] \in {"finished", "queued"}
    BY <1>8, <1>t DEF AcceptCommit, AcceptCommitLost
  <2> QED
    BY <2>1, <1>t, CommitKeepsFriend
<1>9. ASSUME NEW c \in Calls, Timeout(c) PROVE FriendInv'
  <2>1. \A k \in Answers : /\ answering'[k].req = answering[k].req
                           /\ answering'[k].at = "done" => answering[k].at = "done"
    BY <1>9, <1>t, AnswerIsTyped DEF Timeout
  <2>2. UNCHANGED <<friend, txn, commits, msg>>
    BY <1>9 DEF Timeout
  <2> QED
    BY <2>1, <2>2, <1>s, <1>d, FrameFriend DEF Saved
<1>10. ASSUME NEW c \in Calls, Reply(c) PROVE FriendInv'
  <2>1. \A k \in Answers : /\ answering'[k].req = answering[k].req
                           /\ answering'[k].at = "done"
                                => answering[k].at = "done" \/ msg[k] = "finished"
    BY <1>10, <1>t, AnswerIsTyped DEF Reply, Answered
  <2>2. \A k \in Answers : msg'[k] = msg[k] \/ (msg[k] = "finished" /\ msg'[k] = "replied")
    BY <1>10, <1>t DEF Reply
  <2>3. UNCHANGED <<friend, txn, commits>>
    BY <1>10 DEF Reply
  <2> QED
    BY <2>1, <2>2, <2>3, <1>s, <1>d, FrameFriend DEF Saved
<1>11. ASSUME NEW c \in Calls, Deliver(c) \/ Ack(c) PROVE FriendInv'
  <2>1. UNCHANGED <<friend, txn, commits, answering>>
    BY <1>11 DEF Deliver, Ack
  <2>2. \A k \in Answers : \/ msg'[k] = msg[k]
                           \/ msg[k] = "queued" /\ msg'[k] = "begun"
                           \/ msg[k] = "replied" /\ msg'[k] = "acked"
    BY <1>11, <1>t DEF Deliver, Ack
  <2> QED
    BY <2>1, <2>2, <1>s, <1>d, FrameFriend DEF Saved
<1>12. ASSUME NEW c \in Calls, Fail(c) PROVE FriendInv'
  <2>1. UNCHANGED <<friend, commits, answering>>
    BY <1>12 DEF Fail, FailTo
  <2>2. \A k \in Answers : \/ k # c /\ msg'[k] = msg[k] /\ txn'[k] = txn[k]
                           \/ k = c /\ msg'[k] = "queued" /\ txn'[k] = {}
    BY <1>12, <1>t DEF Fail, FailTo
  <2> QED
    BY <2>1, <2>2, <1>s, <1>d, FrameFriend DEF Saved
<1>13. ASSUME NEW c \in Removes, RemoveDelete(c) PROVE FriendInv'
  <2>1. removing[c].target \in Tids
    BY <1>13 DEF RemoveDelete, Typed, TypeOK, RemoveCall
  <2>2. \A d \in friend : d.target # UserId[removing[c].target]
    BY <2>1, KeyAssumption DEF Typed, TypeOK, Doc
  <2>3. friend' = friend
    BY <1>13, <2>2 DEF RemoveDelete, WithoutOne, RemovedTarget
  <2> QED
    BY <1>13, <2>3, <1>1 DEF RemoveDelete
<1>14. ASSUME NEW c \in Retags, TagUpdate(c) PROVE FriendInv'
  <2>1. UNCHANGED <<txn, commits, answering, msg>>
    BY <1>14 DEF TagUpdate
  <2>2. /\ \A x \in friend' : \E y \in friend : SameButTag(x, y)
        /\ \A y \in friend : \E x \in friend' : SameButTag(x, y)
    <3>1. CASE friend' = friend
      BY <3>1 DEF SameButTag
    <3>2. ASSUME NEW d \in friend,
                 friend' = (friend \ {d}) \cup {[d EXCEPT !.tag = tagging[c].tag]}
          PROVE  <2>2!1 /\ <2>2!2
      <4> DEFINE e == [d EXCEPT !.tag = tagging[c].tag]
      <4>1. d \in [id : Answers \X Nat \X {0, 1}, source : Tids, target : Tids,
                   tag : Tags \cup {NoTag}]
        BY DEF Typed, TypeOK, Doc
      <4>2. SameButTag(e, d) /\ SameButTag(d, e)
        BY <4>1 DEF SameButTag
      <4> HIDE DEF e
      <4>3. friend' = (friend \ {d}) \cup {e}
        BY <3>2 DEF e
      <4>4. \A x : SameButTag(x, x)
        BY DEF SameButTag
      <4> QED
        BY <4>2, <4>3, <4>4
    <3> QED
      BY <1>14, <3>1, <3>2 DEF TagUpdate
  <2> QED
    BY <2>1, <2>2, RetagKeepsFriend
<1>15. ASSUME NEW c \in Removes, NEW s \in Tids, NEW t \in Tids, RemoveCheck(c, s, t)
       PROVE  FriendInv'
  BY <1>15, <1>1 DEF RemoveCheck
<1>16. ASSUME NEW c \in Retags, NEW s \in Tids, NEW t \in Tids, NEW g \in Tags,
              TagCheck(c, s, t, g)
       PROVE  FriendInv'
  BY <1>16, <1>1 DEF TagCheck
<1>17. CASE UNCHANGED vars
  BY <1>17, <1>1 DEF vars
<1> QED
  BY <1>2, <1>3, <1>4, <1>5, <1>6, <1>7, <1>8, <1>9, <1>10, <1>11, <1>12, <1>13,
     <1>14, <1>15, <1>16, <1>17
     DEF Next, AnswerCallStep, AcceptHandler, Consumer, EditStep

(***************************************************************************)
(* Faults                                                                  *)
(***************************************************************************)
\* A message that is not answered yet may commit once more; that it may do so
\* again takes a fault.  The slots of two users are the commits that the accept
\* messages between them have made or may still make without one.
MayCommit(m) == IF m \in {"finished", "replied", "acked"} THEN 0 ELSE 1
Bound(c) == commits[c] + MayCommit(msg[c])
Slots(s, t) == {x \in AcceptedOf(s, t) \X Nat : x[2] < Bound(x[1])}

FaultInv ==
  \A s, t \in Tids :
    /\ IsFiniteSet(AcceptedOf(s, t)) /\ IsFiniteSet(Slots(s, t))
    /\ Cardinality(Slots(s, t)) <= Cardinality(AcceptedOf(s, t)) + faults

LEMMA BoundTyped == ASSUME TypeOK, NEW c \in Answers PROVE Bound(c) \in Nat
BY DEF TypeOK, Bound, MayCommit

\* A set that gains one element at most.
LEMMA GainsOne ==
  ASSUME NEW S, NEW T, NEW x, IsFiniteSet(S), T \subseteq S \cup {x}
  PROVE  IsFiniteSet(T) /\ Cardinality(T) \in Nat /\ Cardinality(S) \in Nat
         /\ Cardinality(T) <= Cardinality(S) + 1
<1>1. /\ IsFiniteSet(S \cup {x}) /\ Cardinality(S) \in Nat
      /\ Cardinality(S \cup {x}) = IF x \in S THEN Cardinality(S) ELSE Cardinality(S) + 1
  BY FS_AddElement, FS_CardinalityType
<1>2. IsFiniteSet(T) /\ Cardinality(T) \in Nat /\ Cardinality(T) <= Cardinality(S \cup {x})
  BY <1>1, FS_Subset, FS_CardinalityType
<1> QED
  BY <1>1, <1>2

\* Which messages are accepts between two users changes with their publication.
LEMMA AcceptedKept ==
  ASSUME \A k \in Answers : msg'[k] # "none" <=> msg[k] # "none",
         \A k \in Answers : msg[k] # "none" =>
           /\ answering'[k].req = answering[k].req
           /\ answering'[k].status = answering[k].status
  PROVE  \A s, t \in Tids : AcceptedOf(s, t)' = AcceptedOf(s, t)
<1>1. Accepted' = Accepted
  BY DEF Accepted
<1>2. \A k \in Accepted : answering'[k].req = answering[k].req
  BY DEF Accepted
<1> QED
  BY <1>1, <1>2 DEF AcceptedOf

\* The slots after a step that publishes no accept.
LEMMA SlotsNext ==
  ASSUME \A s, t \in Tids : AcceptedOf(s, t)' = AcceptedOf(s, t)
  PROVE  \A s, t \in Tids : \A y \in Slots(s, t)' :
           y \in AcceptedOf(s, t) \X Nat /\ y[2] < Bound(y[1])'
<1> SUFFICES ASSUME NEW s \in Tids, NEW t \in Tids
             PROVE  \A y \in Slots(s, t)' :
                      y \in AcceptedOf(s, t) \X Nat /\ y[2] < Bound(y[1])'
  OBVIOUS
<1>1. Slots(s, t)' = {x \in AcceptedOf(s, t)' \X Nat : x[2] < Bound(x[1])'}
  BY DEF Slots
<1>2. Slots(s, t)' = {x \in AcceptedOf(s, t) \X Nat : x[2] < Bound(x[1])'}
  BY <1>1
<1> QED
  BY <1>2

\* A step that lets no message commit more often leaves the bound.
LEMMA QuietStep ==
  ASSUME TypeOK, TypeOK', FaultInv, faults' >= faults,
         \A s, t \in Tids : AcceptedOf(s, t)' = AcceptedOf(s, t),
         \A k \in Answers : Bound(k)' <= Bound(k)
  PROVE  FaultInv'
<1> SUFFICES ASSUME NEW s \in Tids, NEW t \in Tids
             PROVE  /\ IsFiniteSet(AcceptedOf(s, t)') /\ IsFiniteSet(Slots(s, t)')
                    /\ Cardinality(Slots(s, t)') <= Cardinality(AcceptedOf(s, t)') + faults'
  BY DEF FaultInv
<1>1. Slots(s, t)' \subseteq Slots(s, t)
  <2>1. \A k \in Answers : Bound(k) \in Nat /\ Bound(k)' \in Nat
    BY BoundTyped DEF TypeOK, Bound, MayCommit
  <2> SUFFICES ASSUME NEW y \in Slots(s, t)'
               PROVE  y \in Slots(s, t)
    OBVIOUS
  <2>2. y \in AcceptedOf(s, t) \X Nat /\ y[2] < Bound(y[1])'
    BY SlotsNext
  <2>3. y[1] \in Answers /\ y[2] \in Nat
    BY <2>2 DEF AcceptedOf, Accepted
  <2>4. y[2] < Bound(y[1])
    BY <2>1, <2>2, <2>3
  <2> QED
    BY <2>2, <2>4 DEF Slots
<1>2. /\ IsFiniteSet(AcceptedOf(s, t)) /\ IsFiniteSet(Slots(s, t))
      /\ Cardinality(Slots(s, t)) <= Cardinality(AcceptedOf(s, t)) + faults
  BY DEF FaultInv
<1>3. /\ IsFiniteSet(Slots(s, t)')
      /\ Cardinality(Slots(s, t)') <= Cardinality(Slots(s, t))
  BY <1>1, <1>2, FS_Subset
<1>4. /\ Cardinality(Slots(s, t)') \in Nat /\ Cardinality(Slots(s, t)) \in Nat
      /\ Cardinality(AcceptedOf(s, t)) \in Nat
  BY <1>2, <1>3, FS_CardinalityType
<1>5. faults \in Nat /\ faults' \in Nat
  BY DEF TypeOK
<1> QED
  BY <1>2, <1>3, <1>4, <1>5

\* A failure lets one message commit once more.
LEMMA LoudStep ==
  ASSUME TypeOK, TypeOK', FaultInv, NEW c \in Answers, faults' = faults + 1,
         \A s, t \in Tids : AcceptedOf(s, t)' = AcceptedOf(s, t),
         \A k \in Answers \ {c} : Bound(k)' <= Bound(k),
         Bound(c)' <= Bound(c) + 1
  PROVE  FaultInv'
<1> SUFFICES ASSUME NEW s \in Tids, NEW t \in Tids
             PROVE  /\ IsFiniteSet(AcceptedOf(s, t)') /\ IsFiniteSet(Slots(s, t)')
                    /\ Cardinality(Slots(s, t)') <= Cardinality(AcceptedOf(s, t)') + faults'
  BY DEF FaultInv
<1> DEFINE x == <<c, Bound(c)>>
<1>1. Slots(s, t)' \subseteq Slots(s, t) \cup {x}
  <2>1. \A k \in Answers : Bound(k) \in Nat /\ Bound(k)' \in Nat
    BY BoundTyped DEF TypeOK, Bound, MayCommit
  <2> SUFFICES ASSUME NEW y \in Slots(s, t)', y # x
               PROVE  y \in Slots(s, t)
    OBVIOUS
  <2>2. y \in AcceptedOf(s, t) \X Nat /\ y[2] < Bound(y[1])'
    BY SlotsNext
  <2>3. y[1] \in Answers /\ y[2] \in Nat /\ y = <<y[1], y[2]>>
    BY <2>2 DEF AcceptedOf, Accepted
  <2>4. CASE y[1] # c
    BY <2>1, <2>2, <2>3, <2>4 DEF Slots
  <2>5. CASE y[1] = c
    <3>1. y[2] # Bound(c)
      BY <2>3, <2>5
    <3>2. y[2] < Bound(c)
      BY <2>1, <2>2, <2>3, <2>5, <3>1
    <3> QED
      BY <2>2, <2>5, <3>2 DEF Slots
  <2> QED
    BY <2>4, <2>5
<1>2. /\ IsFiniteSet(AcceptedOf(s, t)) /\ IsFiniteSet(Slots(s, t))
      /\ Cardinality(Slots(s, t)) <= Cardinality(AcceptedOf(s, t)) + faults
  BY DEF FaultInv
<1> HIDE DEF x
<1>3. /\ IsFiniteSet(Slots(s, t)')
      /\ Cardinality(Slots(s, t)') \in Nat /\ Cardinality(Slots(s, t)) \in Nat
      /\ Cardinality(Slots(s, t)') <= Cardinality(Slots(s, t)) + 1
  BY <1>1, <1>2, GainsOne
<1>4. Cardinality(AcceptedOf(s, t)) \in Nat /\ faults \in Nat
  BY <1>2, FS_CardinalityType DEF TypeOK
<1> QED
  BY <1>2, <1>3, <1>4

\* So does its publication, which is counted itself.
LEMMA PublishStep ==
  ASSUME Typed, TypeOK', FaultInv, NEW c \in Answers, faults' = faults,
         msg[c] = "none", Bound(c)' = 1, Accepted' = Accepted \cup {c},
         \A k \in Accepted : answering'[k].req = answering[k].req,
         \A k \in Answers \ {c} : Bound(k)' = Bound(k)
  PROVE  FaultInv'
<1> SUFFICES ASSUME NEW s \in Tids, NEW t \in Tids
             PROVE  /\ IsFiniteSet(AcceptedOf(s, t)') /\ IsFiniteSet(Slots(s, t)')
                    /\ Cardinality(Slots(s, t)') <= Cardinality(AcceptedOf(s, t)') + faults'
  BY DEF FaultInv
<1> DEFINE A == AcceptedOf(s, t)
           x == <<c, 0>>
<1>1. /\ IsFiniteSet(A) /\ IsFiniteSet(Slots(s, t))
      /\ Cardinality(Slots(s, t)) <= Cardinality(A) + faults
  BY DEF FaultInv
<1>2. faults \in Nat /\ c \notin Accepted
  BY DEF Typed, TypeOK, Accepted
<1>3. CASE AcceptedOf(s, t)' = A
  <2>1. \A k \in A : k # c /\ k \in Answers
    BY <1>2 DEF AcceptedOf, Accepted
  <2>2. Slots(s, t)' = Slots(s, t)
    BY <1>3, <2>1 DEF Slots
  <2> QED
    BY <1>1, <1>3, <2>2
<1>4. CASE AcceptedOf(s, t)' = A \cup {c}
  <2>1. c \notin A /\ \A k \in A : k \in Answers
    BY <1>2 DEF AcceptedOf, Accepted
  <2>2. Slots(s, t)' \subseteq Slots(s, t) \cup {x}
    <3> SUFFICES ASSUME NEW y \in Slots(s, t)', y # x
                 PROVE  y \in Slots(s, t)
      OBVIOUS
    <3>1. /\ y \in (A \cup {c}) \X Nat /\ y[2] < Bound(y[1])' /\ y = <<y[1], y[2]>>
          /\ y[2] \in Nat
      BY <1>4 DEF Slots
    <3>2. y[1] # c
      BY <3>1
    <3>3. y \in A \X Nat /\ y[2] < Bound(y[1])
      BY <2>1, <3>1, <3>2
    <3> QED
      BY <3>3 DEF Slots
  <2> HIDE DEF A, x
  <2>3. /\ IsFiniteSet(Slots(s, t)')
        /\ Cardinality(Slots(s, t)') \in Nat /\ Cardinality(Slots(s, t)) \in Nat
        /\ Cardinality(Slots(s, t)') <= Cardinality(Slots(s, t)) + 1
    BY <1>1, <2>2, GainsOne
  <2>4. /\ IsFiniteSet(A \cup {c}) /\ Cardinality(A \cup {c}) = Cardinality(A) + 1
        /\ Cardinality(A) \in Nat
    BY <1>1, <2>1, FS_AddElement, FS_CardinalityType
  <2> QED
    BY <1>1, <1>2, <1>4, <2>3, <2>4
<1>5. AcceptedOf(s, t)' = A \/ AcceptedOf(s, t)' = A \cup {c}
  BY <1>2 DEF AcceptedOf
<1> QED
  BY <1>3, <1>4, <1>5

\* Where a message goes on, it may commit as often as before, or less.
LEMMA MessageQuiet ==
  ASSUME TypeOK, NEW c \in Calls, NEW m \in MsgState, msg' = [msg EXCEPT ![c] = m],
         commits' = commits,
         msg[c] \notin {"finished", "replied", "acked"} \/ m \in {"finished", "replied", "acked"}
  PROVE  \A k \in Answers : Bound(k)' <= Bound(k)
<1>1. /\ \A k \in Answers : msg'[k] = IF k = c THEN m ELSE msg[k]
      /\ \A k \in Answers : commits[k] \in Nat
  BY DEF TypeOK, Calls
<1> QED
  BY <1>1 DEF Bound, MayCommit

\* A pair more than one for each accept has a failure of its own behind it.
LEMMA NextFault == Typed /\ Typed' /\ FaultInv /\ [Next]_vars => FaultInv'
<1> SUFFICES ASSUME Typed, Typed', FaultInv, [Next]_vars PROVE FaultInv'
  OBVIOUS
<1> USE DEF reads, handlers
<1>t. /\ msg \in [Calls -> MsgState] /\ commits \in [Answers -> Nat]
      /\ answering \in [Answers -> AnswerCall] /\ faults \in Nat
      /\ TypeOK /\ TypeOK' /\ Answers \subseteq Calls
  BY DEF Typed, TypeOK, Calls
<1>s. ASSUME UNCHANGED <<msg, commits, faults>>,
             \A k \in Answers : msg[k] # "none" =>
               /\ answering'[k].req = answering[k].req
               /\ answering'[k].status = answering[k].status
      PROVE  FaultInv'
  <2>1. \A s, t \in Tids : AcceptedOf(s, t)' = AcceptedOf(s, t)
    BY <1>s, AcceptedKept
  <2>2. \A k \in Answers : Bound(k)' = Bound(k) /\ Bound(k) \in Nat
    BY <1>s, <1>t, BoundTyped DEF Bound
  <2> QED
    BY <1>s, <1>t, <2>1, <2>2, QuietStep
<1>m. ASSUME NEW c \in Calls, NEW m \in MsgState \ {"none"}, msg' = [msg EXCEPT ![c] = m],
             UNCHANGED <<commits, faults>>, msg[c] # "none",
             msg[c] \notin {"finished", "replied", "acked"}
               \/ m \in {"finished", "replied", "acked"},
             \A k \in Answers : msg[k] # "none" =>
               /\ answering'[k].req = answering[k].req
               /\ answering'[k].status = answering[k].status
      PROVE  FaultInv'
  <2>1. \A k \in Answers : msg'[k] # "none" <=> msg[k] # "none"
    BY <1>m, <1>t
  <2>2. \A s, t \in Tids : AcceptedOf(s, t)' = AcceptedOf(s, t)
    BY <1>m, <2>1, AcceptedKept
  <2>3. \A k \in Answers : Bound(k)' <= Bound(k)
    BY <1>m, <1>t, MessageQuiet
  <2> QED
    BY <1>m, <1>t, <2>2, <2>3, QuietStep
<1>1. ASSUME NEW c \in Adds, AddCallStep(c) \/ AddHandler(c) PROVE FaultInv'
  <2>1. UNCHANGED <<answering, commits, faults>>
    BY <1>1 DEF AddCallStep, AddHandler, AddCheck, AddPublish, AddHset, AddHsetnx, AddZadd
  <2>2. \A k \in Answers : msg'[k] = msg[k]
    BY <1>1, <1>t, KeyAssumption DEF AddCallStep, AddHandler, AddCheck, AddPublish, AddHset,
       AddHsetnx, AddZadd
  <2>3. \A s, t \in Tids : AcceptedOf(s, t)' = AcceptedOf(s, t)
    BY <2>1, <2>2, AcceptedKept
  <2>4. \A k \in Answers : Bound(k)' = Bound(k) /\ Bound(k) \in Nat
    BY <1>t, <2>1, <2>2, BoundTyped DEF Bound
  <2> QED
    BY <1>t, <2>1, <2>3, <2>4, QuietStep
<1>2. ASSUME NEW c \in Answers, AnswerCallStep(c) PROVE FaultInv'
  <2>1. msg[c] = "none"
    <3>1. answering[c].at \in {"idle", "checked"}
      BY <1>2 DEF AnswerCallStep, CallGet, CallPublish
    <3> QED
      BY <3>1 DEF Typed, MsgInv
  <2>2. commits[c] = 0
    <3>1. commits[c] \in Nat /\ ~(commits[c] > 0)
      BY <1>t, <2>1 DEF Typed, MsgInv
    <3> QED
      BY <3>1
  <2>3. /\ \A k \in Answers \ {c} : msg'[k] = msg[k] /\ answering'[k] = answering[k]
        /\ msg'[c] \in {"none", "queued", "dropped"}
        /\ commits' = commits /\ faults' = faults
    BY <1>2, <1>t, <2>1 DEF AnswerCallStep, CallGet, CallPublish, Route
  <2>4. \A k \in Answers \ {c} : Bound(k)' = Bound(k) /\ Bound(k) \in Nat
    BY <1>t, <2>3, BoundTyped DEF Bound
  <2>5. Bound(c) = 1 /\ Bound(c)' = 1
    BY <2>1, <2>2, <2>3 DEF Bound, MayCommit
  <2>6. c \notin Accepted /\ \A k \in Accepted : answering'[k].req = answering[k].req
    BY <2>1, <2>3 DEF Accepted
  <2>7. CASE msg'[c] # "none" /\ answering'[c].status = "accept"
    <3>1. Accepted' = Accepted \cup {c}
      BY <2>1, <2>3, <2>7 DEF Accepted
    <3> QED
      BY <1>t, <2>1, <2>3, <2>4, <2>5, <2>6, <3>1, PublishStep
  <2>8. CASE ~(msg'[c] # "none" /\ answering'[c].status = "accept")
    <3>1. Accepted' = Accepted
      BY <2>1, <2>3, <2>8 DEF Accepted
    <3>2. \A s, t \in Tids : AcceptedOf(s, t)' = AcceptedOf(s, t)
      BY <2>6, <3>1 DEF AcceptedOf
    <3>3. \A k \in Answers : Bound(k)' <= Bound(k)
      BY <2>4, <2>5
    <3> QED
      BY <1>t, <2>3, <3>2, <3>3, QuietStep
  <2> QED
    BY <2>7, <2>8
<1>3. ASSUME NEW c \in Answers,
             AcceptExpired(c) \/ AcceptSave(c) \/ AcceptSaveMirror(c)
               \/ AcceptCallRemove(c)
      PROVE  FaultInv'
  <2>1. /\ \E m \in MsgState \ {"none"} : msg' = [msg EXCEPT ![c] = m]
        /\ msg[c] \notin {"none", "finished", "replied", "acked"}
        /\ UNCHANGED <<answering, commits, faults>>
    BY <1>3 DEF AcceptExpired, AcceptSave, AcceptSaveMirror, AcceptCallRemove,
       MsgState, AcceptSteps
  <2> QED
    BY <1>m, <1>t, <2>1
<1>4. ASSUME NEW c \in Answers, NEW w \in {"awaited", "abandoned"},
             RemoveRequest(c, w)
      PROVE  FaultInv'
  <2>1. w = "awaited" => msg[c] = "removing"
    BY <1>4 DEF RemoveRequest, Typed, MsgInv
  <2>2. UNCHANGED <<answering, commits, faults>>
    BY <1>4 DEF RemoveRequest
  <2>3. CASE w = "awaited"
    <3>1. msg' = [msg EXCEPT ![c] = "removed"] /\ "removed" \in MsgState \ {"none"}
      BY <1>4, <2>3 DEF RemoveRequest, MsgState, AcceptSteps
    <3> QED
      BY <1>m, <1>t, <2>1, <2>2, <2>3, <3>1
  <2>4. CASE w # "awaited"
    BY <1>4, <1>s, <2>2, <2>4 DEF RemoveRequest
  <2> QED
    BY <2>3, <2>4
<1>5. ASSUME NEW c \in Answers, AcceptCommit(c) \/ AcceptCommitLost(c)
      PROVE  FaultInv'
  <2>1. /\ msg[c] = "removed" /\ commits'[c] = commits[c] + 1 /\ answering' = answering
        /\ \A k \in Answers \ {c} : commits'[k] = commits[k] /\ msg'[k] = msg[k]
        /\ \/ msg'[c] = "finished" /\ faults' = faults
           \/ msg'[c] = "queued" /\ faults' = faults + 1
    BY <1>5, <1>t DEF AcceptCommit, AcceptCommitLost, Commit
  <2>2. \A s, t \in Tids : AcceptedOf(s, t)' = AcceptedOf(s, t)
    BY <2>1, AcceptedKept
  <2>3. \A k \in Answers \ {c} : Bound(k)' = Bound(k) /\ Bound(k) \in Nat
    BY <1>t, <2>1, BoundTyped DEF Bound
  <2>4. CASE msg'[c] = "finished" /\ faults' = faults
    <3>1. Bound(c)' = Bound(c) /\ Bound(c) \in Nat
      BY <1>t, <2>1, <2>4 DEF Bound, MayCommit
    <3> QED
      BY <1>t, <2>2, <2>3, <2>4, <3>1, QuietStep
  <2>5. CASE msg'[c] = "queued" /\ faults' = faults + 1
    <3>1. Bound(c)' = Bound(c) + 1 /\ Bound(c) \in Nat
      BY <1>t, <2>1, <2>5 DEF Bound, MayCommit
    <3> QED
      BY <1>t, <2>2, <2>3, <2>5, <3>1, LoudStep
  <2> QED
    BY <2>1, <2>4, <2>5
<1>6. ASSUME answering' = answering \/ \E c \in Answers, a \in At :
               answering[c].at \in At /\ answering' = [answering EXCEPT ![c].at = a]
      PROVE  \A k \in Answers : msg[k] # "none" =>
               /\ answering'[k].req = answering[k].req
               /\ answering'[k].status = answering[k].status
  BY <1>6, <1>t DEF AnswerCall
<1>7. ASSUME NEW c \in Calls, Timeout(c) PROVE FaultInv'
  <2>1. \/ answering' = answering
        \/ \E k \in Answers, a \in At :
             answering[k].at \in At /\ answering' = [answering EXCEPT ![k].at = a]
    BY <1>7 DEF Timeout
  <2> QED
    BY <1>6, <1>7, <1>s, <2>1 DEF Timeout
<1>8. ASSUME NEW c \in Calls, Consumer(c) PROVE FaultInv'
  <2>1. \/ answering' = answering
        \/ \E k \in Answers, a \in At :
             answering[k].at \in At /\ answering' = [answering EXCEPT ![k].at = a]
    BY <1>8 DEF Consumer, Deliver, Reply, Ack, Answered
  <2>2. /\ \E m \in MsgState \ {"none"} :
             /\ msg' = [msg EXCEPT ![c] = m]
             /\ msg[c] \notin {"finished", "replied", "acked"}
                  \/ m \in {"finished", "replied", "acked"}
        /\ msg[c] # "none" /\ UNCHANGED <<commits, faults>>
    BY <1>8 DEF Consumer, Deliver, Reply, Ack, MsgState, AddSteps, AcceptSteps
  <2> QED
    BY <1>6, <1>m, <2>1, <2>2
<1>9. ASSUME NEW c \in Calls, Fail(c) PROVE FaultInv'
  <2>1. /\ msg' = [msg EXCEPT ![c] = "queued"] /\ msg[c] # "none"
        /\ UNCHANGED <<answering, commits>> /\ faults' = faults + 1
    BY <1>9 DEF Fail, FailTo, AddSteps, AcceptSteps
  <2>2. \A k \in Answers : msg'[k] # "none" <=> msg[k] # "none"
    BY <1>t, <2>1
  <2>3. \A s, t \in Tids : AcceptedOf(s, t)' = AcceptedOf(s, t)
    BY <2>1, <2>2, AcceptedKept
  <2>4. \A k \in Answers : /\ k # c => Bound(k)' = Bound(k)
                           /\ Bound(k)' <= Bound(k) + 1 /\ Bound(k) \in Nat
    BY <1>t, <2>1 DEF Bound, MayCommit
  <2>5. CASE c \in Answers
    BY <1>t, <2>1, <2>3, <2>4, <2>5, LoudStep
  <2>6. CASE c \notin Answers
    BY <1>t, <2>1, <2>3, <2>4, <2>6, QuietStep
  <2> QED
    BY <2>5, <2>6
<1>10. CASE Tick \/ EditStep \/ UNCHANGED vars
  BY <1>10, <1>s DEF Tick, EditStep, RemoveCheck, RemoveDelete, TagCheck, TagUpdate, vars
<1> QED
  BY <1>1, <1>2, <1>3, <1>4, <1>5, <1>7, <1>8, <1>9, <1>10
     DEF Next, AcceptHandler

(***************************************************************************)
(* The inductive invariant and the theorems                                *)
(***************************************************************************)
IInv == Typed /\ StoreInv /\ FriendInv /\ FaultInv

\* The inductive invariant: types and messages, the request store, the friend
\* collection and the bound on duplicates, each kept with the help of the types.
THEOREM Inductive == Spec => []IInv
<1>1. Init => IInv
  <2>1. Init => FaultInv
    <3> SUFFICES ASSUME Init
                 PROVE  FaultInv
      OBVIOUS
    <3>1. \A s, t \in Tids : AcceptedOf(s, t) = {}
      BY DEF Init, AcceptedOf, Accepted, Calls
    <3>2. \A s, t \in Tids : Slots(s, t) = {}
      BY <3>1 DEF Slots
    <3>3. IsFiniteSet({}) /\ Cardinality({}) = 0 /\ faults = 0
      BY FS_EmptySet DEF Init
    <3> QED
      BY <3>1, <3>2, <3>3 DEF FaultInv
  <2> QED
    BY <2>1, InitTyped, InitStore, InitFriend DEF IInv
<1>2. IInv /\ [Next]_vars => IInv'
  BY NextTyped, NextStore, NextFriend, NextFault DEF IInv
<1> QED
  BY <1>1, <1>2, PTL DEF Spec

\* The types of FriendRequests are kept by every step.
THEOREM TypeCorrect == Spec => []TypeOK
<1>1. IInv => TypeOK
  BY DEF IInv, Typed
<1> QED
  BY <1>1, Inductive, PTL

\* No friendship is ever stored for one of its members only.
THEOREM Mutual == Spec => []FriendshipIsMutual
<1>1. IInv => FriendshipIsMutual
  BY DEF IInv, FriendInv
<1> QED
  BY <1>1, Inductive, PTL

\* Every stored friendship goes back to a request and to its receiver's yes.
THEOREM Consent == Spec => []FriendshipByConsent
<1>1. IInv => FriendshipByConsent
  <2> SUFFICES ASSUME IInv, NEW d \in friend
               PROVE  LET a == answering[d.id[1]]
                      IN  /\ a # Idle /\ a.status = "accept" /\ a.by = a.req.recive
                          /\ {d.source, d.target} = {a.req.sender, a.req.recive}
                          /\ \E c \in Adds : adding[c] # Idle /\ adding[c].req = a.req
    BY DEF FriendshipByConsent
  <2> DEFINE k == d.id[1]
  <2>1. /\ k \in Answers /\ d.id[2] \in Nat /\ d.id[3] \in {0, 1}
        /\ commits[k] \in Nat
    BY DEF IInv, Typed, TypeOK, Doc
  <2>2. d.id[2] < commits[k] /\ Made(d)
    BY DEF IInv, FriendInv
  <2>3. msg[k] \notin {"none", "dropped"}
    <3>1. commits[k] > 0
      BY <2>1, <2>2
    <3> QED
      BY <2>1, <3>1 DEF IInv, Typed, MsgInv
  <2>4. answering[k] # Idle /\ answering[k].status = "accept"
    <3>1. answering[k].at # "idle"
      BY <2>1, <2>3 DEF IInv, Typed, MsgInv
    <3>2. answering[k].status = "accept"
      BY <2>1, <2>3 DEF IInv, Typed, MsgInv
    <3> QED
      BY <3>1, <3>2
  <2>5. /\ answering[k].by = answering[k].req.recive
        /\ FieldOf(answering[k].req, "json") \in hash
    BY <2>1, <2>3 DEF IInv, StoreInv
  <2>6. \E c \in Adds : adding[c] # Idle /\ adding[c].req = answering[k].req
    <3>1. PICK c \in Adds : msg[c] # "none" /\ adding[c].req = answering[k].req
      BY <2>5 DEF IInv, StoreInv, FieldOf
    <3>2. adding[c].at \in {"idle", "checked"} => msg[c] = "none"
      BY DEF IInv, Typed, MsgInv
    <3> QED
      BY <3>1, <3>2
  <2>7. {d.source, d.target} = {answering[k].req.sender, answering[k].req.recive}
    BY <2>1, <2>2 DEF Made
  <2> QED
    BY <2>4, <2>5, <2>6, <2>7
<1> QED
  BY <1>1, Inductive, PTL

\* A successful answer to an accept call can be relied on by both.
THEOREM AcceptedFriends == Spec => []AcceptedMeansFriends
<1>1. IInv => AcceptedMeansFriends
  <2> SUFFICES ASSUME IInv, NEW c \in Answers, answering[c].at = "done"
               PROVE  /\ HasFriend(answering[c].req.sender, answering[c].by)
                      /\ HasFriend(answering[c].by, answering[c].req.sender)
    BY DEF AcceptedMeansFriends
  <2>1. answering[c].by = answering[c].req.recive
    <3>1. msg[c] # "none"
      BY DEF IInv, Typed, MsgInv
    <3> QED
      BY <3>1 DEF IInv, StoreInv
  <2>2. PICK d \in friend : d.id[1] = c
    BY DEF IInv, FriendInv
  <2>3. PICK e \in friend : Mirror(d, e)
    BY DEF IInv, FriendInv, FriendshipIsMutual
  <2>4. Made(d) /\ d.id[3] \in {0, 1}
    BY DEF IInv, FriendInv, Typed, TypeOK, Doc
  <2> QED
    BY <2>1, <2>2, <2>3, <2>4 DEF Made, Mirror, HasFriend
<1> QED
  BY <1>1, Inductive, PTL

\* A request whose sender was told it is sent is in its receiver's list.
THEOREM AddedListed == Spec => []AddedIsListed
<1>1. IInv => AddedIsListed
  BY DEF IInv, StoreInv, AddedIsListed
<1> QED
  BY <1>1, Inductive, PTL

\* What is listed can be fetched and answered.
THEOREM ListedStored == Spec => []ListedIsStored
<1>1. IInv => ListedIsStored
  <2> SUFFICES ASSUME IInv, NEW r \in split
               PROVE  HGet(hash, r.recive, r) = {"json"}
    BY DEF ListedIsStored
  <2>1. FieldOf(r, "json") \in hash
    BY DEF IInv, StoreInv
  <2>2. \A e \in hash : e.rid = r => e.val = "json"
    BY DEF IInv, StoreInv, FieldOf
  <2> QED
    BY <2>1, <2>2 DEF HGet, FieldOf
<1> QED
  BY <1>1, Inductive, PTL

\* The pairs of documents that two users have are bounded by the accepts that
\* were published between them and the failures there have been.
THEOREM PairPerAcceptOrFault == Spec => []OnePairPerAcceptOrFault
<1>1. ASSUME IInv, NEW s \in Tids, NEW t \in Tids
      PROVE  Cardinality(PairsOf(s, t)) <= Cardinality(AcceptedOf(s, t)) + faults
  <2>1. /\ IsFiniteSet(AcceptedOf(s, t)) /\ IsFiniteSet(Slots(s, t))
        /\ Cardinality(Slots(s, t)) <= Cardinality(AcceptedOf(s, t)) + faults
    BY <1>1 DEF IInv, FaultInv
  <2>2. ASSUME NEW d \in friend, {d.source, d.target} = {s, t}
        PROVE  <<d.id[1], d.id[2]>> \in Slots(s, t)
    <3> DEFINE k == d.id[1]
    <3>1. /\ k \in Answers /\ d.id[2] \in Nat /\ d.id[3] \in {0, 1}
          /\ commits[k] \in Nat
      BY <1>1 DEF IInv, Typed, TypeOK, Doc
    <3>2. d.id[2] < commits[k] /\ Made(d)
      BY <1>1 DEF IInv, FriendInv
    <3>c. commits[k] > 0
      BY <3>1, <3>2
    <3>m. msg[k] \notin {"none", "dropped"}
      BY <1>1, <3>1, <3>c DEF IInv, Typed, MsgInv
    <3>3. msg[k] \notin {"none", "dropped"} /\ answering[k].status = "accept"
      BY <1>1, <3>1, <3>m DEF IInv, Typed, MsgInv
    <3>4. {answering[k].req.sender, answering[k].req.recive} = {s, t}
      BY <2>2, <3>1, <3>2 DEF Made
    <3>5. k \in AcceptedOf(s, t)
      BY <3>1, <3>3, <3>4 DEF AcceptedOf, Accepted
    <3>6. d.id[2] < Bound(k)
      BY <3>1, <3>2 DEF Bound, MayCommit
    <3> QED
      BY <3>1, <3>5, <3>6 DEF Slots
  <2>3. PairsOf(s, t) \subseteq Slots(s, t)
    BY <2>2 DEF PairsOf
  <2>4. /\ IsFiniteSet(PairsOf(s, t))
        /\ Cardinality(PairsOf(s, t)) <= Cardinality(Slots(s, t))
    BY <2>1, <2>3, FS_Subset
  <2>5. /\ Cardinality(PairsOf(s, t)) \in Nat /\ Cardinality(Slots(s, t)) \in Nat
        /\ Cardinality(AcceptedOf(s, t)) \in Nat /\ faults \in Nat
    BY <1>1, <2>1, <2>4, FS_CardinalityType DEF IInv, Typed, TypeOK
  <2> QED
    BY <2>1, <2>4, <2>5
<1>2. IInv => OnePairPerAcceptOrFault
  BY <1>1 DEF OnePairPerAcceptOrFault
<1> QED
  BY <1>2, Inductive, PTL

(***************************************************************************)
(* FriendRequests implements Friendship: storing a request is the step     *)
(* Ask, publishing an accept message is Agree, committing the transaction  *)
(* of an accept handler is Befriend, and every other step of a call, a     *)
(* handler, the broker or a failure leaves the abstract state alone.       *)
(***************************************************************************)
\* Who has agreed depends on the accept messages and their requests only.
LEMMA AgreedKept ==
  ASSUME \A k \in Answers : msg'[k] # "none" <=> msg[k] # "none",
         \A k \in Answers : msg[k] # "none" =>
           /\ answering'[k].req = answering[k].req
           /\ answering'[k].status = answering[k].status
  PROVE  Agreed' = Agreed
<1>1. Accepted' = Accepted
  BY DEF Accepted
<1>2. \A k \in Accepted : answering'[k].req = answering[k].req
  BY DEF Accepted
<1> QED
  BY <1>1, <1>2 DEF Agreed

\* A step of an add call or its handler: the first HSET of a request asks.
LEMMA AddRefines ==
  ASSUME IInv, NEW c \in Adds, AddCallStep(c) \/ AddHandler(c)
  PROVE  [F!Next]_(F!vars)
<1> USE DEF reads, handlers, Calls
<1>t. msg \in [Calls -> MsgState]
  BY DEF IInv, Typed, TypeOK
<1>1. Friends' = Friends
  BY DEF Friends, AddCallStep, AddHandler, AddCheck, AddPublish, AddHset,
         AddHsetnx, AddZadd
<1>2. Agreed' = Agreed
  <2>1. answering' = answering
    BY DEF AddCallStep, AddHandler, AddCheck, AddPublish, AddHset, AddHsetnx, AddZadd
  <2>2. \A k \in Answers : msg'[k] = msg[k]
    BY <1>t, KeyAssumption DEF AddCallStep, AddHandler, AddCheck, AddPublish, AddHset,
       AddHsetnx, AddZadd
  <2> QED
    BY <2>1, <2>2, AgreedKept
<1>3. CASE AddHset(c)
  <2> DEFINE r == adding[c].req
  <2>1. r \in Request
    <3>1. msg[c] = "begun"
      BY <1>3 DEF AddHset
    <3> QED
      BY <3>1, AddIsTyped DEF IInv
  <2>2. hash' = hash \cup {FieldOf(r, "json")}
    BY <1>3, HSetAdds DEF AddHset, IInv
  <2>3. FieldOf(r, "json").rid = r
    BY DEF FieldOf
  <2>4. Asked' = Asked \cup {<<r.sender, r.recive>>}
    BY <2>2, <2>3 DEF Asked
  <2>5. F!Ask(r.sender, r.recive)
    BY <2>4, <1>1, <1>2 DEF F!Ask
  <2>6. r.sender \in Tids /\ r.recive \in Tids
    BY <2>1 DEF Request
  <2> QED
    BY <2>5, <2>6 DEF F!Next
<1>4. CASE ~AddHset(c)
  <2>1. hash' = hash
    <3>1. CASE AddHsetnx(c)
      <4>1. FieldOf(adding[c].req, "json") \in hash
        BY <3>1 DEF AddHsetnx, IInv, StoreInv
      <4> QED
        BY <4>1, <3>1 DEF AddHsetnx, HSetNx, FieldOf
    <3>2. CASE ~AddHsetnx(c)
      BY <1>4, <3>2 DEF AddCallStep, AddHandler, AddCheck, AddPublish, AddZadd
    <3> QED
      BY <3>1, <3>2
  <2> QED
    BY <2>1, <1>1, <1>2 DEF Asked, F!vars
<1> QED
  BY <1>3, <1>4

\* PUT /request/accept: publishing the message says yes.
LEMMA AnswerRefines ==
  ASSUME IInv, NEW c \in Answers, AnswerCallStep(c)
  PROVE  [F!Next]_(F!vars)
<1> USE DEF reads, handlers, Calls
<1>t. msg \in [Calls -> MsgState] /\ answering \in [Answers -> AnswerCall]
  BY DEF IInv, Typed, TypeOK
<1>1. Friends' = Friends /\ Asked' = Asked
  BY DEF Friends, Asked, AnswerCallStep, CallGet, CallPublish
<1>2. msg[c] = "none"
  <2>1. answering[c].at \in {"idle", "checked"}
    BY DEF AnswerCallStep, CallGet, CallPublish
  <2> QED
    BY <2>1 DEF IInv, Typed, MsgInv
<1>3. \A k \in Answers \ {c} : msg'[k] = msg[k] /\ answering'[k] = answering[k]
  BY <1>t DEF AnswerCallStep, CallGet, CallPublish
<1>4. CASE msg'[c] # "none" /\ answering'[c].status = "accept"
  <2> DEFINE r == answering[c].req
  <2>1. CallPublish(c)
    BY <1>2, <1>4, <1>t DEF AnswerCallStep, CallGet
  <2>2. /\ answering[c].at = "checked"
        /\ answering'[c].req = r
    <3>1. \E a \in At : answering' = [answering EXCEPT ![c].at = a]
      BY <2>1 DEF CallPublish
    <3> QED
      BY <2>1, <3>1, <1>t DEF CallPublish, AnswerCall
  <2>3. FieldOf(r, "json") \in hash
    BY <2>2 DEF IInv, StoreInv
  <2>4. r \in Request
    BY <2>2, AnswerIsTyped DEF IInv
  <2>5. Accepted' = Accepted \cup {c}
    BY <1>2, <1>3, <1>4 DEF Accepted
  <2>6. \A k \in Accepted : answering'[k].req = answering[k].req
    BY <1>2, <1>3 DEF Accepted
  <2>7. Agreed' = Agreed \cup {<<r.sender, r.recive>>}
    BY <2>2, <2>5, <2>6 DEF Agreed
  <2>8. <<r.sender, r.recive>> \in Asked
    BY <2>3 DEF Asked, FieldOf
  <2>9. F!Agree(r.sender, r.recive)
    BY <2>7, <2>8, <1>1 DEF F!Agree
  <2> QED
    BY <2>4, <2>9 DEF F!Next, Request
<1>5. CASE ~(msg'[c] # "none" /\ answering'[c].status = "accept")
  <2>1. Accepted' = Accepted
    BY <1>2, <1>3, <1>5 DEF Accepted
  <2>2. \A k \in Accepted : answering'[k].req = answering[k].req
    BY <1>2, <1>3 DEF Accepted
  <2>3. Agreed' = Agreed
    BY <2>1, <2>2 DEF Agreed
  <2> QED
    BY <2>3, <1>1 DEF F!vars
<1> QED
  BY <1>4, <1>5

\* The commit of an accept message makes the friendship of its request.
LEMMA CommitRefines ==
  ASSUME IInv, NEW c \in Answers, AcceptCommit(c) \/ AcceptCommitLost(c)
  PROVE  [F!Next]_(F!vars)
<1> DEFINE r == answering[c].req
<1>1. /\ msg[c] = "removed" /\ friend' = friend \cup txn[c]
      /\ UNCHANGED <<hash, answering>>
  BY DEF AcceptCommit, AcceptCommitLost, Commit
<1>2. /\ msg \in [Calls -> MsgState]
      /\ \E m \in {"finished", "queued"} : msg' = [msg EXCEPT ![c] = m]
  BY DEF AcceptCommit, AcceptCommitLost, IInv, Typed, TypeOK
<1>3. txn[c] = {Document(c, 0), Document(c, 1)}
  BY <1>1 DEF IInv, FriendInv
<1>4. /\ Document(c, 0).source = r.sender /\ Document(c, 0).target = r.recive
      /\ Document(c, 1).source = r.recive /\ Document(c, 1).target = r.sender
  BY DEF Document
<1>5. Friends' = Friends \cup {<<r.sender, r.recive>>, <<r.recive, r.sender>>}
  BY <1>1, <1>3, <1>4 DEF Friends
<1>6. Agreed' = Agreed
  <2>1. \A k \in Answers : msg'[k] # "none" <=> msg[k] # "none"
    BY <1>1, <1>2 DEF Calls
  <2> QED
    BY <1>1, <2>1, AgreedKept
<1>7. <<r.sender, r.recive>> \in Agreed
  <2>1. answering[c].status = "accept"
    BY <1>1 DEF IInv, Typed, MsgInv
  <2> QED
    BY <1>1, <2>1 DEF Agreed, Accepted
<1>8. r \in Request
  BY <1>1, AnswerIsTyped DEF IInv
<1>9. F!Befriend(r.sender, r.recive)
  BY <1>1, <1>5, <1>6, <1>7 DEF F!Befriend, Asked
<1> QED
  BY <1>8, <1>9 DEF F!Next, Request

\* Every other step of a message changes neither store of the mapping.
LEMMA MessageRefines ==
  ASSUME IInv, Typed', NEW c \in Calls,
         \/ Timeout(c) \/ Consumer(c) \/ Fail(c)
         \/ /\ c \in Answers
            /\ \/ AcceptExpired(c) \/ AcceptSave(c) \/ AcceptSaveMirror(c)
               \/ AcceptCallRemove(c)
               \/ \E w \in {"awaited", "abandoned"} : RemoveRequest(c, w)
  PROVE  UNCHANGED F!vars
<1> USE DEF reads, handlers
<1>t. msg \in [Calls -> MsgState] /\ answering \in [Answers -> AnswerCall]
  BY DEF IInv, Typed, TypeOK
<1>1. friend' = friend
  BY DEF Timeout, Consumer, Deliver, Reply, Ack, Fail, FailTo, AcceptExpired,
         AcceptSave, AcceptSaveMirror, AcceptCallRemove, RemoveRequest
<1>2. hash' = hash
  <2>1. CASE \E w \in {"awaited", "abandoned"} : RemoveRequest(c, w)
    BY <2>1, HDelFindsNothing DEF RemoveRequest, IInv, Typed
  <2>2. CASE ~(\E w \in {"awaited", "abandoned"} : RemoveRequest(c, w))
    BY <2>2 DEF Timeout, Consumer, Deliver, Reply, Ack, Fail, FailTo,
       AcceptExpired, AcceptSave, AcceptSaveMirror, AcceptCallRemove
  <2> QED
    BY <2>1, <2>2
<1>3. \A k \in Answers : msg'[k] # "none" <=> msg[k] # "none"
  <2>1. CASE Timeout(c) \/ Consumer(c)
    BY <2>1, <1>t DEF Timeout, Consumer, Deliver, Reply, Ack, Calls
  <2>2. CASE Fail(c)
    BY <2>2, <1>t DEF Fail, FailTo, Calls, AddSteps, AcceptSteps
  <2>3. ASSUME c \in Answers, NEW w \in {"awaited", "abandoned"}, RemoveRequest(c, w)
        PROVE  \A k \in Answers : msg'[k] # "none" <=> msg[k] # "none"
    <3>1. w = "awaited" => msg[c] = "removing"
      BY <2>3 DEF RemoveRequest, IInv, Typed, MsgInv
    <3> QED
      BY <2>3, <3>1, <1>t DEF RemoveRequest, Calls
  <2>4. CASE \/ AcceptExpired(c) \/ AcceptSave(c) \/ AcceptSaveMirror(c)
             \/ AcceptCallRemove(c)
    BY <2>4, <1>t DEF AcceptExpired, AcceptSave, AcceptSaveMirror, AcceptCallRemove, Calls
  <2> QED
    BY <2>1, <2>2, <2>3, <2>4
<1>4. \A k \in Answers : answering[k].at # "idle" =>
        /\ answering'[k].req = answering[k].req
        /\ answering'[k].status = answering[k].status
  <2>1. answering' = answering \/ \E a \in At : answering' = [answering EXCEPT ![c].at = a]
    BY DEF Timeout, Consumer, Deliver, Reply, Ack, Fail, FailTo, AcceptExpired,
           AcceptSave, AcceptSaveMirror, AcceptCallRemove, RemoveRequest, Answered
  <2> QED
    BY <2>1, <1>t DEF AnswerCall
<1>5. \A k \in Answers : msg[k] # "none" => answering[k].at # "idle"
  BY DEF IInv, Typed, MsgInv
<1> QED
  BY <1>1, <1>2, <1>3, <1>4, <1>5, AgreedKept DEF F!vars, Asked, Friends

\* DELETE /friends deletes nothing, and a tag is not part of a friendship.
LEMMA EditRefines ==
  ASSUME IInv, EditStep
  PROVE  UNCHANGED F!vars
<1> USE DEF reads, handlers
<1>1. UNCHANGED <<hash, answering, msg>>
  BY DEF EditStep, RemoveCheck, RemoveDelete, TagCheck, TagUpdate
<1>2. Asked' = Asked /\ Agreed' = Agreed
  BY <1>1 DEF Asked, Agreed, Accepted
<1>3. Friends' = Friends
  <2>1. ASSUME NEW c \in Removes, RemoveDelete(c) PROVE friend' = friend
    <3>1. removing[c] \in [at : At, by : Tids, target : Tids]
      BY <2>1 DEF RemoveDelete, IInv, Typed, TypeOK, RemoveCall
    <3>2. \A d \in friend : d.target # RemovedTarget(removing[c].target)
      BY <3>1, KeyAssumption DEF RemovedTarget, IInv, Typed, TypeOK, Doc
    <3> QED
      BY <2>1, <3>2 DEF RemoveDelete, WithoutOne
  <2>2. ASSUME NEW c \in Retags, TagUpdate(c) PROVE Friends' = Friends
    <3>1. CASE friend' = friend
      BY <3>1 DEF Friends
    <3>2. ASSUME NEW d \in friend, NEW g,
                 friend' = (friend \ {d}) \cup {[d EXCEPT !.tag = g]}
          PROVE  Friends' = Friends
      <4>1. /\ [d EXCEPT !.tag = g].source = d.source
            /\ [d EXCEPT !.tag = g].target = d.target
        BY DEF IInv, Typed, TypeOK, Doc
      <4> QED
        BY <3>2, <4>1 DEF Friends
    <3> QED
      BY <2>2, <3>1, <3>2 DEF TagUpdate
  <2> QED
    BY <2>1, <2>2 DEF EditStep, RemoveCheck, TagCheck, Friends
<1> QED
  BY <1>2, <1>3 DEF F!vars

\* Both services together, with their queues, retries and crashes, do only
\* what Friendship allows: Spec implements F!Spec.
THEOREM Refines == Spec => ImplementsFriendship
<1>1. Init => F!Init
  BY DEF Init, F!Init, Asked, Agreed, Accepted, Friends, Calls
<1>2. IInv /\ Typed' /\ [Next]_vars => [F!Next]_(F!vars)
  <2> SUFFICES ASSUME IInv, Typed', [Next]_vars PROVE [F!Next]_(F!vars)
    OBVIOUS
  <2>1. CASE Tick \/ UNCHANGED vars
    BY <2>1 DEF Tick, vars, handlers, F!vars, Asked, Agreed, Accepted, Friends
  <2>2. CASE \E c \in Adds : AddCallStep(c) \/ AddHandler(c)
    BY <2>2, AddRefines
  <2>3. ASSUME NEW c \in Answers, AnswerCallStep(c) PROVE [F!Next]_(F!vars)
    BY <2>3, AnswerRefines
  <2>4. ASSUME NEW c \in Answers, AcceptCommit(c) \/ AcceptCommitLost(c)
        PROVE  [F!Next]_(F!vars)
    BY <2>4, CommitRefines
  <2>5. ASSUME NEW c \in Answers,
               \/ AcceptExpired(c) \/ AcceptSave(c) \/ AcceptSaveMirror(c)
               \/ AcceptCallRemove(c)
               \/ \E w \in {"awaited", "abandoned"} : RemoveRequest(c, w)
        PROVE  [F!Next]_(F!vars)
    BY <2>5, MessageRefines DEF Calls
  <2>6. ASSUME NEW c \in Calls, Timeout(c) \/ Consumer(c) \/ Fail(c)
        PROVE  [F!Next]_(F!vars)
    BY <2>6, MessageRefines
  <2>7. CASE EditStep
    BY <2>7, EditRefines
  <2> QED
    BY <2>1, <2>2, <2>3, <2>4, <2>5, <2>6, <2>7 DEF Next, AcceptHandler
<1>3. Spec => []IInv
  BY Inductive
<1>4. IInv => Typed
  BY DEF IInv
<1> QED
  BY <1>1, <1>2, <1>3, <1>4, PTL DEF Spec, ImplementsFriendship, F!Spec

(***************************************************************************)
(* What expired, and what lasts                                            *)
(***************************************************************************)

\* The message of a request that has expired goes back and forth between its
\* queue and the expiry check of its handler, and has committed nothing.
Bounced(c) == msg[c] \in {"queued", "begun"} /\ commits[c] = 0 /\ Overdue(c)

\* A call that has been made keeps its request, and time does not go back.
LEMMA OverdueStays ==
  ASSUME Typed, [Next]_vars, NEW c \in Answers, Overdue(c)
  PROVE  Overdue(c)'
<1> USE DEF reads, handlers
<1>1. answering[c] \in [at : At, status : {"accept", "refuse"}, by : Tids, req : Request]
  BY DEF Typed, TypeOK, AnswerCall, Overdue
<1>2. /\ now \in Nat /\ now' \in {now, now + 1}
      /\ answering[c].req.expire \in Nat
  <2>1. now' \in {now, now + 1}
    BY DEF Next, vars, Tick, AddCallStep, AddCheck, AddPublish, AddHandler, AddHset,
       AddHsetnx, AddZadd, AnswerCallStep, CallGet, CallPublish, AcceptHandler,
       AcceptExpired, AcceptSave, AcceptSaveMirror, AcceptCallRemove, AcceptCommit,
       AcceptCommitLost, RemoveRequest, Timeout, Consumer, Deliver, Reply, Ack, Fail,
       FailTo, EditStep, RemoveCheck, RemoveDelete, TagCheck, TagUpdate
  <2> QED
    BY <1>1, <2>1 DEF Typed, TypeOK, Request
<1>3. answering'[c] = answering[c]
        \/ \E a \in At : answering'[c] = [answering[c] EXCEPT !.at = a]
  <2>1. ASSUME NEW k \in Answers, AnswerCallStep(k)
        PROVE  answering'[c] = answering[c]
                 \/ \E a \in At : answering'[c] = [answering[c] EXCEPT !.at = a]
    BY <1>1, <2>1 DEF AnswerCallStep, CallGet, CallPublish, Typed, TypeOK
  <2>2. ASSUME NEW k \in Calls, Timeout(k) \/ Reply(k)
        PROVE  answering'[c] = answering[c]
                 \/ \E a \in At : answering'[c] = [answering[c] EXCEPT !.at = a]
    BY <1>1, <2>2 DEF Timeout, Reply, Answered, Typed, TypeOK
  <2> QED
    BY <2>1, <2>2 DEF Next, vars, Tick, AddCallStep, AddCheck, AddPublish, AddHandler,
       AddHset, AddHsetnx, AddZadd, AcceptHandler, AcceptExpired, AcceptSave,
       AcceptSaveMirror, AcceptCallRemove, AcceptCommit, AcceptCommitLost,
       RemoveRequest, Consumer, Deliver, Ack, Fail, FailTo, EditStep, RemoveCheck,
       RemoveDelete, TagCheck, TagUpdate
<1>4. answering'[c] # Idle /\ answering'[c].req = answering[c].req
  BY <1>1, <1>3
<1> QED
  BY <1>2, <1>4 DEF Overdue, Expired

\* No step takes the message of an expired request past the check.
LEMMA BouncedStays ==
  ASSUME Typed, [Next]_vars, NEW c \in Answers, Bounced(c)
  PROVE  Bounced(c)'
<1> USE DEF reads, handlers
<1>1. Overdue(c)'
  BY OverdueStays DEF Bounced
<1>2. /\ msg \in [Calls -> MsgState] /\ commits \in [Answers -> Nat] /\ c \in Calls
      /\ c \notin Adds
  BY KeyAssumption DEF Typed, TypeOK, Calls
<1>3. Expired(answering[c].req) /\ msg[c] \in {"queued", "begun"} /\ commits[c] = 0
  BY DEF Bounced, Overdue
<1>4. msg'[c] \in {"queued", "begun"} /\ commits'[c] = 0
  <2>1. ASSUME NEW k \in Adds, AddCallStep(k) \/ AddHandler(k)
        PROVE  msg'[c] = msg[c] /\ commits' = commits
    BY <1>2, <2>1 DEF AddCallStep, AddCheck, AddPublish, AddHandler, AddHset, AddHsetnx,
       AddZadd
  <2>2. ASSUME NEW k \in Answers, AnswerCallStep(k)
        PROVE  msg'[c] = msg[c] /\ commits' = commits
    <3>1. answering[c].at # "checked"
      BY <1>3 DEF Typed, MsgInv
    <3> QED
      BY <1>2, <2>2, <3>1 DEF AnswerCallStep, CallGet, CallPublish
  <2>3. ASSUME NEW k \in Answers, AcceptHandler(k) \/ AcceptCommitLost(k)
        PROVE  msg'[c] \in {"queued", "begun"} /\ commits'[c] = commits[c]
    BY <1>2, <1>3, <2>3 DEF AcceptHandler, AcceptExpired, AcceptSave, AcceptSaveMirror,
       AcceptCallRemove, AcceptCommit, AcceptCommitLost, Commit
  <2>4. ASSUME NEW k \in Answers, NEW w \in {"awaited", "abandoned"}, RemoveRequest(k, w)
        PROVE  msg'[c] = msg[c] /\ commits' = commits
    BY <1>2, <1>3, <2>4 DEF RemoveRequest, Typed, MsgInv
  <2>5. ASSUME NEW k \in Calls, Timeout(k) \/ Consumer(k) \/ Fail(k)
        PROVE  msg'[c] \in {"queued", "begun"} /\ commits' = commits
    BY <1>2, <1>3, <2>5 DEF Timeout, Consumer, Deliver, Reply, Ack, Fail, FailTo
  <2>6. CASE EditStep \/ Tick \/ UNCHANGED vars
    BY <1>3, <2>6 DEF EditStep, RemoveCheck, RemoveDelete, TagCheck, TagUpdate, Tick, vars
  <2> QED
    BY <1>3, <2>1, <2>2, <2>3, <2>4, <2>5, <2>6 DEF Next
<1> QED
  BY <1>1, <1>4 DEF Bounced

\* A request that expires while its accept message waits in the queue never makes
\* a friendship, however often the message is delivered, fails or is late.
THEOREM ExpiredAccepted == Spec => ExpiredNeverAccepted
<1>1. ASSUME NEW c \in Answers
      PROVE  Spec => []( msg[c] = "queued" /\ commits[c] = 0 /\ Overdue(c)
                           => [](commits[c] = 0) )
  <2>1. msg[c] = "queued" /\ commits[c] = 0 /\ Overdue(c) => Bounced(c)
    BY DEF Bounced
  <2>2. IInv /\ [Next]_vars /\ Bounced(c) => Bounced(c)'
    BY BouncedStays DEF IInv
  <2>3. Bounced(c) => commits[c] = 0
    BY DEF Bounced
  <2> QED
    BY <2>1, <2>2, <2>3, Inductive, PTL DEF Spec
<1> QED
  BY <1>1 DEF ExpiredNeverAccepted

\* A request that was answered, with yes or with no, is in the store for good and
\* may be answered again: for any number of accounts and calls, the message
\* request.remove removes nothing.
THEOREM AnsweredIsStored ==
  Spec => [](\A c \in Answers :
               msg[c] # "none" => HGet(hash, answering[c].req.recive, answering[c].req) = {"json"})
<1>1. ASSUME IInv, NEW c \in Answers, msg[c] # "none"
      PROVE  HGet(hash, answering[c].req.recive, answering[c].req) = {"json"}
  <2> DEFINE r == answering[c].req
  <2>1. FieldOf(r, "json") \in hash
    BY <1>1 DEF IInv, StoreInv
  <2>2. \A e \in hash : e.rid = r => e.val = "json"
    BY <1>1 DEF IInv, StoreInv, FieldOf
  <2> QED
    BY <2>1, <2>2 DEF HGet, FieldOf
<1>2. IInv => \A c \in Answers :
        msg[c] # "none" => HGet(hash, answering[c].req.recive, answering[c].req) = {"json"}
  BY <1>1
<1> QED
  BY <1>2, Inductive, PTL

\* DELETE /request/refuse never answers without an error: an answer takes a
\* handler that has committed, and a refusal is published where there is none.
THEOREM RefusalFails ==
  Spec => [](\A c \in Answers : answering[c].at = "done" => answering[c].status = "accept")
<1>1. ASSUME IInv, NEW c \in Answers, answering[c].at = "done"
      PROVE  answering[c].status = "accept"
  <2>1. commits[c] > 0
    BY <1>1 DEF IInv, FriendInv
  <2>2. msg[c] \notin {"none", "dropped"}
    BY <2>1, <1>1 DEF IInv, Typed, MsgInv
  <2> QED
    BY <2>2, <1>1 DEF IInv, Typed, MsgInv
<1>2. IInv => \A c \in Answers : answering[c].at = "done" => answering[c].status = "accept"
  BY <1>1
<1> QED
  BY <1>2, Inductive, PTL

\* What Friendship promises, and so what the services do: whoever are friends have
\* one of them agreed to be, and whoever agreed had been asked.
AskedFirst ==
  /\ Agreed \subseteq Asked
  /\ \A s, r \in Tids : <<s, r>> \in Friends => <<s, r>> \in Agreed \/ <<r, s>> \in Agreed

LEMMA FriendshipAsksFirst == F!Spec => []AskedFirst
<1>1. F!Init => AskedFirst
  BY DEF F!Init, AskedFirst
<1>2. AskedFirst /\ [F!Next]_(F!vars) => AskedFirst'
  <2> SUFFICES ASSUME AskedFirst, [F!Next]_(F!vars)
               PROVE  AskedFirst'
    OBVIOUS
  <2>1. ASSUME NEW s \in Tids, NEW r \in Tids, F!Ask(s, r)
        PROVE  AskedFirst'
    BY <2>1 DEF F!Ask, AskedFirst
  <2>2. ASSUME NEW s \in Tids, NEW r \in Tids, F!Agree(s, r)
        PROVE  AskedFirst'
    BY <2>2 DEF F!Agree, AskedFirst
  <2>3. ASSUME NEW s \in Tids, NEW r \in Tids, F!Befriend(s, r)
        PROVE  AskedFirst'
    BY <2>3 DEF F!Befriend, AskedFirst
  <2>4. ASSUME NEW s \in Tids, NEW r \in Tids, F!Unfriend(s, r)
        PROVE  AskedFirst'
    BY <2>4 DEF F!Unfriend, AskedFirst
  <2>5. CASE UNCHANGED F!vars
    BY <2>5 DEF F!vars, AskedFirst
  <2> QED
    BY <2>1, <2>2, <2>3, <2>4, <2>5 DEF F!Next
<1> QED
  BY <1>1, <1>2, PTL DEF F!Spec

\* Nobody is the friend of somebody whom they have neither asked nor agreed with.
THEOREM NobodyUnasked == Spec => []AskedFirst
BY Refines, FriendshipAsksFirst, PTL DEF ImplementsFriendship

\* A friendship lasts: DELETE /friends looks for an _id where accept has stored a
\* tid, and PATCH /friends/tag replaces a document by one of the same friends.
THEOREM FriendsLast == Spec => [][Friends \subseteq Friends']_vars
<1>1. IInv /\ [Next]_vars => [Friends \subseteq Friends']_vars
  <2> SUFFICES ASSUME IInv, Next
               PROVE  Friends \subseteq Friends'
    BY DEF Friends
  <2>1. CASE EditStep
    BY <2>1, EditRefines DEF F!vars
  <2>2. CASE ~EditStep
    <3>1. friend \subseteq friend'
      BY <2>2 DEF Next, reads, handlers, Tick, AddCallStep, AddCheck, AddPublish,
         AddHandler, AddHset, AddHsetnx, AddZadd, AnswerCallStep, CallGet, CallPublish,
         AcceptHandler, AcceptExpired, AcceptSave, AcceptSaveMirror, AcceptCallRemove,
         AcceptCommit, AcceptCommitLost, Commit, RemoveRequest, Timeout, Consumer,
         Deliver, Reply, Ack, Fail, FailTo
    <3> QED
      BY <3>1 DEF Friends
  <2> QED
    BY <2>1, <2>2
<1> QED
  BY <1>1, Inductive, PTL DEF Spec
=============================================================================
