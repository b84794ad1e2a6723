----------------------------- MODULE BlackList -----------------------------
(***************************************************************************)
(* Blocking a user: PUT and DELETE /friends/block, which FriendsService    *)
(* serves from the Redis sets of BlackListCacheService, and the operations *)
(* of BlackListService on its MongoDB collection, which no controller      *)
(* calls.  Neither store ever sees what the other one is told.             *)
(***************************************************************************)
EXTENDS Naturals, FiniteSets

CONSTANTS
  Tids,        \* account ids
  Blocks,      \* calls of PUT /friends/block
  Unblocks,    \* calls of DELETE /friends/block
  Saves,       \* calls of BlackListService.block, which fail or are repeated
  Deletes      \* calls of BlackListService.unblock

\* A call of BlackListService is one or the other.
ASSUME CallsAssumption == Saves \cap Deletes = {}

VARIABLES
  cache,       \* Redis: <<s, t>> when t is in the set BLACK_LIST_CACHE:<s>
  stored,      \* MongoDB: the documents of the black list collection
  call         \* state of each call

vars == <<cache, stored, call>>

Calls == Blocks \cup Unblocks \cup Saves \cup Deletes
Idle == [at |-> "idle"]

Init ==
  /\ cache = {} /\ stored = {}
  /\ call = [c \in Calls |-> Idle]

Begin(c, s, t, at) ==
  /\ call[c] = Idle
  /\ call' = [call EXCEPT ![c] = [at |-> at, source |-> s, target |-> t]]

\* Boolean() is given the promise of SISMEMBER and not its answer, so the check
\* waits for nothing that Redis says.
InBlackList(s, t) == TRUE

AddBlackList(s, t) == cache' = cache \cup {<<s, t>>}
RemoveTarget(s, t) == cache' = cache \ {<<s, t>>}

\* FriendsService.block: IN_BLACK_LIST when t is in the list already, or SADD.
Block(c, s, t) ==
  /\ IF InBlackList(s, t) THEN Begin(c, s, t, "failed") /\ UNCHANGED cache
     ELSE Begin(c, s, t, "done") /\ AddBlackList(s, t)
  /\ UNCHANGED stored

\* FriendsService.unblock: NOT_IN_BLACK_LIST when t is not in the list.
UnblockCheck(c, s, t) ==
  /\ Begin(c, s, t, IF InBlackList(s, t) THEN "checked" ELSE "failed")
  /\ UNCHANGED <<cache, stored>>

UnblockRemove(c) ==
  /\ call[c].at = "checked"
  /\ RemoveTarget(call[c].source, call[c].target)
  /\ call' = [call EXCEPT ![c].at = "done"]
  /\ UNCHANGED stored

\* BlackListService.block saves a document, whatever is there already; the
\* answer of MongoDB may be lost.
Save(c, s, t) ==
  /\ \/ /\ Begin(c, s, t, "done") \/ Begin(c, s, t, "failed")
        /\ stored' = stored \cup {[id |-> c, source |-> s, target |-> t]}
     \/ Begin(c, s, t, "failed") /\ UNCHANGED stored
  /\ UNCHANGED cache

MatchingSource(s, t) == {d \in stored : d.source = s}  \* fault
Matching(s, t) == {d \in stored : d.source = s /\ d.target = t}

\* BlackListService.unblock: findOneAndDelete, which may fail, and whose answer
\* may be lost.
Delete(c, s, t) ==
  /\ \/ /\ Begin(c, s, t, "done") \/ Begin(c, s, t, "failed")
        /\ \/ Matching(s, t) = {} /\ UNCHANGED stored
           \/ \E d \in Matching(s, t) : stored' = stored \ {d}
     \/ Begin(c, s, t, "failed") /\ UNCHANGED stored
  /\ UNCHANGED cache

\* BlackListService._inBlackList.
IsStored(s, t) == \E d \in stored : d.source = s /\ d.target = t

Next ==
  \/ \E s, t \in Tids :
       \/ \E c \in Blocks : Block(c, s, t)
       \/ \E c \in Unblocks : UnblockCheck(c, s, t)
       \/ \E c \in Saves : Save(c, s, t)
       \/ \E c \in Deletes : Delete(c, s, t)
  \/ \E c \in Unblocks : UnblockRemove(c)

Spec == Init /\ [][Next]_vars

(***************************************************************************)
(* Properties                                                              *)
(***************************************************************************)

\* Whoever was unblocked in MongoDB is still blocked only if they were blocked
\* twice: by a retry of a call whose answer was lost, or by another call.
StillBlockedOnlyByRepeat ==
  [][\A c \in Deletes, s, t \in Tids :
       /\ call[c] = Idle /\ call'[c] = [at |-> "done", source |-> s, target |-> t]
       /\ IsStored(s, t)'
       => \E b, d \in Saves :
            /\ b # d
            /\ \A e \in {b, d} : call[e] # Idle /\ call[e].source = s
                                                /\ call[e].target = t]_vars
=============================================================================
