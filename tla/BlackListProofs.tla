-------------------------- MODULE BlackListProofs --------------------------
(***************************************************************************)
(* Proofs about BlackList, for every set of accounts and calls.            *)
(***************************************************************************)
EXTENDS BlackList, TLAPS

USE DEF Idle

(***************************************************************************)
(* What is behind the properties: the cache stays empty, and a document of *)
(* the collection was stored by the call it is named by, for the same two  *)
(* accounts.                                                               *)
(***************************************************************************)
Document == [id : Saves, source : Tids, target : Tids]
Made == [at : {"checked", "done", "failed"}, source : Tids, target : Tids]

Typed ==
  /\ cache = {}
  /\ stored \subseteq Document
  /\ call \in [Calls -> {Idle} \cup Made]

StoredByCall ==
  \A d \in stored :
    call[d.id] # Idle /\ call[d.id].source = d.source /\ call[d.id].target = d.target

BInv == Typed /\ StoredByCall

\* A call that begins was idle, and is made now.
LEMMA BeginMakes ==
  ASSUME Typed, NEW c \in Calls, NEW s \in Tids, NEW t \in Tids,
         NEW at \in {"checked", "done", "failed"}, Begin(c, s, t, at)
  PROVE  /\ call[c] = Idle
         /\ call' \in [Calls -> {Idle} \cup Made]
         /\ call'[c] # Idle /\ call'[c].source = s /\ call'[c].target = t
         /\ \A b \in Calls \ {c} : call'[b] = call[b]
<1> DEFINE new == [at |-> at, source |-> s, target |-> t]
<1>1. new \in Made
  BY DEF Made
<1>2. new.at = at /\ new.source = s /\ new.target = t
  OBVIOUS
<1> QED
  BY <1>1, <1>2 DEF Begin, Typed

\* The documents that were there go on being those of their calls when another
\* call begins.
LEMMA BeginKeeps ==
  ASSUME BInv, NEW c \in Calls, NEW s \in Tids, NEW t \in Tids,
         NEW at \in {"checked", "done", "failed"}, Begin(c, s, t, at),
         NEW d \in stored
  PROVE  /\ d.id # c
         /\ call'[d.id] # Idle /\ call'[d.id].source = d.source
         /\ call'[d.id].target = d.target
<1>1. /\ d.id \in Calls /\ call[d.id] # Idle
      /\ call[d.id].source = d.source /\ call[d.id].target = d.target
  BY DEF BInv, Typed, StoredByCall, Document, Calls
<1>2. Typed
  BY DEF BInv
<1>3. call[c] = Idle /\ \A b \in Calls \ {c} : call'[b] = call[b]
  BY <1>2 DEF Begin, Typed
<1> QED
  BY <1>1, <1>3

LEMMA BlockKeeps ==
  ASSUME BInv, NEW c \in Blocks, NEW s \in Tids, NEW t \in Tids, Block(c, s, t)
  PROVE  BInv'
<1>1. Begin(c, s, t, "failed") /\ UNCHANGED <<cache, stored>> /\ c \in Calls
  BY DEF Block, InBlackList, Calls
<1> QED
  BY <1>1, BeginMakes, BeginKeeps DEF BInv, Typed, StoredByCall

LEMMA UnblockCheckKeeps ==
  ASSUME BInv, NEW c \in Unblocks, NEW s \in Tids, NEW t \in Tids, UnblockCheck(c, s, t)
  PROVE  BInv'
<1>1. Begin(c, s, t, "checked") /\ UNCHANGED <<cache, stored>> /\ c \in Calls
  BY DEF UnblockCheck, InBlackList, Calls
<1> QED
  BY <1>1, BeginMakes, BeginKeeps DEF BInv, Typed, StoredByCall

\* SREM of an empty set; the call keeps its accounts.
LEMMA UnblockRemoveKeeps ==
  ASSUME BInv, NEW c \in Unblocks, UnblockRemove(c)
  PROVE  BInv'
<1>1. c \in Calls /\ call[c] \in Made
  BY DEF UnblockRemove, Calls, BInv, Typed
<1>2. cache' = {} /\ stored' = stored
  BY DEF UnblockRemove, RemoveTarget, BInv, Typed
<1>3. [call[c] EXCEPT !.at = "done"] \in Made
  BY <1>1 DEF Made
<1>4. call' = [call EXCEPT ![c] = [call[c] EXCEPT !.at = "done"]]
  BY DEF UnblockRemove
<1>5. call' \in [Calls -> {Idle} \cup Made]
  BY <1>1, <1>3, <1>4 DEF BInv, Typed
<1>6. StoredByCall'
  <2> SUFFICES ASSUME NEW d \in stored
               PROVE  /\ call'[d.id] # Idle /\ call'[d.id].source = d.source
                      /\ call'[d.id].target = d.target
    BY <1>2 DEF StoredByCall
  <2>1. d.id \in Calls
    BY DEF BInv, Typed, Document, Calls
  <2>2. [call[c] EXCEPT !.at = "done"].at = "done"
        /\ [call[c] EXCEPT !.at = "done"].source = call[c].source
        /\ [call[c] EXCEPT !.at = "done"].target = call[c].target
    BY <1>1 DEF Made
  <2> QED
    BY <1>1, <1>4, <2>1, <2>2 DEF BInv, Typed, StoredByCall
<1> QED
  BY <1>2, <1>5, <1>6 DEF BInv, Typed

\* A new document is named by a call that has only just begun.
LEMMA SaveKeeps ==
  ASSUME BInv, NEW c \in Saves, NEW s \in Tids, NEW t \in Tids, Save(c, s, t)
  PROVE  BInv'
<1> DEFINE new == [id |-> c, source |-> s, target |-> t]
<1>1. Begin(c, s, t, "done") \/ Begin(c, s, t, "failed")
  BY DEF Save
<1>2. c \in Calls
  BY DEF Calls
<1>3. stored' = stored \cup {new} \/ stored' = stored
  BY DEF Save
<1>4. cache' = {}
  BY DEF Save, BInv, Typed
<1>5. /\ call' \in [Calls -> {Idle} \cup Made]
      /\ call'[c] # Idle /\ call'[c].source = s /\ call'[c].target = t
  <2>1. CASE Begin(c, s, t, "done")
    BY <1>2, <2>1, BeginMakes DEF BInv
  <2>2. CASE Begin(c, s, t, "failed")
    BY <1>2, <2>2, BeginMakes DEF BInv
  <2> QED
    BY <1>1, <2>1, <2>2
<1>6. ASSUME NEW d \in stored
      PROVE  call'[d.id] # Idle /\ call'[d.id].source = d.source /\ call'[d.id].target = d.target
  BY <1>1, <1>2, BeginKeeps
<1>7. StoredByCall'
  BY <1>3, <1>5, <1>6 DEF StoredByCall
<1>8. new \in Document
  BY DEF Document
<1> QED
  BY <1>3, <1>4, <1>5, <1>7, <1>8 DEF BInv, Typed

LEMMA DeleteKeeps ==
  ASSUME BInv, NEW c \in Deletes, NEW s \in Tids, NEW t \in Tids, Delete(c, s, t)
  PROVE  BInv'
<1>1. c \in Calls /\ stored' \subseteq stored /\ cache' = cache
  BY DEF Delete, Calls
<1>2. CASE Begin(c, s, t, "done")
  BY <1>1, <1>2, BeginMakes, BeginKeeps DEF BInv, Typed, StoredByCall
<1>3. CASE Begin(c, s, t, "failed")
  BY <1>1, <1>3, BeginMakes, BeginKeeps DEF BInv, Typed, StoredByCall
<1> QED
  BY <1>2, <1>3 DEF Delete

LEMMA Invariant == Spec => []BInv
<1>1. Init => BInv
  BY DEF Init, BInv, Typed, StoredByCall
<1>2. BInv /\ [Next]_vars => BInv'
  <2>1. BInv /\ UNCHANGED vars => BInv'
    BY DEF vars, BInv, Typed, StoredByCall
  <2> QED
    BY <2>1, BlockKeeps, UnblockCheckKeeps, UnblockRemoveKeeps, SaveKeeps, DeleteKeeps
       DEF Next
<1> QED
  BY <1>1, <1>2, PTL DEF Spec

(***************************************************************************)
(* The theorems                                                            *)
(***************************************************************************)
\* findOneAndDelete leaves a document of the same two accounts behind only if
\* two calls of BlackListService.block have stored one each: it was answered,
\* so it has taken one if there was any.
LEMMA DeleteLeaves ==
  ASSUME BInv, NEW c \in Deletes, NEW s \in Tids, NEW t \in Tids,
         Delete(c, s, t), call'[c].at = "done", IsStored(s, t)'
  PROVE  \E b, d \in Saves :
           /\ b # d
           /\ \A e \in {b, d} : call[e] # Idle /\ call[e].source = s /\ call[e].target = t
<1>1. PICK left \in stored : left.source = s /\ left.target = t /\ left \in stored'
  BY DEF IsStored, Delete
<1>2. PICK taken \in stored :
        taken.source = s /\ taken.target = t /\ stored' = stored \ {taken}
  <2>1. ~Begin(c, s, t, "failed")
    BY DEF Begin, Calls, BInv, Typed
  <2> QED
    BY <1>1, <2>1 DEF Delete, Matching
<1>3. left \in Document /\ taken \in Document /\ left # taken
  BY <1>1, <1>2 DEF BInv, Typed
<1>4. left.id # taken.id
  BY <1>1, <1>2, <1>3 DEF Document
<1>5. left.id \in Saves /\ taken.id \in Saves
  BY <1>3 DEF Document
<1> QED
  BY <1>1, <1>2, <1>4, <1>5 DEF BInv, StoredByCall

\* Whoever was unblocked and is still blocked has been blocked twice.
THEOREM StillBlocked == Spec => StillBlockedOnlyByRepeat
<1>1. ASSUME BInv, Next, NEW c \in Deletes, NEW s \in Tids, NEW t \in Tids,
             call[c] = Idle, call'[c] = [at |-> "done", source |-> s, target |-> t],
             IsStored(s, t)'
      PROVE  \E b, d \in Saves :
               /\ b # d
               /\ \A e \in {b, d} : call[e] # Idle /\ call[e].source = s
                                                   /\ call[e].target = t
  <2>1. c \in Calls /\ call'[c].at = "done" /\ call[c].at = "idle"
    BY <1>1 DEF Calls
  <2>2. call'[c].source = s /\ call'[c].target = t
    BY <1>1
  <2>3. Delete(c, s, t)
    <3>1. ASSUME NEW b \in Blocks, NEW x \in Tids, NEW y \in Tids, Block(b, x, y)
          PROVE  FALSE
      BY <2>1, <3>1, <1>1, BeginMakes DEF Block, InBlackList, Begin, BInv, Typed
    <3>2. ASSUME NEW b \in Unblocks, NEW x \in Tids, NEW y \in Tids, UnblockCheck(b, x, y)
          PROVE  FALSE
      BY <2>1, <3>2, <1>1 DEF UnblockCheck, InBlackList, Begin, BInv, Typed
    <3>3. ASSUME NEW b \in Unblocks, UnblockRemove(b)
          PROVE  FALSE
      BY <2>1, <3>3, <1>1 DEF UnblockRemove, BInv, Typed
    <3>4. ASSUME NEW b \in Saves, NEW x \in Tids, NEW y \in Tids, Save(b, x, y)
          PROVE  FALSE
      BY <2>1, <3>4, <1>1, CallsAssumption DEF Save, Begin, BInv, Typed
    <3>5. ASSUME NEW b \in Deletes, NEW x \in Tids, NEW y \in Tids, Delete(b, x, y)
          PROVE  Delete(c, s, t)
      <4>b. \E at \in {"done", "failed"} : Begin(b, x, y, at)
        BY <3>5 DEF Delete
      <4>1. b = c
        BY <2>1, <4>b, <1>1 DEF Begin, BInv, Typed
      <4>2. x = s /\ y = t
        BY <2>1, <2>2, <4>b, <4>1, <1>1 DEF Begin, BInv, Typed
      <4> QED
        BY <3>5, <4>1, <4>2
    <3> QED
      BY <1>1, <3>1, <3>2, <3>3, <3>4, <3>5 DEF Next
  <2> QED
    BY <1>1, <2>1, <2>3, DeleteLeaves
<1>2. BInv /\ [Next]_vars =>
        [\A c \in Deletes, s, t \in Tids :
           /\ call[c] = Idle /\ call'[c] = [at |-> "done", source |-> s, target |-> t]
           /\ IsStored(s, t)'
           => \E b, d \in Saves :
                /\ b # d
                /\ \A e \in {b, d} : call[e] # Idle /\ call[e].source = s
                                                    /\ call[e].target = t]_vars
  BY <1>1
<1> QED
  BY <1>2, Invariant, PTL DEF Spec, StillBlockedOnlyByRepeat
=============================================================================
