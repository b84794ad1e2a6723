------------------------------ MODULE Notices ------------------------------
(***************************************************************************)
(* GET /notices: NoticeService.getNotice shows a page of the sorted set    *)
(* NOTICE:<tid> and takes it out, by rank, in a second command.  And the   *)
(* notice of a removed friend, from FriendsService.remove, which publishes *)
(* it, to NoticeService.setNotice, which would store it.  Nothing in this  *)
(* repository stores notices successfully: they arrive from outside.       *)
(***************************************************************************)
EXTENDS Config, SortedSets

CONSTANTS
  Tids,        \* account ids
  Notices,     \* notices that may arrive: numbers, in order of their score
  Removals,    \* notices that FriendsService.remove makes: other numbers
  Reads,       \* calls of GET /notices, each made at most once
  Pages,       \* what callers send as the page
  Files,       \* configuration files
  ObjectKey    \* the text of an object

ASSUME NoticesAssumption ==
  /\ Notices \subseteq Nat /\ Removals \subseteq Nat /\ Notices \cap Removals = {}
  /\ IsFiniteSet(Notices) /\ IsFiniteSet(Removals)
  /\ Pages \subseteq Int
  /\ ObjectKey \notin Tids

\* The interface of the configuration has numbers for the two sizes.
ASSUME SizesAssumption ==
  \A f \in Files : \A path \in {<<"system", "notice", "size">>, <<"system", "size">>} :
    path \in DOMAIN f => f[path] \in Int

VARIABLES
  file,        \* the configuration, read when the process starts
  store,       \* Redis: the members of NOTICE:<key>
  gone,        \* history: what getNotice has removed from each key
  read,        \* state of each call
  raced,       \* history: calls during which their key changed, between their
               \* two commands
  msg          \* state of the message of each removal

vars == <<file, store, gone, read, raced, msg>>
reads == <<read, raced>>

Keys == Tids \cup {ObjectKey}
Idle == [at |-> "idle"]
ReadAt == {"read", "removed", "done", "failed", "lost"}
Read == {Idle} \cup [at : ReadAt, tid : Tids, page : Pages, shown : SUBSET Notices]
MsgAt == {"none", "dropped", "queued", "delivered", "acked"}

Init ==
  /\ file \in Files
  /\ store = [k \in Keys |-> {}]
  /\ gone = [k \in Keys |-> {}]
  /\ read = [c \in Reads |-> Idle]
  /\ raced = {}
  /\ msg = [m \in Removals |-> "none"]

(***************************************************************************)
(* NoticeService.getNotice                                                 *)
(***************************************************************************)
\* In arithmetic JavaScript takes null for zero.
Number(value) == IF value = Null THEN 0 ELSE value

NoticeSize == Number(Otherwise(Get(file, <<"system", "notice", "size">>),
                               Get(file, <<"system", "size">>)))

PageStartNext(p) == p * NoticeSize  \* fault
PageStart(p) == (p - 1) * NoticeSize
PageEnd(p) == p * NoticeSize

Page(t, p) == ZRange(store[t], PageStart(p), PageEnd(p))

Between(t) == {c \in Reads : read[c].at = "read" /\ read[c].tid = t}

ReadPage(c, t, p) ==
  /\ read[c] = Idle
  /\ read' = [read EXCEPT ![c] =
                [at |-> "read", tid |-> t, page |-> p, shown |-> Page(t, p)]]
  /\ UNCHANGED <<file, store, gone, raced, msg>>

\* ZREMRANGEBYRANK, with the ranks of the page and not its members.
RemovedAll(c) == store[read[c].tid]  \* fault
RemovedNone(c) == {}  \* fault
Removed(c) == Page(read[c].tid, read[c].page)

RemovePage(c) ==
  LET t == read[c].tid
  IN  /\ read[c].at = "read"
      /\ store' = [store EXCEPT ![t] = @ \ Removed(c)]
      /\ gone' = [gone EXCEPT ![t] = @ \cup Removed(c)]
      /\ read' = [read EXCEPT ![c].at = "removed"]
      /\ raced' = IF Removed(c) = {} THEN raced ELSE raced \cup (Between(t) \ {c})
      /\ UNCHANGED <<file, msg>>

Answer(c) ==
  /\ read[c].at = "removed"
  /\ read' = [read EXCEPT ![c].at = "done"]
  /\ UNCHANGED <<file, store, gone, raced, msg>>

\* Redis rejects a command, its answer is lost, or the process dies.
ReadFail(c) ==
  /\ \/ read[c].at = "read" /\ read' = [read EXCEPT ![c].at = "failed"]
     \/ read[c].at = "removed" /\ read' = [read EXCEPT ![c].at = "lost"]
  /\ UNCHANGED <<file, store, gone, raced, msg>>

(***************************************************************************)
(* Where notices come from                                                 *)
(***************************************************************************)
Arrive(t, n) ==
  /\ \A k \in Keys : n \notin store[k] \cup gone[k]
  /\ store' = [store EXCEPT ![t] = @ \cup {n}]
  /\ raced' = raced \cup Between(t)
  /\ UNCHANGED <<file, gone, read, msg>>

\* FriendsService.remove publishes with what RequestOption finds; an exchange
\* drops a message without a routing key.
Publish(m) ==
  /\ msg[m] = "none"
  /\ msg' = [msg EXCEPT ![m] =
       IF RequestOption(file, "notice", "setNotice").routingKey = Null
         THEN "dropped" ELSE "queued"]
  /\ UNCHANGED <<file, store, gone, reads>>

Deliver(m) ==
  /\ msg[m] = "queued"
  /\ msg' = [msg EXCEPT ![m] = "delivered"]
  /\ UNCHANGED <<file, store, gone, reads>>

\* ZADD wants pairs of a score and a member.
ZAddWorks(args) == Len(args) > 0 /\ Len(args) % 2 = 0

\* The handler is called with the notice in the place of the tid.
SetNoticeScored(m) == <<0, m>>  \* fault
SetNoticeArgs(m) == <<m>>

\* An error sends the message back to its queue.
SetNotice(m) ==
  /\ msg[m] = "delivered"
  /\ IF ZAddWorks(SetNoticeArgs(m))
       THEN /\ store' = [store EXCEPT ![ObjectKey] = @ \cup {m}]
            /\ msg' = [msg EXCEPT ![m] = "acked"]
       ELSE /\ msg' = [msg EXCEPT ![m] = "queued"]
            /\ UNCHANGED store
  /\ UNCHANGED <<file, gone, reads>>

Next ==
  \/ \E c \in Reads : \/ \E t \in Tids, p \in Pages : ReadPage(c, t, p)
                      \/ RemovePage(c)
                      \/ Answer(c)
                      \/ ReadFail(c)
  \/ \E t \in Tids, n \in Notices : Arrive(t, n)
  \/ \E m \in Removals : Publish(m) \/ Deliver(m) \/ SetNotice(m)

Spec == Init /\ [][Next]_vars

(***************************************************************************)
(* Properties                                                              *)
(***************************************************************************)

\* Every variable has its type.
TypeOK ==
  /\ file \in Files
  /\ store \in [Keys -> SUBSET (Notices \cup Removals)]
  /\ gone \in [Keys -> SUBSET Notices]
  /\ read \in [Reads -> Read]
  /\ raced \subseteq Reads
  /\ msg \in [Removals -> MsgAt]

\* getNotice removes a notice that it has not shown only when its list has
\* changed between its two commands: an arrival or another reader shifts the
\* ranks.
UnseenOnlyByRace ==
  \A t \in Tids : \A n \in gone[t] :
    \E c \in Reads :
      /\ read[c].at \in {"removed", "done", "lost"} /\ read[c].tid = t
      /\ n \in read[c].shown \/ c \in raced

\* Two calls that were answered have shown the same notice only if the list of
\* one of them changed between its two commands.
TwiceOnlyByRace ==
  \A c, d \in Reads :
    c # d /\ read[c].at = "done" /\ read[d].at = "done"
      => \/ read[c].shown \cap read[d].shown = {}
         \/ c \in raced \/ d \in raced

\* Whatever readers have taken out before it, and however ranks have moved, a
\* notice that is stored is on one of the pages that there are from one on.
EveryNoticeHasAPage ==
  NoticeSize > 0 =>
    \A t \in Tids : \A n \in store[t] :
      \E p \in 1..Cardinality(store[t]) : n \in Page(t, p)

\* Nobody is ever told that a friend has removed them: the notice is dropped,
\* or, if a configuration names its routing key, delivered for ever.
RemovalIsNeverTold ==
  \A m \in Removals :
    msg[m] # "acked" /\ \A k \in Keys : m \notin store[k] \cup gone[k]
=============================================================================
