--------------------------- MODULE NoticesProofs ---------------------------
(***************************************************************************)
(* Proofs about Notices, for every set of accounts, notices, calls and     *)
(* configuration files.  For what is lost or shown twice it is enough that *)
(* a page depends on the list of its account alone; how many notices it    *)
(* holds follows from where ranks lie in a finite set.                     *)
(***************************************************************************)
EXTENDS Notices, FiniteSetTheorems, TLAPS

USE NoticesAssumption
USE DEF Idle, ReadAt, MsgAt, Keys

(***************************************************************************)
(* What is behind the properties.  No list of an account holds a notice of *)
(* a removal; a notice is in one list, or was removed from one; a call     *)
(* that nothing has disturbed since it read its page would still read the  *)
(* same, and has removed nothing else.                                     *)
(***************************************************************************)
Removing == {"removed", "done", "lost"}

Apart ==
  /\ \A k, l \in Keys : store[k] \cap gone[l] = {}
  /\ \A k, l \in Keys : k # l => store[k] \cap store[l] = {}

ReadInv ==
  \A c \in Reads \ raced :
    /\ read[c].at = "read" => read[c].shown = Page(read[c].tid, read[c].page)
    /\ read[c].at \in Removing => read[c].shown \subseteq gone[read[c].tid]

ShownOnce ==
  \A c, d \in Reads \ raced :
    c # d /\ read[c].at \in Removing /\ read[d].at \in Removing
      => read[c].shown \cap read[d].shown = {}

NInv ==
  TypeOK /\ RemovalIsNeverTold /\ Apart /\ ReadInv /\ ShownOnce /\ UnseenOnlyByRace

\* A page is part of its list, which holds notices that arrived.
LEMMA PageInStore ==
  ASSUME TypeOK, RemovalIsNeverTold, NEW t \in Tids, NEW p \in Pages
  PROVE  /\ Page(t, p) \subseteq store[t]
         /\ store[t] \subseteq Notices
         /\ Page(t, p) \subseteq Notices
<1>1. Page(t, p) \subseteq store[t]
  BY DEF Page, ZRange
<1>2. store[t] \subseteq Notices
  BY DEF TypeOK, RemovalIsNeverTold
<1> QED
  BY <1>1, <1>2

\* A page is made of the list and of the configuration.
LEMMA PageKept ==
  ASSUME NEW d \in Reads, file' = file, read'[d].tid = read[d].tid,
         read'[d].page = read[d].page, store'[read[d].tid] = store[read[d].tid]
  PROVE  Page(read[d].tid, read[d].page)' = Page(read[d].tid, read[d].page)
BY DEF Page, PageStart, PageEnd, NoticeSize, Number

\* ZADD with one argument always fails.
LEMMA NeverAdded == ASSUME NEW m PROVE ~ZAddWorks(SetNoticeArgs(m))
BY DEF ZAddWorks, SetNoticeArgs

LEMMA ReadTyped ==
  ASSUME TypeOK, NEW c \in Reads, read[c].at \in ReadAt
  PROVE  read[c] \in [at : ReadAt, tid : Tids, page : Pages, shown : SUBSET Notices]
BY DEF TypeOK, Read

(***************************************************************************)
(* The steps                                                               *)
(***************************************************************************)
LEMMA InitInv == Init => NInv
BY DEF Init, NInv, TypeOK, Read, RemovalIsNeverTold, Apart, ReadInv, ShownOnce,
       UnseenOnlyByRace, Removing

LEMMA ReadPageInv ==
  ASSUME NInv, NEW c \in Reads, NEW t \in Tids, NEW p \in Pages, ReadPage(c, t, p)
  PROVE  NInv'
<1> DEFINE new == [at |-> "read", tid |-> t, page |-> p, shown |-> Page(t, p)]
<1>1. /\ read[c] = Idle /\ read' = [read EXCEPT ![c] = new]
      /\ file' = file /\ store' = store /\ gone' = gone /\ raced' = raced /\ msg' = msg
  BY DEF ReadPage
<1>2. new \in [at : ReadAt, tid : Tids, page : Pages, shown : SUBSET Notices]
  BY PageInStore DEF NInv
<1>3. read'[c] = new /\ \A d \in Reads \ {c} : read'[d] = read[d]
  BY <1>1 DEF NInv, TypeOK
<1>4. TypeOK' /\ RemovalIsNeverTold' /\ Apart'
  BY <1>1, <1>2 DEF NInv, TypeOK, Read, RemovalIsNeverTold, Apart
<1>5. /\ Page(read[c].tid, read[c].page)' = Page(t, p)
      /\ \A d \in Reads \ {c} :
           Page(read[d].tid, read[d].page)' = Page(read[d].tid, read[d].page)
  <2>1. read'[c].tid = t /\ read'[c].page = p
    BY <1>3
  <2>2. Page(read[c].tid, read[c].page)' = Page(t, p)
    BY <1>1, <2>1 DEF Page, PageStart, PageEnd, NoticeSize, Number
  <2> QED
    BY <1>1, <1>3, <2>2, PageKept
<1>6. ReadInv'
  <2> SUFFICES ASSUME NEW d \in Reads \ raced
               PROVE  /\ read'[d].at = "read" => read'[d].shown = Page(read[d].tid, read[d].page)'
                      /\ read'[d].at \in Removing => read'[d].shown \subseteq gone'[read'[d].tid]
    BY <1>1 DEF ReadInv
  <2>1. CASE d = c
    BY <1>3, <1>5, <2>1 DEF Removing
  <2>2. CASE d # c
    BY <1>1, <1>3, <1>5, <2>2 DEF NInv, ReadInv
  <2> QED
    BY <2>1, <2>2
<1>7. ShownOnce'
  BY <1>1, <1>3 DEF NInv, ShownOnce, Removing
<1>8. UnseenOnlyByRace'
  BY <1>1, <1>3 DEF NInv, UnseenOnlyByRace
<1> QED
  BY <1>4, <1>6, <1>7, <1>8 DEF NInv

LEMMA RemovePageInv ==
  ASSUME NInv, NEW c \in Reads, RemovePage(c)
  PROVE  NInv'
<1> DEFINE t == read[c].tid
           R == Page(read[c].tid, read[c].page)
<1>1. /\ read[c].at = "read" /\ read' = [read EXCEPT ![c].at = "removed"]
      /\ store' = [store EXCEPT ![t] = @ \ R] /\ gone' = [gone EXCEPT ![t] = @ \cup R]
      /\ raced' = IF R = {} THEN raced ELSE raced \cup (Between(t) \ {c})
      /\ file' = file /\ msg' = msg
  BY DEF RemovePage, Removed
<1>2. read[c] \in [at : ReadAt, tid : Tids, page : Pages, shown : SUBSET Notices]
  BY <1>1, ReadTyped DEF NInv
<1>3. t \in Tids /\ R \subseteq store[t] /\ R \subseteq Notices
  BY <1>2, PageInStore DEF NInv
<1>4. /\ read'[c] = [read[c] EXCEPT !.at = "removed"]
      /\ \A d \in Reads \ {c} : read'[d] = read[d]
  BY <1>1 DEF NInv, TypeOK
<1>5. /\ store'[t] = store[t] \ R /\ gone'[t] = gone[t] \cup R
      /\ \A k \in Keys \ {t} : store'[k] = store[k] /\ gone'[k] = gone[k]
  BY <1>1, <1>3 DEF NInv, TypeOK
<1>6. TypeOK'
  <2>1. read' \in [Reads -> Read]
    BY <1>1, <1>2, <1>4 DEF NInv, TypeOK, Read
  <2>2. raced' \subseteq Reads
    BY <1>1 DEF NInv, TypeOK, Between
  <2> QED
    BY <1>1, <1>3, <2>1, <2>2 DEF NInv, TypeOK
<1>7. RemovalIsNeverTold'
  BY <1>1, <1>3, <1>5 DEF NInv, RemovalIsNeverTold
<1>8. Apart'
  BY <1>3, <1>5 DEF NInv, Apart
<1>9. c \notin raced => read[c].shown = R
  BY <1>1 DEF NInv, ReadInv
<1>10. raced \subseteq raced' /\ (c \in raced' => c \in raced)
  BY <1>1 DEF Between
<1>11. ReadInv'
  <2> SUFFICES ASSUME NEW d \in Reads \ raced'
               PROVE  /\ read'[d].at = "read" => read'[d].shown = Page(read[d].tid, read[d].page)'
                      /\ read'[d].at \in Removing => read'[d].shown \subseteq gone'[read'[d].tid]
    BY DEF ReadInv
  <2>1. CASE d = c
    BY <1>2, <1>3, <1>4, <1>5, <1>9, <1>10, <2>1
  <2>2. CASE d # c /\ read[d].at = "read"
    <3>1. read[d] \in [at : ReadAt, tid : Tids, page : Pages, shown : SUBSET Notices]
      BY <2>2, ReadTyped DEF NInv
    <3>2. store'[read[d].tid] = store[read[d].tid]
      <4>1. CASE read[d].tid # t
        BY <1>5, <3>1, <4>1
      <4>2. CASE read[d].tid = t
        <5>1. R = {}
          BY <1>1, <2>2, <4>2 DEF Between
        <5> QED
          BY <1>5, <4>2, <5>1
      <4> QED
        BY <4>1, <4>2
    <3>3. Page(read[d].tid, read[d].page)' = Page(read[d].tid, read[d].page)
      BY <1>1, <1>4, <2>2, <3>2, PageKept
    <3>4. read'[d] = read[d] /\ d \notin raced
      BY <1>4, <1>10, <2>2
    <3> QED
      BY <2>2, <3>3, <3>4 DEF NInv, ReadInv, Removing
  <2>3. CASE d # c /\ read[d].at # "read"
    <3>1. read'[d] = read[d] /\ d \notin raced
      BY <1>4, <1>10, <2>3
    <3>2. ASSUME read[d].at \in Removing
          PROVE  read[d].shown \subseteq gone'[read[d].tid]
      <4>1. read[d].tid \in Tids
        BY <3>2, ReadTyped DEF NInv, Removing
      <4>2. read[d].shown \subseteq gone[read[d].tid]
        BY <3>1, <3>2 DEF NInv, ReadInv
      <4> QED
        BY <1>5, <4>1, <4>2
    <3> QED
      BY <2>3, <3>1, <3>2
  <2> QED
    BY <2>1, <2>2, <2>3
<1>12. ASSUME c \notin raced, NEW d \in Reads \ raced, d # c, read[d].at \in Removing
       PROVE  R \cap read[d].shown = {}
  <2>1. read[d].tid \in Tids /\ read[d].shown \subseteq gone[read[d].tid]
    BY <1>12, ReadTyped DEF NInv, ReadInv, Removing
  <2>2. store[t] \cap gone[read[d].tid] = {}
    BY <1>3, <2>1 DEF NInv, Apart
  <2> QED
    BY <1>3, <2>1, <2>2
<1>13. ShownOnce'
  <2> SUFFICES ASSUME NEW d \in Reads \ raced', NEW e \in Reads \ raced', d # e,
                      read'[d].at \in Removing, read'[e].at \in Removing
               PROVE  read'[d].shown \cap read'[e].shown = {}
    BY DEF ShownOnce
  <2>1. CASE d = c
    BY <1>2, <1>4, <1>9, <1>10, <1>12, <2>1
  <2>2. CASE e = c
    BY <1>2, <1>4, <1>9, <1>10, <1>12, <2>2
  <2>3. CASE d # c /\ e # c
    BY <1>4, <1>10, <2>3 DEF NInv, ShownOnce
  <2> QED
    BY <2>1, <2>2, <2>3
<1>14. UnseenOnlyByRace'
  <2> SUFFICES ASSUME NEW u \in Tids, NEW n \in gone'[u]
               PROVE  \E d \in Reads : /\ read'[d].at \in Removing /\ read'[d].tid = u
                                       /\ n \in read'[d].shown \/ d \in raced'
    BY DEF UnseenOnlyByRace, Removing
  <2>1. CASE n \in gone[u]
    <3>1. PICK d \in Reads : /\ read[d].at \in Removing /\ read[d].tid = u
                             /\ n \in read[d].shown \/ d \in raced
      BY <2>1 DEF NInv, UnseenOnlyByRace, Removing
    <3>2. d # c
      BY <1>1, <3>1 DEF Removing
    <3> QED
      BY <1>4, <1>10, <3>1, <3>2
  <2>2. CASE n \notin gone[u]
    <3>1. u = t /\ n \in R
      BY <1>5, <2>2
    <3> QED
      BY <1>2, <1>4, <1>9, <1>10, <3>1 DEF Removing
  <2> QED
    BY <2>1, <2>2
<1> QED
  BY <1>6, <1>7, <1>8, <1>11, <1>13, <1>14 DEF NInv

\* The end of a call, be it an answer or a failure, changes no list.
LEMMA EndInv ==
  ASSUME NInv, NEW c \in Reads, Answer(c) \/ ReadFail(c)
  PROVE  NInv'
<1>1. /\ file' = file /\ store' = store /\ gone' = gone /\ raced' = raced /\ msg' = msg
      /\ \/ read[c].at = "removed" /\ read' = [read EXCEPT ![c].at = "done"]
         \/ read[c].at = "read" /\ read' = [read EXCEPT ![c].at = "failed"]
         \/ read[c].at = "removed" /\ read' = [read EXCEPT ![c].at = "lost"]
  BY DEF Answer, ReadFail
<1>2. read[c] \in [at : ReadAt, tid : Tids, page : Pages, shown : SUBSET Notices]
  BY <1>1, ReadTyped DEF NInv
<1>3. /\ read'[c].tid = read[c].tid /\ read'[c].shown = read[c].shown
      /\ read'[c].page = read[c].page
      /\ read[c].at = "read" => read'[c].at = "failed"
      /\ read[c].at = "removed" => read'[c].at \in {"done", "lost"}
      /\ \A d \in Reads \ {c} : read'[d] = read[d]
      /\ read' \in [Reads -> Read]
  BY <1>1, <1>2 DEF NInv, TypeOK, Read
<1>4. TypeOK' /\ RemovalIsNeverTold' /\ Apart'
  BY <1>1, <1>3 DEF NInv, TypeOK, RemovalIsNeverTold, Apart
<1>5. ReadInv'
  <2> SUFFICES ASSUME NEW d \in Reads \ raced
               PROVE  /\ read'[d].at = "read" => read'[d].shown = Page(read[d].tid, read[d].page)'
                      /\ read'[d].at \in Removing => read'[d].shown \subseteq gone'[read'[d].tid]
    BY <1>1 DEF ReadInv
  <2>1. CASE d = c
    BY <1>1, <1>3, <2>1 DEF NInv, ReadInv, Removing
  <2>2. CASE d # c
    <3>1. read'[d] = read[d]
      BY <1>3, <2>2
    <3>2. Page(read[d].tid, read[d].page)' = Page(read[d].tid, read[d].page)
      BY <1>1, <3>1, PageKept
    <3> QED
      BY <1>1, <3>1, <3>2 DEF NInv, ReadInv
  <2> QED
    BY <2>1, <2>2
<1>6. ShownOnce'
  BY <1>1, <1>3 DEF NInv, ShownOnce, Removing
<1>7. UnseenOnlyByRace'
  BY <1>1, <1>3 DEF NInv, UnseenOnlyByRace
<1> QED
  BY <1>4, <1>5, <1>6, <1>7 DEF NInv

LEMMA ArriveInv ==
  ASSUME NInv, NEW t \in Tids, NEW n \in Notices, Arrive(t, n)
  PROVE  NInv'
<1>1. /\ \A k \in Keys : n \notin store[k] \cup gone[k]
      /\ store' = [store EXCEPT ![t] = @ \cup {n}] /\ raced' = raced \cup Between(t)
      /\ file' = file /\ gone' = gone /\ read' = read /\ msg' = msg
  BY DEF Arrive
<1>2. /\ store'[t] = store[t] \cup {n}
      /\ \A k \in Keys \ {t} : store'[k] = store[k]
  BY <1>1 DEF NInv, TypeOK
<1>3. TypeOK'
  BY <1>1 DEF NInv, TypeOK, Between
<1>4. RemovalIsNeverTold'
  <2> SUFFICES ASSUME NEW m \in Removals
               PROVE  msg[m] # "acked" /\ \A k \in Keys : m \notin store'[k] \cup gone[k]
    BY <1>1 DEF RemovalIsNeverTold
  <2>1. m # n
    OBVIOUS
  <2>2. msg[m] # "acked" /\ \A k \in Keys : m \notin store[k] \cup gone[k]
    BY DEF NInv, RemovalIsNeverTold
  <2>3. \A k \in Keys : store'[k] \subseteq store[k] \cup {n}
    BY <1>2
  <2> QED
    BY <2>1, <2>2, <2>3
<1>5. Apart'
  BY <1>1, <1>2 DEF NInv, Apart
<1>6. ReadInv'
  <2> SUFFICES ASSUME NEW d \in Reads \ raced'
               PROVE  /\ read'[d].at = "read" => read'[d].shown = Page(read[d].tid, read[d].page)'
                      /\ read'[d].at \in Removing => read'[d].shown \subseteq gone'[read'[d].tid]
    BY DEF ReadInv
  <2>1. d \notin raced /\ (read[d].at = "read" => read[d].tid # t)
    BY <1>1 DEF Between
  <2>2. ASSUME read[d].at = "read"
        PROVE  Page(read[d].tid, read[d].page)' = Page(read[d].tid, read[d].page)
    <3>1. read[d].tid \in Tids
      BY <2>2, ReadTyped DEF NInv
    <3>2. store'[read[d].tid] = store[read[d].tid]
      BY <1>2, <2>1, <2>2, <3>1
    <3> QED
      BY <1>1, <3>2, PageKept
  <2> QED
    BY <1>1, <2>1, <2>2 DEF NInv, ReadInv
<1>7. ShownOnce'
  BY <1>1 DEF NInv, ShownOnce
<1>8. UnseenOnlyByRace'
  BY <1>1 DEF NInv, UnseenOnlyByRace
<1> QED
  BY <1>3, <1>4, <1>5, <1>6, <1>7, <1>8 DEF NInv

\* A message of a removal goes round and changes no list.
LEMMA MessageInv ==
  ASSUME NInv, NEW m \in Removals, Publish(m) \/ Deliver(m) \/ SetNotice(m)
  PROVE  NInv'
<1>1. /\ file' = file /\ store' = store /\ gone' = gone /\ read' = read /\ raced' = raced
      /\ msg' \in [Removals -> MsgAt]
      /\ \A o \in Removals : msg'[o] = "acked" => msg[o] = "acked"
  <2>1. CASE Publish(m)
    BY <2>1 DEF Publish, NInv, TypeOK, reads
  <2>2. CASE Deliver(m)
    BY <2>2 DEF Deliver, NInv, TypeOK, reads
  <2>3. CASE SetNotice(m)
    BY <2>3, NeverAdded DEF SetNotice, NInv, TypeOK, reads
  <2> QED
    BY <2>1, <2>2, <2>3
<1>2. TypeOK' /\ RemovalIsNeverTold' /\ Apart' /\ ShownOnce' /\ UnseenOnlyByRace'
  BY <1>1 DEF NInv, TypeOK, RemovalIsNeverTold, Apart, ShownOnce, UnseenOnlyByRace
<1>3. ReadInv'
  BY <1>1 DEF NInv, ReadInv, Page, PageStart, PageEnd, NoticeSize, Number
<1> QED
  BY <1>2, <1>3 DEF NInv

LEMMA StepInv == NInv /\ [Next]_vars => NInv'
<1> SUFFICES ASSUME NInv, [Next]_vars
             PROVE  NInv'
  OBVIOUS
<1>1. ASSUME NEW c \in Reads, NEW t \in Tids, NEW p \in Pages, ReadPage(c, t, p)
      PROVE  NInv'
  BY <1>1, ReadPageInv
<1>2. ASSUME NEW c \in Reads, RemovePage(c)
      PROVE  NInv'
  BY <1>2, RemovePageInv
<1>3. ASSUME NEW c \in Reads, Answer(c) \/ ReadFail(c)
      PROVE  NInv'
  BY <1>3, EndInv
<1>4. ASSUME NEW t \in Tids, NEW n \in Notices, Arrive(t, n)
      PROVE  NInv'
  BY <1>4, ArriveInv
<1>5. ASSUME NEW m \in Removals, Publish(m) \/ Deliver(m) \/ SetNotice(m)
      PROVE  NInv'
  BY <1>5, MessageInv
<1>6. CASE UNCHANGED vars
  BY <1>6 DEF vars, NInv, TypeOK, RemovalIsNeverTold, Apart, ReadInv, ShownOnce,
              UnseenOnlyByRace, Page, PageStart, PageEnd, NoticeSize, Number
<1> QED
  BY <1>1, <1>2, <1>3, <1>4, <1>5, <1>6 DEF Next

LEMMA Invariant == Spec => []NInv
BY InitInv, StepInv, PTL DEF Spec

(***************************************************************************)
(* The theorems                                                            *)
(***************************************************************************)
\* Every variable of Notices keeps its type.
THEOREM NoticesTypes == Spec => []TypeOK
<1>1. NInv => TypeOK
  BY DEF NInv
<1> QED
  BY <1>1, Invariant, PTL

\* getNotice loses a notice unseen only when its list changed between its two
\* commands.
THEOREM NoticesSeen == Spec => []UnseenOnlyByRace
<1>1. NInv => UnseenOnlyByRace
  BY DEF NInv
<1> QED
  BY <1>1, Invariant, PTL

\* Two calls of getNotice show one notice only when the list of one of them
\* changed between its two commands.
THEOREM NoticesOnce == Spec => []TwiceOnlyByRace
<1>1. NInv => TwiceOnlyByRace
  BY DEF NInv, ShownOnce, TwiceOnlyByRace, TypeOK, Removing
<1> QED
  BY <1>1, Invariant, PTL

\* setNotice stores nothing, whatever the configuration.
THEOREM RemovalsUntold == Spec => []RemovalIsNeverTold
<1>1. NInv => RemovalIsNeverTold
  BY DEF NInv
<1> QED
  BY <1>1, Invariant, PTL

(***************************************************************************)
(* How many notices a page holds                                           *)
(***************************************************************************)
\* The ranks of a finite set of numbers are those below the number of its members.
LEMMA RankBound ==
  ASSUME NEW S \in SUBSET Nat, IsFiniteSet(S), NEW x \in S
  PROVE  Rank(S, x) \in 0 .. (Cardinality(S) - 1)
<1> DEFINE L == {y \in S : y < x}
<1>1. L \in SUBSET (S \ {x})
  OBVIOUS
<1>2. IsFiniteSet(S \ {x}) /\ Cardinality(S \ {x}) = Cardinality(S) - 1
  BY FS_RemoveElement
<1>3. IsFiniteSet(L) /\ Cardinality(L) <= Cardinality(S) - 1
  BY <1>1, <1>2, FS_Subset
<1> QED
  BY <1>3, FS_CardinalityType DEF Rank

\* Two members have two ranks.
LEMMA RankOnce ==
  ASSUME NEW S \in SUBSET Nat, IsFiniteSet(S), NEW x \in S, NEW y \in S,
         Rank(S, x) = Rank(S, y)
  PROVE  x = y
<1> DEFINE L(z) == {u \in S : u < z}
<1>1. ASSUME NEW u \in S, NEW v \in S, u < v
      PROVE  Rank(S, u) # Rank(S, v)
  <2>1. L(u) \in SUBSET L(v) /\ u \in L(v) \ L(u) /\ L(v) \in SUBSET S
    <3>1. u \in Nat /\ v \in Nat /\ \A z \in S : z \in Nat
      OBVIOUS
    <3>2. ~(u < u) /\ \A z \in S : z < u => z < v
      BY <1>1, <3>1
    <3> QED
      BY <1>1, <3>2
  <2>2. IsFiniteSet(L(v))
    BY <2>1, FS_Subset
  <2>3. Cardinality(L(u)) # Cardinality(L(v))
    BY <2>1, <2>2, FS_Subset
  <2> QED
    BY <2>3 DEF Rank
<1> QED
  BY <1>1

\* Each of those ranks is that of a member.
LEMMA RankReached ==
  ASSUME NEW S \in SUBSET Nat, IsFiniteSet(S), NEW k \in 0 .. (Cardinality(S) - 1)
  PROVE  \E x \in S : Rank(S, x) = k
<1> DEFINE T == 0 .. (Cardinality(S) - 1)
           f == [x \in S |-> Rank(S, x)]
<1>1. IsFiniteSet(T) /\ Cardinality(T) = Cardinality(S)
  <2>1. Cardinality(S) \in Nat
    BY FS_CardinalityType
  <2> QED
    BY <2>1, FS_Interval
<1>2. f \in Injection(S, T)
  BY RankBound, RankOnce DEF Injection, IsInjective
<1>3. f \in Surjection(S, T)
  BY <1>1, <1>2, FS_Injection
<1> QED
  BY <1>3 DEF Surjection

\* As many members as ranks lie between two ranks.
LEMMA RankCount ==
  ASSUME NEW S \in SUBSET Nat, IsFiniteSet(S), NEW a \in Nat, NEW b \in Nat,
         a <= b, b < Cardinality(S)
  PROVE  Cardinality({x \in S : a <= Rank(S, x) /\ Rank(S, x) <= b}) = b - a + 1
<1> DEFINE W == {x \in S : a <= Rank(S, x) /\ Rank(S, x) <= b}
           f == [x \in W |-> Rank(S, x)]
<1>1. IsFiniteSet(W) /\ Cardinality(S) \in Nat
  BY FS_Subset, FS_CardinalityType
<1>2. f \in Injection(W, a..b)
  <2>1. \A x \in W : Rank(S, x) \in a..b
    BY RankBound
  <2>2. \A x, y \in W : Rank(S, x) = Rank(S, y) => x = y
    BY RankOnce
  <2> HIDE DEF W
  <2> QED
    BY <2>1, <2>2 DEF Injection, IsInjective
<1>3. f \in Surjection(W, a..b)
  <2> SUFFICES ASSUME NEW k \in a..b
               PROVE  \E x \in W : f[x] = k
    BY <1>2 DEF Surjection, Injection
  <2>1. k \in 0 .. (Cardinality(S) - 1)
    BY <1>1
  <2>2. PICK x \in S : Rank(S, x) = k
    BY <2>1, RankReached
  <2> QED
    BY <2>2
<1>4. ExistsBijection(W, a..b)
  BY <1>2, <1>3 DEF ExistsBijection, Bijection
<1>5. Cardinality(a..b) = Cardinality(W)
  BY <1>1, <1>4, FS_Bijection
<1> QED
  BY <1>5, FS_Interval

\* The configured size of a page is a number.
LEMMA SizeTyped == ASSUME TypeOK PROVE NoticeSize \in Int
BY SizesAssumption DEF TypeOK, NoticeSize, Number, Otherwise, Get

\* The ranks of a page and of the next one, which begins where it ends.
LEMMA PageRanks ==
  ASSUME TypeOK, NEW t \in Tids, NEW p \in Int, p >= 1, NoticeSize > 0
  PROVE  \E a, b \in Nat :
           /\ b = p * NoticeSize /\ b - a = NoticeSize
           /\ Page(t, p) = {n \in store[t] : a <= Rank(store[t], n) /\ Rank(store[t], n) <= b}
           /\ Page(t, p + 1) = {n \in store[t] : /\ b <= Rank(store[t], n)
                                                 /\ Rank(store[t], n) <= b + NoticeSize}
<1> DEFINE s == NoticeSize
           a == (p - 1) * s
           b == p * s
<1>1. s \in Nat
  BY SizeTyped
<1>2. PageStart(p) = a /\ PageEnd(p) = b /\ PageStart(p + 1) = b /\ PageEnd(p + 1) = (p + 1) * s
  BY <1>1 DEF PageStart, PageEnd
<1> HIDE DEF s
<1>3. a \in Nat /\ b \in Nat /\ b - a = s /\ (p + 1) * s = b + s
  BY <1>1
<1> HIDE DEF a, b
<1> QED
  BY <1>1, <1>2, <1>3 DEF Page, ZRange, FromEnd, s, b

\* A page of getNotice that another one follows holds one notice more than the
\* configured size, and the next one begins with its last, whatever that size.
NextPageRepeats ==
  \A t \in Tids, p \in Pages :
    p >= 1 /\ NoticeSize > 0 /\ Cardinality(store[t]) > p * NoticeSize
      => /\ Cardinality(Page(t, p)) = NoticeSize + 1
         /\ Cardinality(Page(t, p) \cap Page(t, p + 1)) = 1

THEOREM PagesOverlap == Spec => []NextPageRepeats
<1>1. ASSUME NInv, NEW t \in Tids, NEW p \in Pages,
             p >= 1, NoticeSize > 0, Cardinality(store[t]) > p * NoticeSize
      PROVE  /\ Cardinality(Page(t, p)) = NoticeSize + 1
             /\ Cardinality(Page(t, p) \cap Page(t, p + 1)) = 1
  <2> DEFINE S == store[t]
  <2>1. S \in SUBSET Nat /\ IsFiniteSet(S)
    <3>1. S \in SUBSET Notices
      BY <1>1 DEF NInv, TypeOK, RemovalIsNeverTold
    <3> QED
      BY <3>1, FS_Subset
  <2>2. PICK a, b \in Nat :
          /\ b = p * NoticeSize /\ b - a = NoticeSize
          /\ Page(t, p) = {n \in S : a <= Rank(S, n) /\ Rank(S, n) <= b}
          /\ Page(t, p + 1) = {n \in S : b <= Rank(S, n) /\ Rank(S, n) <= b + NoticeSize}
    <3>1. TypeOK /\ p \in Int
      BY <1>1 DEF NInv
    <3> QED
      BY <1>1, <3>1, PageRanks
  <2>3. NoticeSize \in Nat /\ a <= b /\ b < Cardinality(S) /\ b - a + 1 = NoticeSize + 1
    BY <1>1, <2>2, SizeTyped DEF NInv
  <2>4. Cardinality(Page(t, p)) = NoticeSize + 1
    BY <2>1, <2>2, <2>3, RankCount
  <2>5. Page(t, p) \cap Page(t, p + 1) = {n \in S : b <= Rank(S, n) /\ Rank(S, n) <= b}
    <3>1. \A n \in S : Rank(S, n) \in Nat
      BY <2>1, RankBound
    <3> QED
      BY <2>2, <2>3, <3>1
  <2>6. Cardinality(Page(t, p) \cap Page(t, p + 1)) = b - b + 1
    BY <2>1, <2>3, <2>5, RankCount
  <2> QED
    BY <2>4, <2>6
<1>2. NInv => NextPageRepeats
  BY <1>1 DEF NextPageRepeats
<1> QED
  BY <1>2, Invariant, PTL

\* The notice of rank k is on page k \div NoticeSize + 1.
LEMMA PageOfRank ==
  ASSUME NInv, NoticeSize > 0, NEW t \in Tids, NEW n \in store[t]
  PROVE  \E p \in 1..Cardinality(store[t]) : n \in Page(t, p)
<1> DEFINE s == NoticeSize
           k == Rank(store[t], n)
           p == (k \div s) + 1
<1>1. store[t] \in SUBSET Nat /\ IsFiniteSet(store[t])
  <2>1. store[t] \in SUBSET Notices
    BY DEF NInv, TypeOK, RemovalIsNeverTold
  <2> QED
    BY <2>1, FS_Subset
<1>2. /\ s \in Nat \ {0} /\ k \in Nat
      /\ Cardinality(store[t]) \in Nat /\ k < Cardinality(store[t])
  BY <1>1, SizeTyped, RankBound, FS_CardinalityType DEF NInv
<1> HIDE DEF s, k
<1>3. p \in 1..Cardinality(store[t]) /\ (p - 1) * s <= k /\ k <= p * s
  <2>1. k \div s \in Nat /\ (k \div s) * s <= k /\ k <= ((k \div s) + 1) * s
    BY <1>2
  <2>2. \A d \in Nat : d * s >= d
    BY <1>2
  <2>3. k \div s <= k
    BY <1>2, <2>1, <2>2
  <2> QED
    BY <1>2, <2>1, <2>3
<1> HIDE DEF p
<1>4. (p - 1) * s \in Nat /\ p * s \in Nat
  BY <1>2, <1>3
<1>5. n \in Page(t, p)
  BY <1>2, <1>3, <1>4 DEF Page, PageStart, PageEnd, ZRange, FromEnd, s, k
<1> QED
  BY <1>3, <1>5

\* Every notice is on some page of getNotice, whatever has been removed before it,
\* if the configuration has a positive size.
THEOREM NoticesHavePages == Spec => []EveryNoticeHasAPage
<1>1. NInv => EveryNoticeHasAPage
  BY PageOfRank DEF EveryNoticeHasAPage
<1> QED
  BY <1>1, Invariant, PTL

\* Page zero, which getNotice does not refuse, begins before the end of the list: it
\* shows nothing of a list that is longer than a page and the first notice alone of
\* a shorter one, and what it shows is gone.
THEOREM PageZero ==
  Spec => [](NoticeSize > 0 =>
               \A t \in Tids : LET size == Cardinality(store[t])
                               IN  Cardinality(Page(t, 0)) =
                                     IF size \in 1 .. NoticeSize THEN 1 ELSE 0)
<1>1. ASSUME NInv, NoticeSize > 0, NEW t \in Tids
      PROVE  Cardinality(Page(t, 0)) =
               IF Cardinality(store[t]) \in 1 .. NoticeSize THEN 1 ELSE 0
  <2> DEFINE S == store[t]
             n == Cardinality(S)
             s == NoticeSize
  <2>1. S \in SUBSET Nat /\ IsFiniteSet(S)
    <3>1. S \in SUBSET Notices
      BY <1>1 DEF NInv, TypeOK, RemovalIsNeverTold
    <3> QED
      BY <3>1, FS_Subset
  <2>2. n \in Nat /\ s \in Nat \ {0} /\ \A x \in S : Rank(S, x) \in 0 .. (n - 1)
    BY <1>1, <2>1, SizeTyped, RankBound, FS_CardinalityType DEF NInv
  <2>3. PageStart(0) = 0 - s /\ PageEnd(0) = 0
    BY <2>2 DEF PageStart, PageEnd
  <2>4. Page(t, 0) = {x \in S : n - s <= Rank(S, x) /\ Rank(S, x) <= 0}
    BY <2>2, <2>3 DEF Page, ZRange, FromEnd
  <2>5. CASE n \in 1..s
    <3>1. Page(t, 0) = {x \in S : 0 <= Rank(S, x) /\ Rank(S, x) <= 0}
      BY <2>2, <2>4, <2>5
    <3>2. Cardinality(Page(t, 0)) = 0 - 0 + 1
      BY <2>1, <2>2, <2>5, <3>1, RankCount
    <3> QED
      BY <2>5, <3>2
  <2>6. CASE n \notin 1..s
    <3>1. Page(t, 0) = {}
      BY <2>2, <2>4, <2>6
    <3> QED
      BY <2>6, <3>1, FS_EmptySet
  <2> QED
    BY <2>5, <2>6
<1>2. NInv => (NoticeSize > 0 =>
        \A t \in Tids : LET size == Cardinality(store[t])
                        IN  Cardinality(Page(t, 0)) =
                              IF size \in 1 .. NoticeSize THEN 1 ELSE 0)
  BY <1>1
<1> QED
  BY <1>2, Invariant, PTL

(***************************************************************************)
(* The configuration                                                       *)
(***************************************************************************)
\* The compiler would not let RequestOption ask for the routing key of setNotice
\* without its cast, and a file with nothing but the leaves that the interface of
\* the configuration names has no such key.
THEOREM NoRoutingKey ==
  /\ RpcPath("notice", "setNotice", "routingKey") \notin ConfigTemplate
  /\ \A f : DOMAIN f \subseteq ConfigOption =>
       RequestOption(f, "notice", "setNotice").routingKey = Null
<1> DEFINE path == RpcPath("notice", "setNotice", "routingKey")
<1>1. path[1] = "notice"
  BY DEF RpcPath
<1>2. \A p \in ConfigOption : p[1] # "notice"
  BY DEF ConfigOption, RPC
<1>3. ASSUME NEW p \in ConfigOption, NEW n \in 1..Len(p)
      PROVE  [i \in 1..n |-> p[i]] # path
  <2>1. [i \in 1..n |-> p[i]][1] = p[1]
    OBVIOUS
  <2> QED
    BY <1>1, <1>2, <2>1
<1>4. path \notin ConfigTemplate
  BY <1>3 DEF ConfigTemplate
<1>5. ASSUME NEW f, DOMAIN f \subseteq ConfigOption
      PROVE  RequestOption(f, "notice", "setNotice").routingKey = Null
  <2>1. Get(f, path) = Null
    BY <1>1, <1>2, <1>5 DEF Get
  <2> QED
    BY <2>1 DEF RequestOption
<1> QED
  BY <1>4, <1>5
=============================================================================
