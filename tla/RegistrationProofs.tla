-------------------------- MODULE RegistrationProofs --------------------------
(***************************************************************************)
(* Proofs about Registration, for every set of calls, of emails and of     *)
(* tids in bodies, and about Recovery, which finds what registrations have *)
(* stored by its tid.                                                      *)
(***************************************************************************)
EXTENDS Recovery, FiniteSetTheorems, TLAPS

USE DEF Idle, At

\* A step of c moves c from one state to another, and no other call.
LEMMA GotoMoves ==
  ASSUME TypeOK, NEW c \in Calls, NEW from \in At, NEW to \in At, Goto(c, from, to)
  PROVE  /\ reg[c] \in [at : At, tid : Nat, email : Emails, body : Body]
         /\ reg[c].at = from /\ reg'[c] = [reg[c] EXCEPT !.at = to]
         /\ reg'[c].at = to /\ reg'[c].tid = reg[c].tid
         /\ reg'[c].email = reg[c].email /\ reg'[c].body = reg[c].body
         /\ \A d \in Calls \ {c} : reg'[d] = reg[d]
         /\ reg' \in [Calls -> Call]
<1>1. reg[c] \in [at : At, tid : Nat, email : Emails, body : Body] /\ reg[c].at = from
  BY DEF TypeOK, Call, Goto
<1>2. [reg[c] EXCEPT !.at = to] \in [at : At, tid : Nat, email : Emails, body : Body]
  BY <1>1
<1>3. reg' = [reg EXCEPT ![c] = [reg[c] EXCEPT !.at = to]]
  BY DEF Goto
<1> QED
  BY <1>1, <1>2, <1>3 DEF TypeOK, Call

\* A failure, which may come at any step, moves a call too.
LEMMA FailMoves ==
  ASSUME NEW c \in Calls, RegisteFail(c)
  PROVE  reg[c].at \in At \ {"done", "failed"} /\ Goto(c, reg[c].at, "failed")
BY DEF RegisteFail, Goto

\* What a body may name is a tid, or none.
LEMMA NamedTyped ==
  ASSUME NEW b \in Body, NEW t \in Nat
  PROVE  Named(b, t) \in Nat
BY BodyAssumption DEF Body, Named

\* What was named stays named, and so does what is stored now.
LEMMA GivenGrows ==
  ASSUME TypeOK, NEW c \in Calls, NEW b \in Body, given' = Given(c, b)
  PROVE  /\ given' \in [Calls -> SUBSET BodyTids]
         /\ \A d \in Calls : given[d] \subseteq given'[d]
         /\ \A t : Named(b, t) \in given'[c] \cup {t}
BY DEF Given, Named, TypeOK, Body

(***************************************************************************)
(* What is behind the properties.  A tid that was handed out is at most    *)
(* one more than the counter, and the tid of a call past its increment at  *)
(* most the counter: it read the counter before it.                        *)
(***************************************************************************)
TidInv ==
  \A c \in Calls :
    /\ reg[c].at \in {"read", "checked", "inserted", "asked"} => reg[c].tid <= pool + 1
    /\ reg[c].at \in {"counted", "done"} => reg[c].tid <= pool

\* What a call has stored stays stored, whatever a profile's body holds.
StoredInv ==
  \A c \in Calls :
    /\ reg[c].at \in {"inserted", "asked", "counted", "done"} =>
         \E u \in users : u.id = c /\ u.tid \in given[c] \cup {reg[c].tid}
    /\ reg[c].at \in {"asked", "counted", "done"} =>
         \E q \in questions : q.id = c /\ q.uid = reg[c].tid

\* Every document is that of the call it is named by, which is past the step
\* that stores it; a question has the tid of its call, and a user too or one
\* that a body has named.
OwnerInv ==
  /\ \A u \in users :
       /\ reg[u.id].at \notin {"idle", "read", "checked"}
       /\ u.tid \in given[u.id] \cup {reg[u.id].tid}
  /\ \A u, w \in users : u.id = w.id => u = w
  /\ \A q \in questions :
       /\ reg[q.id].at \in {"asked", "counted", "done", "failed"}
       /\ q.uid = reg[q.id].tid

\* The counter is not behind the calls that are past INCRBY, and leaves a
\* question to each that has stored its own and is not there yet.
Asked == {c \in Calls : reg[c].at = "asked"}
Counted == {c \in Calls : reg[c].at \in {"counted", "done"}}
CountInv ==
  /\ IsFiniteSet(questions)
  /\ Cardinality(Counted) <= pool
  /\ pool + Cardinality(Asked) <= Cardinality(questions)

RInv == TypeOK /\ TidInv /\ StoredInv /\ OwnerInv /\ CountInv

\* The steps of registe and updateProfile keep the types.
LEMMA NextTyped == TypeOK /\ [Next]_vars => TypeOK'
<1> SUFFICES ASSUME TypeOK, [Next]_vars PROVE TypeOK'
  OBVIOUS
<1> USE DEF TypeOK
<1>1. ASSUME NEW c \in Calls, NEW e \in Emails, NEW b \in Body, RegisteRead(c, e, b)
      PROVE  TypeOK'
  <2>1. [at |-> "read", tid |-> pool + 1, email |-> e, body |-> b] \in Call
    BY DEF Call
  <2> QED
    BY <1>1, <2>1 DEF RegisteRead, NextTid
<1>2. ASSUME NEW c \in Calls, RegisteCheck(c) PROVE TypeOK'
  BY <1>2, GotoMoves DEF RegisteCheck
<1>3. ASSUME NEW c \in Calls, RegisteInsert(c) PROVE TypeOK'
  <2>1. /\ reg' \in [Calls -> Call] /\ reg[c].body \in Body
        /\ reg[c].tid \in Nat /\ reg[c].email \in Emails
    BY <1>3, GotoMoves DEF RegisteInsert
  <2>2. Named(reg[c].body, reg[c].tid) \in Nat
    BY <2>1, NamedTyped
  <2>3. given' \in [Calls -> SUBSET BodyTids]
    BY <1>3, <2>1, GivenGrows DEF RegisteInsert
  <2> QED
    BY <1>3, <2>1, <2>2, <2>3 DEF RegisteInsert, User
<1>4. ASSUME NEW c \in Calls, RegisteQuestion(c) PROVE TypeOK'
  <2>1. reg' \in [Calls -> Call] /\ reg[c].tid \in Nat
    BY <1>4, GotoMoves DEF RegisteQuestion
  <2> QED
    BY <1>4, <2>1 DEF RegisteQuestion, Question
<1>5. ASSUME NEW c \in Calls, RegisteIncr(c) PROVE TypeOK'
  <2>1. reg' \in [Calls -> Call]
    BY <1>5, GotoMoves DEF RegisteIncr
  <2> QED
    BY <1>5, <2>1 DEF RegisteIncr, PoolAfter
<1>6. ASSUME NEW c \in Calls, RegisteReturn(c) PROVE TypeOK'
  BY <1>6, GotoMoves DEF RegisteReturn
<1>7. ASSUME NEW c \in Calls, RegisteFail(c) PROVE TypeOK'
  BY <1>7, FailMoves, GotoMoves DEF RegisteFail
<1>8. ASSUME NEW u \in users, NEW e \in Emails, NEW b \in Body, UpdateProfile(u, e, b)
      PROVE  TypeOK'
  <2>1. u \in [id : Calls, tid : Nat, email : Emails]
    BY DEF User
  <2>2. Named(b, u.tid) \in Nat
    BY <2>1, NamedTyped
  <2>3. [u EXCEPT !.email = e, !.tid = Named(b, u.tid)] \in User
    BY <2>1, <2>2 DEF User
  <2>4. given' \in [Calls -> SUBSET BodyTids]
    BY <1>8, <2>1, GivenGrows DEF UpdateProfile
  <2> QED
    BY <1>8, <2>3, <2>4 DEF UpdateProfile
<1>9. CASE UNCHANGED vars
  BY <1>9 DEF vars
<1> QED
  BY <1>1, <1>2, <1>3, <1>4, <1>5, <1>6, <1>7, <1>8, <1>9 DEF Next, RegisteStep

(***************************************************************************)
(* What every step does to a call: it keeps its tid and its email, goes    *)
(* forward, and forgets no tid that a body has named.                      *)
(***************************************************************************)
Forward(c) ==
  /\ reg'[c] # Idle /\ reg'[c].tid = reg[c].tid /\ reg'[c].email = reg[c].email
  /\ reg[c].at \notin {"idle", "read", "checked"} =>
       reg'[c].at \notin {"idle", "read", "checked"}
  /\ reg[c].at \in {"asked", "counted", "done", "failed"} =>
       reg'[c].at \in {"asked", "counted", "done", "failed"}
  /\ reg[c].at = "done" => reg'[c].at = "done"

LEMMA CallKept ==
  ASSUME TypeOK, Next
  PROVE  /\ \A c \in Calls : reg[c] # Idle => Forward(c)
         /\ \A c \in Calls : given[c] \subseteq given'[c]
<1> DEFINE Kept == \A d \in Calls : reg[d] # Idle => Forward(d)
<1>1. ASSUME NEW c \in Calls, NEW to \in At, NEW from \in At, Goto(c, from, to),
             to \notin {"read", "checked"} \/ from = "read", from # "done",
             to = "inserted" => from = "checked"
      PROVE  Kept
  <2>1. /\ reg[c].at = from /\ reg'[c].at = to
        /\ reg'[c].tid = reg[c].tid /\ reg'[c].email = reg[c].email
        /\ \A d \in Calls \ {c} : reg'[d] = reg[d]
    <3> HIDE DEF At
    <3> QED
      BY <1>1, GotoMoves DEF Goto
  <2>2. reg'[c] # Idle
    BY <2>1
  <2>3. Forward(c)
    BY <1>1, <2>1, <2>2 DEF Forward
  <2>4. ASSUME NEW d \in Calls \ {c}, reg[d] # Idle
        PROVE  Forward(d)
    BY <2>1, <2>4 DEF Forward
  <2> QED
    BY <2>3, <2>4
<1>2. ASSUME NEW c \in Calls, NEW e \in Emails, NEW b \in Body, RegisteRead(c, e, b)
      PROVE  Kept
  BY <1>2 DEF RegisteRead, TypeOK, Forward
<1>3. ASSUME NEW c \in Calls, RegisteFail(c) PROVE Kept
  BY <1>1, <1>3, FailMoves
<1>4. ASSUME NEW c \in Calls, RegisteCheck(c) PROVE Kept
  BY <1>1, <1>4 DEF RegisteCheck
<1>5. ASSUME NEW c \in Calls, RegisteInsert(c) PROVE Kept
  BY <1>1, <1>5 DEF RegisteInsert
<1>6. ASSUME NEW c \in Calls, RegisteQuestion(c) PROVE Kept
  BY <1>1, <1>6 DEF RegisteQuestion
<1>7. ASSUME NEW c \in Calls, RegisteIncr(c) PROVE Kept
  BY <1>1, <1>7 DEF RegisteIncr
<1>8. ASSUME NEW c \in Calls, RegisteReturn(c) PROVE Kept
  BY <1>1, <1>8 DEF RegisteReturn
<1>9. ASSUME reg' = reg PROVE Kept
  BY <1>9 DEF Forward
<1>10. Kept
  BY <1>2, <1>3, <1>4, <1>5, <1>6, <1>7, <1>8, <1>9 DEF Next, RegisteStep, UpdateProfile
<1>11. \A c \in Calls : given[c] \subseteq given'[c]
  <2>1. ASSUME NEW c \in Calls, RegisteInsert(c)
        PROVE  \A d \in Calls : given[d] \subseteq given'[d]
    <3>1. reg[c].body \in Body
      BY <2>1, GotoMoves DEF RegisteInsert
    <3> QED
      BY <2>1, <3>1, GivenGrows DEF RegisteInsert
  <2>2. ASSUME NEW u \in users, NEW e \in Emails, NEW b \in Body, UpdateProfile(u, e, b)
        PROVE  \A d \in Calls : given[d] \subseteq given'[d]
    BY <2>2, GivenGrows DEF UpdateProfile, TypeOK, User
  <2>3. CASE given' = given
    BY <2>3
  <2> QED
    BY <2>1, <2>2, <2>3 DEF Next, RegisteStep, RegisteRead, RegisteCheck,
       RegisteQuestion, RegisteIncr, RegisteReturn, RegisteFail
<1> QED
  BY <1>10, <1>11

\* A tid in use is at most one more than the counter, whatever interleaves.
LEMMA NextTidInv == TypeOK /\ TidInv /\ [Next]_vars => TidInv'
<1> SUFFICES ASSUME TypeOK, TidInv, [Next]_vars PROVE TidInv'
  OBVIOUS
<1> USE DEF TidInv
<1>t. pool \in Nat /\ \A c \in Calls : reg[c].at \in At => reg[c].tid \in Nat
  BY DEF TypeOK, Call
<1>1. ASSUME NEW c \in Calls, NEW e \in Emails, NEW b \in Body, RegisteRead(c, e, b)
      PROVE  TidInv'
  BY <1>1, <1>t DEF RegisteRead, NextTid, TypeOK
<1>2. ASSUME NEW c \in Calls, RegisteCheck(c) PROVE TidInv'
  BY <1>2, <1>t, GotoMoves DEF RegisteCheck, Goto
<1>3. ASSUME NEW c \in Calls, RegisteInsert(c) PROVE TidInv'
  BY <1>3, <1>t, GotoMoves DEF RegisteInsert, Goto
<1>4. ASSUME NEW c \in Calls, RegisteQuestion(c) PROVE TidInv'
  BY <1>4, <1>t, GotoMoves DEF RegisteQuestion, Goto
<1>5. ASSUME NEW c \in Calls, RegisteIncr(c) PROVE TidInv'
  <2>1. /\ reg[c].at = "asked" /\ reg'[c].at = "counted" /\ reg'[c].tid = reg[c].tid
        /\ \A d \in Calls \ {c} : reg'[d] = reg[d]
    BY <1>5, GotoMoves DEF RegisteIncr, Goto
  <2>2. pool' = pool + 1
    BY <1>5 DEF RegisteIncr, PoolAfter
  <2> QED
    BY <2>1, <2>2, <1>t
<1>6. ASSUME NEW c \in Calls, RegisteReturn(c) PROVE TidInv'
  BY <1>6, <1>t, GotoMoves DEF RegisteReturn, Goto
<1>7. ASSUME NEW c \in Calls, RegisteFail(c) PROVE TidInv'
  <2>1. reg'[c].at = "failed" /\ \A d \in Calls \ {c} : reg'[d] = reg[d]
    BY <1>7, FailMoves, GotoMoves DEF Goto
  <2> QED
    BY <1>7, <2>1 DEF RegisteFail
<1>8. ASSUME NEW u \in users, NEW e \in Emails, NEW b \in Body, UpdateProfile(u, e, b)
      PROVE  TidInv'
  BY <1>8 DEF UpdateProfile
<1>9. CASE UNCHANGED vars
  BY <1>9 DEF vars
<1> QED
  BY <1>1, <1>2, <1>3, <1>4, <1>5, <1>6, <1>7, <1>8, <1>9 DEF Next, RegisteStep

\* A call past insertMany has its user, and past question.save its question.
LEMMA NextStoredInv == TypeOK /\ StoredInv /\ [Next]_vars => StoredInv'
<1> SUFFICES ASSUME TypeOK, StoredInv, [Next]_vars PROVE StoredInv'
  OBVIOUS
<1> USE DEF StoredInv
<1>1. ASSUME NEW c \in Calls, NEW e \in Emails, NEW b \in Body, RegisteRead(c, e, b)
      PROVE  StoredInv'
  BY <1>1 DEF RegisteRead, TypeOK
<1>2. ASSUME NEW c \in Calls, RegisteCheck(c) PROVE StoredInv'
  <2>1. /\ reg'[c].at \in {"failed", "checked"}
        /\ \A d \in Calls \ {c} : reg'[d] = reg[d]
        /\ UNCHANGED <<users, questions, given>>
    BY <1>2, GotoMoves DEF RegisteCheck
  <2> QED
    BY <2>1
<1>3. ASSUME NEW c \in Calls, RegisteInsert(c) PROVE StoredInv'
  <2>1. /\ reg'[c].at = "inserted" /\ reg'[c].tid = reg[c].tid /\ reg[c].body \in Body
        /\ \A d \in Calls \ {c} : reg'[d] = reg[d]
    BY <1>3, GotoMoves DEF RegisteInsert
  <2>2. /\ Named(reg[c].body, reg[c].tid) \in given'[c] \cup {reg[c].tid}
        /\ \A d \in Calls : given[d] \subseteq given'[d]
    BY <1>3, <2>1, GivenGrows DEF RegisteInsert
  <2> DEFINE new == [id |-> c, tid |-> Named(reg[c].body, reg[c].tid),
                     email |-> reg[c].email]
  <2>3. /\ users' = users \cup {new} /\ questions' = questions
        /\ new.id = c /\ new.tid = Named(reg[c].body, reg[c].tid)
    BY <1>3 DEF RegisteInsert
  <2> HIDE DEF new
  <2>4. ASSUME NEW d \in Calls \ {c},
               reg[d].at \in {"inserted", "asked", "counted", "done"}
        PROVE  \E u \in users' : u.id = d /\ u.tid \in given'[d] \cup {reg[d].tid}
    BY <2>2, <2>3, <2>4
  <2> QED
    BY <2>1, <2>2, <2>3, <2>4
<1>4. ASSUME NEW c \in Calls, RegisteQuestion(c) PROVE StoredInv'
  <2>1. /\ reg'[c].at = "asked" /\ reg'[c].tid = reg[c].tid /\ reg[c].at = "inserted"
        /\ \A d \in Calls \ {c} : reg'[d] = reg[d]
    BY <1>4, GotoMoves DEF RegisteQuestion, Goto
  <2> DEFINE new == [id |-> c, uid |-> reg[c].tid]
  <2>2. /\ users' = users /\ given' = given /\ questions' = questions \cup {new}
        /\ new.id = c /\ new.uid = reg[c].tid
    BY <1>4 DEF RegisteQuestion
  <2> HIDE DEF new
  <2> QED
    BY <2>1, <2>2
<1>5. ASSUME NEW c \in Calls, RegisteIncr(c) PROVE StoredInv'
  <2>1. /\ reg'[c].at = "counted" /\ reg'[c].tid = reg[c].tid /\ reg[c].at = "asked"
        /\ \A d \in Calls \ {c} : reg'[d] = reg[d]
        /\ UNCHANGED <<users, questions, given>>
    BY <1>5, GotoMoves DEF RegisteIncr, Goto
  <2> QED
    BY <2>1
<1>6. ASSUME NEW c \in Calls, RegisteReturn(c) PROVE StoredInv'
  <2>1. /\ reg'[c].at = "done" /\ reg'[c].tid = reg[c].tid /\ reg[c].at = "counted"
        /\ \A d \in Calls \ {c} : reg'[d] = reg[d]
        /\ UNCHANGED <<users, questions, given>>
    BY <1>6, GotoMoves DEF RegisteReturn, Goto
  <2> QED
    BY <2>1
<1>7. ASSUME NEW c \in Calls, RegisteFail(c) PROVE StoredInv'
  <2>1. reg'[c].at = "failed" /\ \A d \in Calls \ {c} : reg'[d] = reg[d]
    BY <1>7, FailMoves, GotoMoves DEF Goto
  <2>2. UNCHANGED <<users, questions, given>>
    BY <1>7 DEF RegisteFail
  <2> QED
    BY <2>1, <2>2
<1>8. ASSUME NEW u \in users, NEW e \in Emails, NEW b \in Body, UpdateProfile(u, e, b)
      PROVE  StoredInv'
  <2> DEFINE p == [u EXCEPT !.email = e, !.tid = Named(b, @)]
  <2>1. u \in [id : Calls, tid : Nat, email : Emails]
    BY DEF TypeOK, User
  <2>2. p.id = u.id /\ p.tid = Named(b, u.tid)
    BY <2>1
  <2>3. /\ users' = (users \ {u}) \cup {p} /\ reg' = reg /\ questions' = questions
        /\ given' = Given(u.id, b)
    BY <1>8 DEF UpdateProfile
  <2>4. /\ p.tid \in given'[u.id] \cup {u.tid}
        /\ \A d \in Calls : given[d] \subseteq given'[d]
    BY <2>1, <2>2, <2>3, GivenGrows
  <2> HIDE DEF p
  <2>5. ASSUME NEW d \in Calls, reg[d].at \in {"inserted", "asked", "counted", "done"}
        PROVE  \E w \in users' : w.id = d /\ w.tid \in given'[d] \cup {reg[d].tid}
    <3>1. PICK w \in users : w.id = d /\ w.tid \in given[d] \cup {reg[d].tid}
      BY <2>5
    <3>2. CASE w = u
      <4>1. p \in users' /\ p.id = d
        BY <2>2, <2>3, <3>1, <3>2
      <4>2. p.tid \in given'[d] \cup {reg[d].tid}
        BY <2>4, <3>1, <3>2
      <4> QED
        BY <4>1, <4>2
    <3>3. CASE w # u
      BY <2>3, <2>4, <3>1, <3>3
    <3> QED
      BY <3>2, <3>3
  <2> QED
    BY <2>3, <2>5
<1>9. CASE UNCHANGED vars
  BY <1>9 DEF vars
<1> QED
  BY <1>1, <1>2, <1>3, <1>4, <1>5, <1>6, <1>7, <1>8, <1>9 DEF Next, RegisteStep

\* No document changes hands.
LEMMA NextOwnerInv == TypeOK /\ OwnerInv /\ [Next]_vars => OwnerInv'
<1> SUFFICES ASSUME TypeOK, OwnerInv, [Next]_vars
             PROVE  OwnerInv'
  OBVIOUS
<1>t. /\ \A u \in users : u \in User /\ u.id \in Calls
      /\ \A q \in questions : q \in Question /\ q.id \in Calls
  BY DEF TypeOK, User, Question
<1>1. CASE UNCHANGED vars
  BY <1>1 DEF vars, OwnerInv
<1>k. ASSUME Next
      PROVE  /\ \A u \in users : /\ reg'[u.id].at \notin {"idle", "read", "checked"}
                                 /\ u.tid \in given'[u.id] \cup {reg'[u.id].tid}
             /\ \A q \in questions : /\ reg'[q.id].at \in {"asked", "counted", "done", "failed"}
                                     /\ q.uid = reg'[q.id].tid
  <2>1. ASSUME NEW c \in Calls, reg[c] # Idle
        PROVE  Forward(c) /\ given[c] \subseteq given'[c]
    BY <1>k, <2>1, CallKept
  <2>2. ASSUME NEW u \in users
        PROVE  /\ reg'[u.id].at \notin {"idle", "read", "checked"}
               /\ u.tid \in given'[u.id] \cup {reg'[u.id].tid}
    <3>1. u.id \in Calls /\ reg[u.id] # Idle
      BY <1>t, <2>2 DEF OwnerInv
    <3> QED
      BY <2>1, <3>1 DEF OwnerInv, Forward
  <2>3. ASSUME NEW q \in questions
        PROVE  /\ reg'[q.id].at \in {"asked", "counted", "done", "failed"}
               /\ q.uid = reg'[q.id].tid
    <3>1. q.id \in Calls /\ reg[q.id] # Idle
      BY <1>t, <2>3 DEF OwnerInv
    <3> QED
      BY <2>1, <3>1 DEF OwnerInv, Forward
  <2> QED
    BY <2>2, <2>3
<1>2. CASE Next /\ UNCHANGED <<users, questions>>
  BY <1>2, <1>k DEF OwnerInv
<1>3. ASSUME NEW c \in Calls, RegisteInsert(c)
      PROVE  OwnerInv'
  <2> DEFINE new == [id |-> c, tid |-> Named(reg[c].body, reg[c].tid),
                     email |-> reg[c].email]
  <2>1. /\ reg[c].at = "checked" /\ reg'[c].at = "inserted" /\ reg'[c].tid = reg[c].tid
        /\ reg[c].body \in Body
    BY <1>3, GotoMoves DEF RegisteInsert
  <2>2. users' = users \cup {new} /\ questions' = questions
    BY <1>3 DEF RegisteInsert
  <2>3. new.id = c /\ new.tid \in given'[c] \cup {reg'[c].tid}
    BY <1>3, <2>1, GivenGrows DEF RegisteInsert
  <2>4. \A u \in users : u.id # c
    BY <2>1 DEF OwnerInv
  <2>5. Next
    BY <1>3 DEF Next, RegisteStep
  <2> HIDE DEF new
  <2>6. \A u, w \in users' : u.id = w.id => u = w
    BY <2>2, <2>3, <2>4 DEF OwnerInv
  <2> QED
    BY <1>k, <2>1, <2>2, <2>3, <2>5, <2>6 DEF OwnerInv
<1>4. ASSUME NEW c \in Calls, RegisteQuestion(c)
      PROVE  OwnerInv'
  <2> DEFINE new == [id |-> c, uid |-> reg[c].tid]
  <2>1. reg'[c].at = "asked" /\ reg'[c].tid = reg[c].tid
    BY <1>4, GotoMoves DEF RegisteQuestion
  <2>2. /\ questions' = questions \cup {new} /\ users' = users
        /\ new.id = c /\ new.uid = reg[c].tid
    BY <1>4 DEF RegisteQuestion
  <2>3. Next
    BY <1>4 DEF Next, RegisteStep
  <2> HIDE DEF new
  <2> QED
    BY <1>k, <2>1, <2>2, <2>3 DEF OwnerInv
<1>5. ASSUME NEW u \in users, NEW e \in Emails, NEW b \in Body, UpdateProfile(u, e, b)
      PROVE  OwnerInv'
  <2> DEFINE p == [u EXCEPT !.email = e, !.tid = Named(b, @)]
  <2>1. p.id = u.id /\ p.tid = Named(b, u.tid) /\ u.id \in Calls
    BY <1>t DEF User
  <2>2. /\ users' = (users \ {u}) \cup {p} /\ questions' = questions /\ reg' = reg
        /\ given' = Given(u.id, b)
    BY <1>5 DEF UpdateProfile
  <2>3. Next
    BY <1>5 DEF Next
  <2>4. p.tid \in given'[u.id] \cup {u.tid}
    BY <2>1, <2>2, GivenGrows
  <2> HIDE DEF p
  <2>5. p.tid \in given'[p.id] \cup {reg'[p.id].tid}
    BY <1>k, <2>1, <2>3, <2>4
  <2>6. \A v, w \in users' : v.id = w.id => v = w
    BY <2>1, <2>2 DEF OwnerInv
  <2> QED
    BY <1>k, <2>1, <2>2, <2>3, <2>5, <2>6 DEF OwnerInv
<1> QED
  BY <1>1, <1>2, <1>3, <1>4, <1>5 DEF Next, RegisteStep, RegisteRead, RegisteCheck,
     RegisteIncr, RegisteReturn, RegisteFail

\* A question before every increment, and an increment for every call that
\* is past it, its answer being lost or not.
LEMMA NextCount == TypeOK /\ OwnerInv /\ CountInv /\ [Next]_vars => CountInv'
<1> SUFFICES ASSUME TypeOK, OwnerInv, CountInv, [Next]_vars
             PROVE  CountInv'
  OBVIOUS
<1>f. /\ IsFiniteSet(Asked) /\ IsFiniteSet(Counted) /\ IsFiniteSet(questions)
      /\ Cardinality(Asked) \in Nat /\ Cardinality(Counted) \in Nat
      /\ Cardinality(questions) \in Nat /\ pool \in Nat
  <2>1. Asked \in SUBSET Calls /\ Counted \in SUBSET Calls
    BY DEF Asked, Counted
  <2>2. IsFiniteSet(Asked) /\ IsFiniteSet(Counted)
    BY <2>1, CallsAssumption, FS_Subset
  <2> QED
    BY <2>2, FS_CardinalityType DEF CountInv, TypeOK
<1>1. ASSUME Asked' = Asked, Counted' = Counted, pool' = pool, questions' = questions
      PROVE  CountInv'
  BY <1>1 DEF CountInv
<1>2. ASSUME NEW c \in Calls, NEW e \in Emails, NEW b \in Body, RegisteRead(c, e, b)
      PROVE  CountInv'
  <2>1. Asked' = Asked /\ Counted' = Counted
    BY <1>2 DEF RegisteRead, Asked, Counted, TypeOK
  <2> QED
    BY <1>1, <1>2, <2>1 DEF RegisteRead
<1>3. ASSUME NEW c \in Calls,
             RegisteCheck(c) \/ RegisteInsert(c) \/ RegisteReturn(c)
      PROVE  CountInv'
  <2>1. /\ reg[c].at = "asked" <=> reg'[c].at = "asked"
        /\ reg[c].at \in {"counted", "done"} <=> reg'[c].at \in {"counted", "done"}
        /\ \A d \in Calls \ {c} : reg'[d] = reg[d]
    <3>1. CASE RegisteCheck(c)
      BY <3>1, GotoMoves DEF RegisteCheck, Goto
    <3>2. CASE RegisteInsert(c)
      BY <3>2, GotoMoves DEF RegisteInsert, Goto
    <3>3. CASE RegisteReturn(c)
      BY <3>3, GotoMoves DEF RegisteReturn, Goto
    <3> QED
      BY <1>3, <3>1, <3>2, <3>3
  <2>2. Asked' = Asked /\ Counted' = Counted
    BY <2>1 DEF Asked, Counted
  <2> QED
    BY <1>1, <1>3, <2>2 DEF RegisteCheck, RegisteInsert, RegisteReturn
<1>4. ASSUME NEW c \in Calls, RegisteQuestion(c) PROVE CountInv'
  <2> DEFINE new == [id |-> c, uid |-> reg[c].tid]
  <2>1. /\ reg[c].at = "inserted" /\ reg'[c].at = "asked"
        /\ \A d \in Calls \ {c} : reg'[d] = reg[d]
    BY <1>4, GotoMoves DEF RegisteQuestion, Goto
  <2>2. questions' = questions \cup {new} /\ new.id = c /\ pool' = pool
    BY <1>4 DEF RegisteQuestion
  <2> HIDE DEF new
  <2>3. new \notin questions
    BY <2>1, <2>2 DEF OwnerInv
  <2>4. Asked' = Asked \cup {c} /\ c \notin Asked /\ Counted' = Counted
    BY <2>1 DEF Asked, Counted
  <2>5. /\ IsFiniteSet(questions')
        /\ Cardinality(questions') = Cardinality(questions) + 1
        /\ Cardinality(Asked') = Cardinality(Asked) + 1
    BY <1>f, <2>2, <2>3, <2>4, FS_AddElement
  <2> QED
    BY <1>f, <2>2, <2>4, <2>5 DEF CountInv
<1>5. ASSUME NEW c \in Calls, RegisteIncr(c) PROVE CountInv'
  <2>1. /\ reg[c].at = "asked" /\ reg'[c].at = "counted"
        /\ \A d \in Calls \ {c} : reg'[d] = reg[d]
    BY <1>5, GotoMoves DEF RegisteIncr, Goto
  <2>2. questions' = questions /\ pool' = pool + 1
    BY <1>5 DEF RegisteIncr, PoolAfter
  <2>3. /\ Asked' = Asked \ {c} /\ c \in Asked
        /\ Counted' = Counted \cup {c} /\ c \notin Counted
    BY <2>1 DEF Asked, Counted
  <2>4. /\ Cardinality(Asked') = Cardinality(Asked) - 1
        /\ Cardinality(Counted') = Cardinality(Counted) + 1
    BY <1>f, <2>3, FS_AddElement, FS_RemoveElement
  <2> QED
    BY <1>f, <2>2, <2>4 DEF CountInv
<1>6. ASSUME NEW c \in Calls, RegisteFail(c) PROVE CountInv'
  <2>1. reg'[c].at = "failed" /\ \A d \in Calls \ {c} : reg'[d] = reg[d]
    BY <1>6, FailMoves, GotoMoves DEF Goto
  <2>2. pool' = pool /\ questions' = questions
    BY <1>6 DEF RegisteFail
  <2>3. Asked' \in SUBSET Asked /\ Counted' \in SUBSET Counted
    BY <2>1 DEF Asked, Counted
  <2>4. /\ Cardinality(Asked') \in Nat /\ Cardinality(Asked') <= Cardinality(Asked)
        /\ Cardinality(Counted') \in Nat /\ Cardinality(Counted') <= Cardinality(Counted)
    BY <1>f, <2>3, FS_Subset, FS_CardinalityType
  <2> QED
    BY <1>f, <2>2, <2>4 DEF CountInv
<1>7. ASSUME NEW u \in users, NEW e \in Emails, NEW b \in Body, UpdateProfile(u, e, b)
      PROVE  CountInv'
  BY <1>7, <1>1 DEF UpdateProfile, Asked, Counted
<1>8. CASE UNCHANGED vars
  BY <1>8, <1>1 DEF vars, Asked, Counted
<1> QED
  BY <1>2, <1>3, <1>4, <1>5, <1>6, <1>7, <1>8 DEF Next, RegisteStep

LEMMA InitRInv == Init => RInv
<1> SUFFICES ASSUME Init
             PROVE  RInv
  OBVIOUS
<1>1. Asked = {} /\ Counted = {} /\ questions = {} /\ pool = 0
  BY DEF Init, Asked, Counted
<1>2. CountInv
  BY <1>1, FS_EmptySet DEF CountInv
<1>3. TypeOK
  BY DEF Init, TypeOK, Call
<1> QED
  BY <1>2, <1>3 DEF Init, RInv, TidInv, StoredInv, OwnerInv

LEMMA NextRInv == RInv /\ [Next]_vars => RInv'
BY NextTyped, NextTidInv, NextStoredInv, NextOwnerInv, NextCount DEF RInv

\* The inductive invariant: the types, tids bounded by the counter, what is
\* stored before each step of registe and whose it is, and the counter between
\* the calls that are past it and the questions.
THEOREM Inductive == Spec => []RInv
BY InitRInv, NextRInv, PTL DEF Spec

\* The types of Registration are kept by every step.
THEOREM TypeCorrect == Spec => []TypeOK
<1>1. RInv => TypeOK
  BY DEF RInv
<1> QED
  BY <1>1, Inductive, PTL

\* No registration that returned is missing from the counter, and nothing is
\* in it that has no question, whatever INCRBY answers.
THEOREM PoolCounts == Spec => []PoolCountsRegistrations
<1>1. ASSUME RInv
      PROVE  PoolCountsRegistrations
  <2> DEFINE Done == {c \in Calls : reg[c].at = "done"}
  <2>1. Done \in SUBSET Counted /\ Counted \in SUBSET Calls /\ Asked \in SUBSET Calls
    BY DEF Counted, Asked
  <2>2. IsFiniteSet(Counted) /\ IsFiniteSet(Asked)
    BY <2>1, CallsAssumption, FS_Subset
  <2>3. /\ Cardinality(Done) <= Cardinality(Counted) /\ IsFiniteSet(Done)
    BY <2>1, <2>2, FS_Subset
  <2>4. /\ Cardinality(Done) \in Nat /\ Cardinality(Counted) \in Nat
        /\ Cardinality(Asked) \in Nat /\ Cardinality(questions) \in Nat /\ pool \in Nat
    BY <1>1, <2>2, <2>3, FS_CardinalityType DEF RInv, CountInv, TypeOK
  <2>5. /\ Cardinality(Counted) <= pool
        /\ pool + Cardinality(Asked) <= Cardinality(questions)
    BY <1>1 DEF RInv, CountInv
  <2> HIDE DEF Done
  <2>6. Cardinality(Done) <= pool /\ pool <= Cardinality(questions)
    BY <2>3, <2>4, <2>5
  <2> QED
    BY <2>6 DEF PoolCountsRegistrations, Done
<1> QED
  BY <1>1, Inductive, PTL

\* What registe has returned can be recovered with its question, and is stored
\* under its tid unless a body has named another.
THEOREM Complete == Spec => []RegisteredIsComplete
<1>1. RInv => RegisteredIsComplete
  BY DEF RInv, StoredInv, RegisteredIsComplete
<1> QED
  BY <1>1, Inductive, PTL

\* A tid is never handed out again once its registration has returned.
THEOREM TidsGrow == Spec => LaterTidIsLarger
<1> DEFINE Larger == \A c, d \in Calls :
             reg[c] = Idle /\ reg'[c] # Idle /\ reg[d].at = "done"
               => reg'[c].tid > reg[d].tid
<1>1. RInv /\ [Next]_vars => [Larger]_vars
  <2> SUFFICES ASSUME RInv, Next, NEW c \in Calls, NEW d \in Calls,
                      reg[c] = Idle, reg'[c] # Idle, reg[d].at = "done"
               PROVE  reg'[c].tid > reg[d].tid
    OBVIOUS
  <2>t. /\ reg \in [Calls -> Call] /\ pool \in Nat
        /\ reg[d].tid \in Nat /\ reg[d].tid <= pool
    BY DEF RInv, TypeOK, TidInv, Call
  <2>1. PICK e \in Emails, b \in Body : RegisteRead(c, e, b)
    <3>1. ASSUME NEW x \in Calls, NEW from \in At, NEW to \in At, Goto(x, from, to)
          PROVE  FALSE
      BY <2>t, <3>1 DEF Goto
    <3>2. ASSUME NEW x \in Calls, NEW e \in Emails, NEW b \in Body, RegisteRead(x, e, b)
          PROVE  x = c
      BY <2>t, <3>2 DEF RegisteRead
    <3>3. ASSUME NEW x \in Calls, RegisteStep(x)
          PROVE  \E e \in Emails, b \in Body : RegisteRead(x, e, b)
      BY <3>1, <3>3, FailMoves DEF RegisteStep, RegisteCheck, RegisteInsert,
         RegisteQuestion, RegisteIncr, RegisteReturn
    <3> QED
      BY <3>2, <3>3 DEF Next, UpdateProfile
  <2>2. reg'[c].tid = pool + 1
    BY <2>1, <2>t DEF RegisteRead, NextTid
  <2> QED
    BY <2>2, <2>t
<1> QED
  BY <1>1, Inductive, PTL DEF Spec, LaterTidIsLarger

(***************************************************************************)
(* Recovery                                                                *)
(***************************************************************************)
\* Recovery adds to Registration and changes none of it.
LEMMA RecoveryStep == [XNext]_xvars => [Next]_vars
BY DEF XNext, xvars, vars, Next, Register, Patch, ForgetMatch, ForgetUpdate, ForgetCut

\* What registe promises holds beside getQuestion, checkAnswer, forgetPassword
\* and the profiles.
THEOREM RecoveryKeepsRegistration == XSpec => Spec
<1>1. XInit => Init
  BY DEF XInit
<1> QED
  BY <1>1, RecoveryStep, PTL DEF XSpec, Spec

(***************************************************************************)
(* What forgetPassword has found: the answer it accepted for a tid is that *)
(* of a call with that tid, and so is the user whose password it has set,  *)
(* unless a body has named that user's tid.                                *)
(***************************************************************************)
ForgetInv ==
  /\ \A v \in Recoveries : rec[v] # Idle =>
       /\ \A c \in rec[v].finished : c \in Calls /\ reg[c].at = "done"
       /\ rec[v].at # "failed" =>
            \A c \in rec[v].finished : reg[c].tid = rec[v].tid =>
              LET a == rec[v].answer
              IN  a \in Calls /\ reg[a] # Idle /\ reg[a].tid = rec[v].tid
  /\ \A c \in Calls : setBy[c] \in Recoveries =>
       /\ rec[setBy[c]] # Idle /\ rec[setBy[c]].at = "done"
       /\ reg[c] # Idle /\ (reg[c].tid = rec[setBy[c]].tid \/ given[c] # {})

VInv == RecoveryTypeOK /\ RInv /\ ForgetInv

RecoveryRec == [at : {"matched", "done", "failed", "cut"}, tid : Nat \cup {NoTid},
                answer : Calls \cup {EmptyText}, finished : SUBSET Calls]

\* What a step of registration or profiles leaves of a forgetPassword.
LEMMA OtherForget ==
  ASSUME VInv, Next, rec' = rec,
         \A c \in Calls : setBy'[c] \in Recoveries => setBy'[c] = setBy[c]
  PROVE  ForgetInv'
<1>1. /\ \A c \in Calls : reg[c] # Idle => Forward(c)
      /\ \A c \in Calls : given[c] \subseteq given'[c]
  BY CallKept DEF VInv, RInv
<1>2. ASSUME NEW v \in Recoveries, rec[v] # Idle
      PROVE  /\ \A c \in rec[v].finished : c \in Calls /\ reg'[c].at = "done"
             /\ rec[v].at # "failed" =>
                  \A c \in rec[v].finished : reg'[c].tid = rec[v].tid =>
                    LET a == rec[v].answer
                    IN  a \in Calls /\ reg'[a] # Idle /\ reg'[a].tid = rec[v].tid
  BY <1>1, <1>2 DEF VInv, ForgetInv, Forward
<1>3. ASSUME NEW c \in Calls, setBy'[c] \in Recoveries
      PROVE  /\ rec[setBy'[c]] # Idle /\ rec[setBy'[c]].at = "done"
             /\ reg'[c] # Idle /\ (reg'[c].tid = rec[setBy'[c]].tid \/ given'[c] # {})
  BY <1>1, <1>3 DEF VInv, ForgetInv, Forward
<1> QED
  BY <1>2, <1>3 DEF ForgetInv

LEMMA RegisterForget ==
  ASSUME VInv, NEW c \in Calls, Register(c)
  PROVE  RecoveryTypeOK' /\ ForgetInv'
<1>1. Next /\ setBy' = setBy /\ rec' = rec
  BY DEF Register, Next
<1>2. TypeOK'
  BY <1>1, NextTyped DEF VInv, RInv
<1>3. seen' \in [Calls -> SUBSET Calls]
  BY DEF Register, TypeOK, User, VInv, RecoveryTypeOK
<1>4. RecoveryTypeOK'
  BY <1>1, <1>2, <1>3 DEF VInv, RecoveryTypeOK
<1> QED
  BY <1>1, <1>4, OtherForget

LEMMA PatchForget ==
  ASSUME VInv, NEW u \in users, NEW e \in Emails, NEW b \in Body, Patch(u, e, b)
  PROVE  RecoveryTypeOK' /\ ForgetInv'
<1>1. Next /\ rec' = rec /\ setBy' \in {setBy, [setBy EXCEPT ![u.id] = Patched]}
  BY DEF Patch, Next
<1>2. TypeOK' /\ u.id \in Calls
  BY <1>1, NextTyped DEF VInv, RInv, TypeOK, User
<1>3. seen' \in [Calls -> SUBSET Calls]
  <2>1. seen \in [Calls -> SUBSET Calls]
    BY DEF VInv, RecoveryTypeOK
  <2> QED
    BY <2>1 DEF Patch
<1>4. setBy' \in [Calls -> Calls \cup Recoveries \cup {Patched}]
  BY <1>1, <1>2 DEF VInv, RecoveryTypeOK
<1>5. RecoveryTypeOK'
  BY <1>1, <1>2, <1>3, <1>4 DEF VInv, RecoveryTypeOK
<1>6. \A c \in Calls : setBy'[c] \in Recoveries => setBy'[c] = setBy[c]
  BY <1>1, RecoveryAssumption DEF VInv, RecoveryTypeOK
<1> QED
  BY <1>1, <1>5, <1>6, OtherForget

\* What a client sends is cast to a number, or the query fails.
LEMMA CastTyped ==
  ASSUME TypeOK, NEW s \in Sendable
  PROVE  Cast(s) \in Nat \cup {NoTid}
<1>1. KnownTids \subseteq Nat
  BY BodyAssumption DEF KnownTids, TypeOK, Call
<1>2. CASE s \in [as : {"number", "text"}, of : KnownTids]
  <2>1. s.of \in KnownTids /\ s.as # "other"
    BY <1>2
  <2> QED
    BY <1>1, <2>1 DEF Cast
<1>3. CASE s \in {[as |-> "other"]}
  BY <1>3 DEF Cast
<1> QED
  BY <1>2, <1>3 DEF Sendable

LEMMA MatchForget ==
  ASSUME VInv, NEW v \in Recoveries, NEW s \in Sendable, NEW a \in Calls \cup {EmptyText},
         ForgetMatch(v, s, a)
  PROVE  RecoveryTypeOK' /\ ForgetInv'
<1> DEFINE t == Cast(s)
<1> PICK q \in FindOne(QuestionOf(t)) :
      rec' = [rec EXCEPT ![v] =
        [at |-> IF t # NoTid /\ Matches(q, a) THEN "matched" ELSE "failed",
         tid |-> t, answer |-> a, finished |-> Finished]]
  BY DEF ForgetMatch
<1>1. /\ rec[v] = Idle /\ UNCHANGED <<pool, users, questions, reg, given, setBy, seen>>
  BY DEF ForgetMatch, vars
<1>2. t \in Nat \cup {NoTid} /\ Finished \in SUBSET Calls
  BY CastTyped DEF Finished, VInv, RInv
<1> HIDE DEF t
<1> DEFINE new == [at |-> IF t # NoTid /\ Matches(q, a) THEN "matched" ELSE "failed",
                   tid |-> t, answer |-> a, finished |-> Finished]
<1>3. new \in Recovery
  BY <1>2 DEF Recovery
<1>4. RecoveryTypeOK'
  BY <1>1, <1>3 DEF VInv, RecoveryTypeOK, TypeOK
<1>5. rec'[v] = new /\ \A w \in Recoveries \ {v} : rec'[w] = rec[w]
  BY DEF VInv, RecoveryTypeOK
<1>6. ASSUME Matches(q, a), NEW c \in Finished, reg[c].tid = t
      PROVE  a \in Calls /\ reg[a] # Idle /\ reg[a].tid = t
  <2>1. \E r \in questions : r.uid = t
    BY <1>6 DEF Finished, VInv, RInv, StoredInv
  <2>2. q \in QuestionOf(t)
    BY <2>1 DEF FindOne, QuestionOf
  <2>3. PICK r \in questions : r.uid = t /\ r.id = q
    BY <2>2 DEF QuestionOf
  <2>4. q \in Calls /\ reg[q] # Idle /\ reg[q].tid = t
    BY <2>3 DEF VInv, OwnerInv, RInv, TypeOK, Question
  <2> QED
    BY <1>6, <2>4, RecoveryAssumption DEF Matches
<1>7. /\ new.at # "failed" => Matches(q, a)
      /\ new.at # "done" /\ new.tid = t /\ new.answer = a /\ new.finished = Finished
  OBVIOUS
<1> HIDE DEF new
<1>8. ForgetInv'
  <2>1. \A c \in Finished : c \in Calls /\ reg[c].at = "done"
    BY DEF Finished
  <2>2. ASSUME NEW w \in Recoveries, rec'[w] # Idle
        PROVE  /\ \A c \in rec'[w].finished : c \in Calls /\ reg[c].at = "done"
               /\ rec'[w].at # "failed" =>
                    \A c \in rec'[w].finished : reg[c].tid = rec'[w].tid =>
                      LET x == rec'[w].answer
                      IN  x \in Calls /\ reg[x] # Idle /\ reg[x].tid = rec'[w].tid
    <3>1. CASE w = v
      BY <1>5, <1>6, <1>7, <2>1, <3>1
    <3>2. CASE w # v
      BY <1>5, <2>2, <3>2 DEF VInv, ForgetInv
    <3> QED
      BY <3>1, <3>2
  <2>3. \A c \in Calls : setBy[c] # v \/ setBy[c] \notin Recoveries
    BY <1>1 DEF VInv, ForgetInv
  <2> QED
    BY <1>1, <1>5, <2>2, <2>3 DEF VInv, ForgetInv
<1> QED
  BY <1>4, <1>8

LEMMA UpdateForget ==
  ASSUME VInv, NEW v \in Recoveries, ForgetUpdate(v)
  PROVE  RecoveryTypeOK' /\ ForgetInv'
<1>1. /\ rec[v].at = "matched" /\ rec' = [rec EXCEPT ![v].at = "done"]
      /\ UNCHANGED <<pool, users, questions, reg, given, seen>>
  BY DEF ForgetUpdate, vars
<1>2. rec[v] \in RecoveryRec
  BY <1>1 DEF VInv, RecoveryTypeOK, Recovery, RecoveryRec
<1>3. /\ rec'[v] = [rec[v] EXCEPT !.at = "done"]
      /\ \A w \in Recoveries \ {v} : rec'[w] = rec[w]
  BY <1>1 DEF VInv, RecoveryTypeOK
<1>4. PICK u \in FindOne(UserOf(rec[v].tid)) :
        setBy' = [c \in Calls |-> IF c = u THEN v ELSE setBy[c]]
  BY DEF ForgetUpdate
<1>5. RecoveryTypeOK'
  <2>1. rec'[v] \in Recovery
    BY <1>2, <1>3 DEF Recovery, RecoveryRec
  <2> QED
    BY <1>1, <1>3, <1>4, <2>1 DEF VInv, RecoveryTypeOK, TypeOK
<1>6. ASSUME u \in Calls
      PROVE  reg[u] # Idle /\ (reg[u].tid = rec[v].tid \/ given[u] # {})
  <2>1. u \in UserOf(rec[v].tid)
    BY <1>4, <1>6, RecoveryAssumption DEF FindOne
  <2>2. PICK w \in users : w.tid = rec[v].tid /\ w.id = u
    BY <2>1 DEF UserOf
  <2> QED
    BY <2>2 DEF VInv, RInv, OwnerInv
<1>7. /\ rec'[v] # Idle /\ rec'[v].at = "done" /\ rec'[v].tid = rec[v].tid
      /\ rec'[v].answer = rec[v].answer /\ rec'[v].finished = rec[v].finished
      /\ rec[v] # Idle
  BY <1>1, <1>2, <1>3 DEF RecoveryRec
<1>8. \A w \in Recoveries : rec'[w] # Idle =>
        /\ \A c \in rec'[w].finished : c \in Calls /\ reg[c].at = "done"
        /\ rec'[w].at # "failed" =>
             \A c \in rec'[w].finished : reg[c].tid = rec'[w].tid =>
               LET a == rec'[w].answer
               IN  a \in Calls /\ reg[a] # Idle /\ reg[a].tid = rec'[w].tid
  BY <1>1, <1>3, <1>7 DEF VInv, ForgetInv
<1>9. ASSUME NEW c \in Calls, setBy'[c] \in Recoveries
      PROVE  /\ rec'[setBy'[c]] # Idle /\ rec'[setBy'[c]].at = "done"
             /\ reg[c] # Idle /\ (reg[c].tid = rec'[setBy'[c]].tid \/ given[c] # {})
  <2>1. CASE c = u
    BY <1>4, <1>6, <1>7, <2>1
  <2>2. CASE c # u
    <3>1. setBy'[c] = setBy[c]
      BY <1>4, <2>2
    <3>2. /\ rec[setBy[c]] # Idle /\ rec[setBy[c]].at = "done"
          /\ reg[c] # Idle /\ (reg[c].tid = rec[setBy[c]].tid \/ given[c] # {})
      BY <1>9, <3>1 DEF VInv, ForgetInv
    <3>3. setBy[c] # v
      BY <1>1, <3>2
    <3> QED
      BY <1>3, <1>9, <3>1, <3>2, <3>3
  <2> QED
    BY <2>1, <2>2
<1> QED
  BY <1>1, <1>5, <1>8, <1>9 DEF ForgetInv

LEMMA CutForget ==
  ASSUME VInv, NEW v \in Recoveries, ForgetCut(v)
  PROVE  RecoveryTypeOK' /\ ForgetInv'
<1>1. /\ rec[v].at = "matched" /\ rec' = [rec EXCEPT ![v].at = "cut"]
      /\ UNCHANGED <<pool, users, questions, reg, given, setBy, seen>>
  BY DEF ForgetCut, vars
<1>2. rec[v] \in RecoveryRec
  BY <1>1 DEF VInv, RecoveryTypeOK, Recovery, RecoveryRec
<1>3. /\ rec'[v] = [rec[v] EXCEPT !.at = "cut"]
      /\ \A w \in Recoveries \ {v} : rec'[w] = rec[w]
  BY <1>1 DEF VInv, RecoveryTypeOK
<1>4. RecoveryTypeOK'
  <2>1. rec'[v] \in Recovery
    BY <1>2, <1>3 DEF Recovery, RecoveryRec
  <2> QED
    BY <1>1, <1>3, <2>1 DEF VInv, RecoveryTypeOK, TypeOK
<1>5. /\ rec[v] # Idle /\ rec'[v].at = "cut" /\ rec'[v].tid = rec[v].tid
      /\ rec'[v].answer = rec[v].answer /\ rec'[v].finished = rec[v].finished
  BY <1>1, <1>2, <1>3 DEF RecoveryRec
<1>6. \A c \in Calls : setBy[c] # v \/ setBy[c] \notin Recoveries
  BY <1>1 DEF VInv, ForgetInv
<1> QED
  BY <1>1, <1>3, <1>4, <1>5, <1>6 DEF VInv, ForgetInv

LEMMA RecoveryInit == XInit => VInv
<1> SUFFICES ASSUME XInit
             PROVE  VInv
  OBVIOUS
<1>1. RInv
  BY InitRInv DEF XInit
<1>2. RecoveryTypeOK
  BY <1>1 DEF XInit, RInv, RecoveryTypeOK, Recovery
<1>3. ForgetInv
  BY RecoveryAssumption DEF XInit, ForgetInv
<1> QED
  BY <1>1, <1>2, <1>3 DEF VInv

LEMMA RecoveryInvariant == XSpec => []VInv
<1>1. VInv /\ [XNext]_xvars => VInv'
  <2> SUFFICES ASSUME VInv, [XNext]_xvars
               PROVE  VInv'
    OBVIOUS
  <2>1. RInv'
    BY RecoveryStep, NextRInv DEF VInv
  <2>2. RecoveryTypeOK' /\ ForgetInv'
    <3>1. CASE UNCHANGED xvars
      BY <3>1 DEF xvars, vars, VInv, RecoveryTypeOK, TypeOK, ForgetInv
    <3>2. ASSUME NEW c \in Calls, Register(c)
          PROVE  RecoveryTypeOK' /\ ForgetInv'
      BY <3>2, RegisterForget
    <3>3. ASSUME NEW u \in users, NEW e \in Emails, NEW b \in Body, Patch(u, e, b)
          PROVE  RecoveryTypeOK' /\ ForgetInv'
      BY <3>3, PatchForget
    <3>4. ASSUME NEW v \in Recoveries, NEW s \in Sendable, NEW a \in Calls \cup {EmptyText},
                 ForgetMatch(v, s, a)
          PROVE  RecoveryTypeOK' /\ ForgetInv'
      BY <3>4, MatchForget
    <3>5. ASSUME NEW v \in Recoveries, ForgetUpdate(v)
          PROVE  RecoveryTypeOK' /\ ForgetInv'
      BY <3>5, UpdateForget
    <3>6. ASSUME NEW v \in Recoveries, ForgetCut(v)
          PROVE  RecoveryTypeOK' /\ ForgetInv'
      BY <3>6, CutForget
    <3> QED
      BY <3>1, <3>2, <3>3, <3>4, <3>5, <3>6 DEF XNext
  <2> QED
    BY <2>1, <2>2 DEF VInv
<1> QED
  BY <1>1, RecoveryInit, PTL DEF XSpec

\* The types of Recovery, with those of Registration, are kept by every step.
THEOREM RecoveryTypes == XSpec => []RecoveryTypeOK
<1>1. VInv => RecoveryTypeOK
  BY DEF VInv
<1> QED
  BY <1>1, RecoveryInvariant, PTL

\* getQuestion and checkAnswer find what belongs to whoever does not share a
\* tid, sent as a number or as text, and so does the profile of whoever's tid
\* no body has named or changed.
THEOREM RecoveryWorks == XSpec => []RecoveryFailsOnlyIfShared
<1>1. ASSUME VInv, NEW c \in Finished, NEW as \in {"number", "text"}, ~Shared(c)
      PROVE  LET s == [as |-> as, of |-> reg[c].tid]
             IN  /\ GetQuestion(s) = {c}
                 /\ \A q, a \in Calls : CheckAnswer(s, q, a) <=> q = c /\ a = c
                 /\ Undisturbed(c) => Profile(s) = {c}
  <2> DEFINE s == [as |-> as, of |-> reg[c].tid]
             t == reg[c].tid
  <2>1. c \in Calls /\ reg[c].at = "done"
    BY DEF Finished
  <2>2. \A d \in Calls : reg[d] # Idle /\ reg[d].tid = t => d = c
    BY <1>1 DEF Shared
  <2>3. Cast(s) = t
    BY DEF Cast
  <2>4. QuestionOf(t) = {c}
    <3>1. \A q \in questions : q.uid = t => q.id = c
      BY <1>1, <2>2 DEF VInv, OwnerInv, RInv, TypeOK, Question
    <3>2. \E q \in questions : q.uid = t
      BY <1>1, <2>1 DEF VInv, RInv, StoredInv
    <3> QED
      BY <3>1, <3>2 DEF QuestionOf
  <2>5. ASSUME Undisturbed(c)
        PROVE  UserOf(t) = {c}
    <3>1. \A u \in users : u.tid = t => u.id = c
      <4> SUFFICES ASSUME NEW u \in users, u.tid = t
                   PROVE  u.id = c
        OBVIOUS
      <4>1. u.id \in Calls /\ reg[u.id] # Idle /\ t \in given[u.id] \cup {reg[u.id].tid}
        BY <1>1 DEF VInv, OwnerInv, RInv, TypeOK, User
      <4>2. t \notin given[u.id]
        BY <2>5, <4>1 DEF Undisturbed
      <4> QED
        BY <2>2, <4>1, <4>2
    <3>2. \E u \in users : u.id = c /\ u.tid = t
      BY <1>1, <2>1, <2>5 DEF VInv, RInv, StoredInv, Undisturbed
    <3> QED
      BY <3>1, <3>2 DEF UserOf
  <2> HIDE DEF s, t
  <2>6. GetQuestion(s) = {c} /\ (Undisturbed(c) => Profile(s) = {c})
    BY <2>3, <2>4, <2>5 DEF GetQuestion, Profile, FindOne
  <2>7. \A q, a \in Calls : CheckAnswer(s, q, a) <=> q = c /\ a = c
    BY <2>3, <2>4 DEF CheckAnswer
  <2> QED
    BY <2>6, <2>7 DEF s
<1>2. VInv => RecoveryFailsOnlyIfShared
  BY <1>1 DEF RecoveryFailsOnlyIfShared
<1> QED
  BY <1>2, RecoveryInvariant, PTL

\* forgetPassword sets the password of no account that does not share its tid
\* for anybody without its answer.
THEOREM OwnAnswers == XSpec => []PasswordOnlyByOwnAnswer
<1>1. ASSUME VInv, NEW c \in Calls, NEW v \in Recoveries,
             setBy[c] = v, c \in rec[v].finished, ~Shared(c), given[c] = {}
      PROVE  rec[v].answer = c
  <2>1. rec[v] # Idle /\ rec[v].at # "failed" /\ reg[c].tid = rec[v].tid
    BY <1>1 DEF VInv, ForgetInv
  <2> DEFINE a == rec[v].answer
  <2>2. a \in Calls /\ reg[a] # Idle /\ reg[a].tid = reg[c].tid
    BY <1>1, <2>1 DEF VInv, ForgetInv
  <2> QED
    BY <1>1, <2>2 DEF Shared
<1>2. VInv => PasswordOnlyByOwnAnswer
  BY <1>1 DEF PasswordOnlyByOwnAnswer
<1> QED
  BY <1>2, RecoveryInvariant, PTL

(***************************************************************************)
(* Emails.  What registe has compared with an email differs from it: from  *)
(* the check on, in the call and then in the document it stores.           *)
(***************************************************************************)
SeenInv ==
  /\ \A c \in Calls : \A d \in seen[c] : \E u \in users : u.id = d
  /\ \A c \in Calls, u \in users :
       u.id \in seen[c] /\ reg[c].at = "checked" => u.email # reg[c].email
  /\ \A u, w \in users : u.id \in seen[w.id] => u.email # w.email

LEMMA CheckSeen ==
  ASSUME VInv, SeenInv, NEW c \in Calls, Register(c), RegisteCheck(c)
  PROVE  SeenInv'
<1>1. /\ users' = users /\ reg[c].at = "read" /\ reg'[c].at \in {"failed", "checked"}
      /\ reg'[c].at = "checked" => ~Registered(reg[c].email)
      /\ reg'[c].email = reg[c].email /\ \A d \in Calls \ {c} : reg'[d] = reg[d]
  <2>1. Goto(c, "read", IF Registered(reg[c].email) THEN "failed" ELSE "checked")
    BY DEF RegisteCheck
  <2>2. TypeOK
    BY DEF VInv, RInv
  <2>3. reg'[c].email = reg[c].email
    BY <2>1, <2>2, GotoMoves
  <2> QED
    BY <2>1, <2>2, <2>3, GotoMoves DEF RegisteCheck, Goto
<1>2. /\ \A d \in Calls \ {c} : seen'[d] = seen[d]
      /\ seen'[c] = IF reg'[c].at = "checked" THEN {u.id : u \in users} ELSE seen[c]
  BY <1>1 DEF Register, VInv, RecoveryTypeOK
<1>3. \A u \in users : u.id \in Calls /\ u.id # c
  BY <1>1 DEF VInv, OwnerInv, RInv, TypeOK, User
<1>4. \A u \in users : reg'[c].at = "checked" => u.email # reg'[c].email
  BY <1>1 DEF Registered
<1> QED
  BY <1>1, <1>2, <1>3, <1>4 DEF SeenInv

LEMMA InsertSeen ==
  ASSUME VInv, SeenInv, NEW c \in Calls, Register(c), RegisteInsert(c)
  PROVE  SeenInv'
<1> DEFINE new == [id |-> c, tid |-> Named(reg[c].body, reg[c].tid),
                   email |-> reg[c].email]
<1>1. Goto(c, "checked", "inserted") /\ users' = users \cup {new} /\ TypeOK
  BY DEF RegisteInsert, VInv, RInv
<1>2. /\ reg[c].at = "checked" /\ reg'[c].at = "inserted"
      /\ \A d \in Calls \ {c} : reg'[d] = reg[d]
  BY <1>1, GotoMoves DEF Goto
<1>3. seen' = seen
  BY <1>2 DEF Register
<1>4. \A u \in users : u.id \in Calls /\ u.id # c
  BY <1>2 DEF VInv, OwnerInv, RInv, TypeOK, User
<1>5. \A d \in Calls : c \notin seen[d]
  BY <1>4 DEF SeenInv
<1>6. new.id = c /\ new.email = reg[c].email
  OBVIOUS
<1> HIDE DEF new
<1>7. \A d \in Calls : \A e \in seen[d] : \E u \in users' : u.id = e
  BY <1>1 DEF SeenInv
<1>8. \A d \in Calls, u \in users' :
        u.id \in seen[d] /\ reg'[d].at = "checked" => u.email # reg'[d].email
  BY <1>1, <1>2, <1>5, <1>6 DEF SeenInv
<1>9. \A u, w \in users' : u.id \in seen[w.id] => u.email # w.email
  BY <1>1, <1>2, <1>4, <1>5, <1>6 DEF SeenInv
<1> QED
  BY <1>3, <1>7, <1>8, <1>9 DEF SeenInv

LEMMA PatchSeen ==
  ASSUME VInv, SeenInv, NEW u \in users, NEW e \in Emails, NEW b \in Body, Patch(u, e, b)
  PROVE  SeenInv'
<1> DEFINE p == [u EXCEPT !.email = e, !.tid = Named(b, @)]
<1>1. /\ users' = (users \ {u}) \cup {p} /\ reg' = reg
      /\ p.id = u.id /\ p.email = e /\ \A w \in users : w.id \in Calls
  BY DEF Patch, UpdateProfile, VInv, RInv, TypeOK, User
<1> HIDE DEF p
<1>2. \A w \in users' \ {p} : w \in users /\ w.id # u.id
  BY <1>1 DEF VInv, RInv, OwnerInv
<1>3. CASE e = u.email
  <2>1. seen' = seen
    BY <1>3 DEF Patch
  <2>2. \A w \in users' : \E x \in users : x.id = w.id /\ x.email = w.email
    BY <1>1, <1>2, <1>3
  <2>3. \A x \in users : \E w \in users' : w.id = x.id
    BY <1>1
  <2>4. \A c \in Calls : \A d \in seen[c] : \E w \in users' : w.id = d
    BY <2>3 DEF SeenInv
  <2>5. \A c \in Calls, w \in users' :
          w.id \in seen[c] /\ reg[c].at = "checked" => w.email # reg[c].email
    BY <2>2 DEF SeenInv
  <2>6. \A v, w \in users' : v.id \in seen[w.id] => v.email # w.email
    <3> SUFFICES ASSUME NEW v \in users', NEW w \in users', v.id \in seen[w.id]
                 PROVE  v.email # w.email
      OBVIOUS
    <3>1. PICK x \in users : x.id = v.id /\ x.email = v.email
      BY <2>2
    <3>2. PICK y \in users : y.id = w.id /\ y.email = w.email
      BY <2>2
    <3> QED
      BY <3>1, <3>2 DEF SeenInv
  <2> QED
    BY <1>1, <2>1, <2>4, <2>5, <2>6 DEF SeenInv
<1>4. CASE e # u.email
  <2>1. \A c \in Calls : seen'[c] = IF c = u.id THEN {} ELSE seen[c] \ {u.id}
    BY <1>4 DEF Patch
  <2>2. \A c \in Calls : \A d \in seen'[c] : \E w \in users' : w.id = d
    BY <1>1, <2>1 DEF SeenInv
  <2>3. \A w \in users' : w.id \in Calls /\ (w.id = u.id \/ w \in users)
    BY <1>1, <1>2
  <2>4. \A c \in Calls :
          u.id \notin seen'[c] /\ \A d \in seen'[c] : c # u.id /\ d \in seen[c]
    BY <2>1
  <2>5. \A c \in Calls, w \in users' :
          w.id \in seen'[c] /\ reg'[c].at = "checked" => w.email # reg'[c].email
    <3> SUFFICES ASSUME NEW c \in Calls, NEW w \in users',
                        w.id \in seen'[c], reg'[c].at = "checked"
                 PROVE  w.email # reg'[c].email
      OBVIOUS
    <3>1. w \in users /\ w.id \in seen[c] /\ reg[c].at = "checked"
      BY <1>1, <2>3, <2>4
    <3> QED
      BY <1>1, <3>1 DEF SeenInv
  <2>6. \A v, w \in users' : v.id \in seen'[w.id] => v.email # w.email
    <3> SUFFICES ASSUME NEW v \in users', NEW w \in users', v.id \in seen'[w.id]
                 PROVE  v.email # w.email
      OBVIOUS
    <3>1. v \in users /\ w \in users /\ v.id \in seen[w.id]
      BY <2>3, <2>4
    <3> QED
      BY <3>1 DEF SeenInv
  <2> QED
    BY <2>2, <2>5, <2>6 DEF SeenInv
<1> QED
  BY <1>3, <1>4

\* The other steps of a registration change neither users nor what was seen.
LEMMA OtherSeen ==
  ASSUME SeenInv, NEW c \in Calls, Register(c), users' = users, reg'[c].at # "checked",
         \A d \in Calls \ {c} : reg'[d] = reg[d]
  PROVE  SeenInv'
<1>1. seen' = seen
  BY DEF Register
<1> QED
  BY <1>1 DEF SeenInv

LEMMA RegisterSeen ==
  ASSUME VInv, SeenInv, NEW c \in Calls, Register(c)
  PROVE  SeenInv'
<1>1. TypeOK
  BY DEF VInv, RInv
<1>2. ASSUME NEW e \in Emails, NEW b \in Body, RegisteRead(c, e, b)
      PROVE  SeenInv'
  <2>1. /\ users' = users /\ reg'[c].at # "checked"
        /\ \A d \in Calls \ {c} : reg'[d] = reg[d]
    BY <1>1, <1>2 DEF RegisteRead, TypeOK
  <2> QED
    BY <2>1, OtherSeen
<1>3. CASE RegisteCheck(c)
  BY <1>3, CheckSeen
<1>4. CASE RegisteInsert(c)
  BY <1>4, InsertSeen
<1>5. CASE RegisteQuestion(c) \/ RegisteIncr(c) \/ RegisteReturn(c) \/ RegisteFail(c)
  <2>1. users' = users /\ reg'[c].at # "checked" /\ \A d \in Calls \ {c} : reg'[d] = reg[d]
    <3>1. CASE RegisteQuestion(c)
      BY <1>1, <3>1, GotoMoves DEF RegisteQuestion
    <3>2. CASE RegisteIncr(c)
      BY <1>1, <3>2, GotoMoves DEF RegisteIncr
    <3>3. CASE RegisteReturn(c)
      BY <1>1, <3>3, GotoMoves DEF RegisteReturn
    <3>4. CASE RegisteFail(c)
      BY <1>1, <3>4 DEF RegisteFail, TypeOK, Call
    <3> QED
      BY <1>5, <3>1, <3>2, <3>3, <3>4
  <2> QED
    BY <2>1, OtherSeen
<1> QED
  BY <1>2, <1>3, <1>4, <1>5 DEF Register, RegisteStep

\* registe and updateProfile give two users one email only when neither was
\* compared with the other.
THEOREM EmailsByOverlap == XSpec => []EmailTwiceOnlyByOverlap
<1>1. XInit => SeenInv
  BY DEF XInit, Init, SeenInv
<1>2. VInv /\ SeenInv /\ [XNext]_xvars => SeenInv'
  <2>1. ASSUME SeenInv, UNCHANGED <<vars, seen>>
        PROVE  SeenInv'
    BY <2>1 DEF SeenInv, vars
  <2> QED
    BY <2>1, RegisterSeen, PatchSeen DEF XNext, ForgetMatch, ForgetUpdate, ForgetCut, xvars
<1>3. SeenInv => EmailTwiceOnlyByOverlap
  BY DEF SeenInv, EmailTwiceOnlyByOverlap
<1> QED
  BY <1>1, <1>2, <1>3, RecoveryInvariant, PTL DEF XSpec
=============================================================================
