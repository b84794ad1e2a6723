---------------------------- MODULE Registration ----------------------------
(***************************************************************************)
(* POST /account/register and the counter ACCOUNT:POOL that account ids    *)
(* come from.  AccountService.registe reads the counter, looks the email   *)
(* up, stores the user, stores the question and only then increments the   *)
(* counter; each of these is an await, so registrations overlap and may    *)
(* fail between any two.  No pipe validates a body: that of a registration *)
(* may name a tid, which then replaces the one of the counter in the user, *)
(* and that of PATCH /users/profile may change an email or a tid.          *)
(***************************************************************************)
EXTENDS Naturals, FiniteSets

CONSTANTS
  Calls,       \* calls of POST /account/register, each made at most once
  Emails,      \* email addresses
  BodyTids,    \* tids that a body may name
  NoTid        \* a body that names none

ASSUME CallsAssumption == IsFiniteSet(Calls)
ASSUME BodyAssumption == BodyTids \subseteq Nat /\ NoTid \notin Nat

VARIABLES
  pool,        \* Redis: ACCOUNT:POOL, 0 when the key is missing
  users,       \* MongoDB: the users; id stands for the document's _id
  questions,   \* MongoDB: the owners' tids of the stored questions, by _id
  reg,         \* state of each call
  given        \* history: the tids that bodies have named for each user

vars == <<pool, users, questions, reg, given>>

Idle == [at |-> "idle"]
At == {"read", "checked", "inserted", "asked", "counted", "done", "failed"}
Body == BodyTids \cup {NoTid}
Call == {Idle} \cup [at : At, tid : Nat, email : Emails, body : Body]
User == [id : Calls, tid : Nat, email : Emails]
Question == [id : Calls, uid : Nat]

Init ==
  /\ pool = 0
  /\ users = {} /\ questions = {}
  /\ reg = [c \in Calls |-> Idle]
  /\ given = [c \in Calls |-> {}]

\* A tid in a body takes the place of the other one.
Named(b, t) == IF b = NoTid THEN t ELSE b
Given(c, b) == IF b = NoTid THEN given ELSE [given EXCEPT ![c] = @ \cup {b}]

RegisteredNever(e) == FALSE  \* fault
Registered(e) == \E u \in users : u.email = e

Goto(c, from, to) ==
  /\ reg[c].at = from
  /\ reg' = [reg EXCEPT ![c].at = to]

\* The next tid is one more than the counter says now.
NextTid == pool + 1

RegisteRead(c, e, b) ==
  /\ reg[c] = Idle
  /\ reg' = [reg EXCEPT ![c] =
       [at |-> "read", tid |-> NextTid, email |-> e, body |-> b]]
  /\ UNCHANGED <<pool, users, questions, given>>

\* HAS_SAME_USER when the email is taken.
RegisteCheck(c) ==
  /\ Goto(c, "read", IF Registered(reg[c].email) THEN "failed" ELSE "checked")
  /\ UNCHANGED <<pool, users, questions, given>>

\* insertMany([{tid, ...createUserDto}]): what the body holds comes last.
RegisteInsert(c) ==
  /\ Goto(c, "checked", "inserted")
  /\ users' = users \cup {[id |-> c, tid |-> Named(reg[c].body, reg[c].tid),
                           email |-> reg[c].email]}
  /\ given' = Given(c, reg[c].body)
  /\ UNCHANGED <<pool, questions>>

RegisteQuestionLater(c) ==  \* fault
  /\ Goto(c, "inserted", "asked")
  /\ UNCHANGED <<pool, users, questions, given>>

\* The question belongs to the tid of the counter, whatever the body names.
RegisteQuestion(c) ==
  /\ Goto(c, "inserted", "asked")
  /\ questions' = questions \cup {[id |-> c, uid |-> reg[c].tid]}
  /\ UNCHANGED <<pool, users, given>>

\* INCRBY 1: whatever the counter has become since it was read.
PoolKept(c) == pool  \* fault
PoolSetToTid(c) == reg[c].tid  \* fault
PoolAfter(c) == pool + 1

RegisteIncr(c) ==
  /\ Goto(c, "asked", "counted")
  /\ pool' = PoolAfter(c)
  /\ UNCHANGED <<users, questions, given>>

\* The answer of INCRBY: the call returns the tid of the counter.
RegisteReturn(c) ==
  /\ Goto(c, "counted", "done")
  /\ UNCHANGED <<pool, users, questions, given>>

\* A store rejects the operation, its answer is lost, or the process dies:
\* what was stored stays, and so does a counter that was incremented.
RegisteFail(c) ==
  /\ reg[c].at \in {"read", "checked", "inserted", "asked", "counted"}
  /\ reg' = [reg EXCEPT ![c].at = "failed"]
  /\ UNCHANGED <<pool, users, questions, given>>

\* PATCH /users/profile: findOneAndUpdate({tid}) of one user with that tid, by
\* whatever the body holds.  The password that it may hold is in Recovery.
UpdateProfileReplaces(u, e, b) ==  \* fault
  /\ users' = (users \ {u}) \cup {[id |-> u.id, email |-> e]}
  /\ given' = Given(u.id, b)
  /\ UNCHANGED <<pool, questions, reg>>

UpdateProfile(u, e, b) ==
  /\ users' = (users \ {u}) \cup {[u EXCEPT !.email = e, !.tid = Named(b, @)]}
  /\ given' = Given(u.id, b)
  /\ UNCHANGED <<pool, questions, reg>>

RegisteStep(c) ==
  \/ \E e \in Emails, b \in Body : RegisteRead(c, e, b)
  \/ RegisteCheck(c)
  \/ RegisteInsert(c)
  \/ RegisteQuestion(c)
  \/ RegisteIncr(c)
  \/ RegisteReturn(c)
  \/ RegisteFail(c)

Next ==
  \/ \E c \in Calls : RegisteStep(c)
  \/ \E u \in users, e \in Emails, b \in Body : UpdateProfile(u, e, b)

Spec == Init /\ [][Next]_vars

(***************************************************************************)
(* Properties                                                              *)
(***************************************************************************)

\* Every variable has its type.
TypeOK ==
  /\ pool \in Nat
  /\ users \subseteq User
  /\ questions \subseteq Question
  /\ reg \in [Calls -> Call]
  /\ given \in [Calls -> SUBSET BodyTids]

\* The counter of AccountService loses no registration and invents none: it
\* counts all that have returned, and nobody who has no question stored,
\* however their steps interleave, fail or lose the answer of INCRBY.
PoolCountsRegistrations ==
  /\ Cardinality({c \in Calls : reg[c].at = "done"}) <= pool
  /\ pool <= Cardinality(questions)

\* A registration that begins when another has returned gets a larger tid: two
\* registrations get one tid only if they overlap or one has failed.
LaterTidIsLarger ==
  [][\A c, d \in Calls :
       reg[c] = Idle /\ reg'[c] # Idle /\ reg[d].at = "done"
         => reg'[c].tid > reg[d].tid]_vars

\* An account that was returned can be recovered: its question is stored under
\* the tid that registe returned, and its user too, unless a body has named the
\* tid that the user is stored under.
RegisteredIsComplete ==
  \A c \in Calls : reg[c].at = "done" =>
    /\ \E u \in users : u.id = c /\ u.tid \in given[c] \cup {reg[c].tid}
    /\ \E q \in questions : q.id = c /\ q.uid = reg[c].tid
=============================================================================
