------------------------------ MODULE Recovery ------------------------------
(***************************************************************************)
(* What registrations leave for those who come back: the question of an    *)
(* account (getQuestion), its answer (checkAnswer), a new password for it  *)
(* (forgetPassword), and its profile, which may also be changed.  All of   *)
(* them look for a tid, which accounts may share, and take the document    *)
(* that findOne comes upon; what a client sends in the place of a tid is   *)
(* text or a number, and mongoose casts it to the type of the field.       *)
(* The question, the answer and the first password of an account are named *)
(* by the call that registered it.                                         *)
(***************************************************************************)
EXTENDS Registration

CONSTANTS
  Recoveries,  \* calls of PATCH /account/forget, each made at most once
  EmptyText,   \* the text "{}" in the place of an answer
  None,        \* no document
  Patched      \* a password that PATCH /users/profile has set

ASSUME RecoveryAssumption ==
  /\ Recoveries \cap Calls = {} /\ Patched \notin Calls \cup Recoveries
  /\ EmptyText \notin Calls /\ None \notin Calls /\ EmptyText # None

VARIABLES
  setBy,       \* MongoDB: the call that chose the password of each user
  rec,         \* state of each call
  seen         \* history: the users whose email registe has found to be another,
               \* until the email of either is changed

xvars == <<vars, setBy, rec, seen>>

\* What a client may send in the place of a tid: a number or its text, from
\* which the schemas of users and questions make the number, or anything else,
\* on which every query ends with a CastError.
CastNumbersOnly(s) == IF s.as = "number" THEN s.of ELSE NoTid  \* fault
Sent == [as : {"number", "text"}, of : Nat] \cup {[as |-> "other"]}
Cast(s) == IF s.as = "other" THEN NoTid ELSE s.of

\* tid is the number that was cast; finished is history: the registrations
\* that had returned when the call began.
Recovery ==
  {Idle} \cup [at : {"matched", "done", "failed", "cut"}, tid : Nat \cup {NoTid},
               answer : Calls \cup {EmptyText}, finished : SUBSET Calls]

XInit ==
  /\ Init
  /\ setBy = [c \in Calls |-> c]
  /\ rec = [v \in Recoveries |-> Idle]
  /\ seen = [c \in Calls |-> {}]

Finished == {c \in Calls : reg[c].at = "done"}
KnownTids == {reg[c].tid : c \in {d \in Calls : reg[d] # Idle}} \cup BodyTids
Sendable == [as : {"number", "text"}, of : KnownTids] \cup {[as |-> "other"]}

\* findOne: some document that matches, or null.
FindOne(ids) == IF ids = {} THEN {None} ELSE ids
QuestionOf(t) == {q.id : q \in {r \in questions : r.uid = t}}
UserOfAny(t) == {u.id : u \in users}  \* fault
UserOf(t) == {u.id : u \in {w \in users : w.tid = t}}

(***************************************************************************)
(* What the calls that only read may answer with                           *)
(***************************************************************************)
\* None stands for a failure: getQuestion reads a field of null.
GetQuestion(s) == FindOne(QuestionOf(Cast(s)))

\* ANSWER_ERROR when the answer is not that of the question, which is named by
\* its _id; reading a field of null when it is not a question of that tid.
CheckAnswer(s, q, a) == q \in QuestionOf(Cast(s)) /\ q = a

\* NOT_FIND_USER when there is none.
Profile(s) == FindOne(UserOf(Cast(s)))

(***************************************************************************)
(* AccountService.forgetPassword                                           *)
(***************************************************************************)
\* ANSWER_ERROR unless the answer is that of the question that was found, or
\* none was and the answer is what stands in for it.
Matches(q, a) == IF q = None THEN a = EmptyText ELSE a = q

ForgetMatch(v, s, a) ==
  /\ rec[v] = Idle
  /\ \E q \in FindOne(QuestionOf(Cast(s))) :
       rec' = [rec EXCEPT ![v] =
         [at |-> IF Cast(s) # NoTid /\ Matches(q, a) THEN "matched" ELSE "failed",
          tid |-> Cast(s), answer |-> a, finished |-> Finished]]
  /\ UNCHANGED <<vars, setBy, seen>>

\* findOneAndUpdate({tid}); the deletion of the token is in Sessions.
ForgetUpdate(v) ==
  /\ rec[v].at = "matched"
  /\ \E u \in FindOne(UserOf(rec[v].tid)) :
       setBy' = [c \in Calls |-> IF c = u THEN v ELSE setBy[c]]
  /\ rec' = [rec EXCEPT ![v].at = "done"]
  /\ UNCHANGED <<vars, seen>>

\* MongoDB rejects the update, or the process dies.
ForgetCut(v) ==
  /\ rec[v].at = "matched"
  /\ rec' = [rec EXCEPT ![v].at = "cut"]
  /\ UNCHANGED <<vars, setBy, seen>>

\* A step of registe, with what it adds to the history.
Register(c) ==
  /\ RegisteStep(c)
  /\ seen' = IF reg[c].at = "read" /\ reg'[c].at = "checked"
               THEN [seen EXCEPT ![c] = {u.id : u \in users}] ELSE seen
  /\ UNCHANGED <<setBy, rec>>

\* A body may hold a password, too, which is stored as it is.
Patch(u, e, b) ==
  /\ UpdateProfile(u, e, b)
  /\ setBy' \in {setBy, [setBy EXCEPT ![u.id] = Patched]}
  /\ seen' = IF e = u.email THEN seen
             ELSE [c \in Calls |-> IF c = u.id THEN {} ELSE seen[c] \ {u.id}]
  /\ UNCHANGED rec

XNext ==
  \/ \E c \in Calls : Register(c)
  \/ \E u \in users, e \in Emails, b \in Body : Patch(u, e, b)
  \/ \E v \in Recoveries :
       \/ \E s \in Sendable, a \in Calls \cup {EmptyText} : ForgetMatch(v, s, a)
       \/ ForgetUpdate(v) \/ ForgetCut(v)

XSpec == XInit /\ [][XNext]_xvars

(***************************************************************************)
(* Properties                                                              *)
(***************************************************************************)

\* Every variable has its type, those of Registration included.
RecoveryTypeOK ==
  /\ TypeOK
  /\ setBy \in [Calls -> Calls \cup Recoveries \cup {Patched}]
  /\ rec \in [Recoveries -> Recovery]
  /\ seen \in [Calls -> SUBSET Calls]

\* Another registration has the same tid: by LaterTidIsLarger they overlap, or
\* one of them has failed.
Shared(c) == \E d \in Calls \ {c} : reg[d] # Idle /\ reg[d].tid = reg[c].tid

\* No body has named a tid for this user, nor the tid of this user for another.
Undisturbed(c) == given[c] = {} /\ \A d \in Calls : reg[c].tid \notin given[d]

\* Whoever has been registered is asked their own question and has their own
\* answer accepted and no other, unless they share their tid; and sees their own
\* profile, unless bodies have named tids besides.  A tid may be sent as a
\* number or as text.
RecoveryFailsOnlyIfShared ==
  \A c \in Finished, as \in {"number", "text"} :
    LET s == [as |-> as, of |-> reg[c].tid]
    IN  ~Shared(c) =>
          /\ GetQuestion(s) = {c}
          /\ \A q, a \in Calls : CheckAnswer(s, q, a) <=> q = c /\ a = c
          /\ Undisturbed(c) => Profile(s) = {c}

\* Nobody gets a new password for an account that was registered when they
\* began without its answer, unless the account shares its tid or a body has
\* given it another.
PasswordOnlyByOwnAnswer ==
  \A c \in Calls, v \in Recoveries :
    setBy[c] = v /\ c \in rec[v].finished /\ ~Shared(c) /\ given[c] = {}
      => rec[v].answer = c

\* Two users have one email only if registe has compared neither with the
\* other since they have it: if they were registered at the same time, or a
\* profile was changed.
EmailTwiceOnlyByOverlap ==
  \A u, w \in users :
    u # w /\ u.email = w.email => u.id \notin seen[w.id] /\ w.id \notin seen[u.id]
=============================================================================
