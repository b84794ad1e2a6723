------------------------------ MODULE Sessions ------------------------------
(***************************************************************************)
(* Logging in, changing a password and recovering a forgotten one: the     *)
(* passwords AccountService keeps in MongoDB and the tokens it keeps in    *)
(* Redis under TOKEN:<tid> and TOKEN:REFRESH:<tid>.                        *)
(*                                                                         *)
(* login answers while the refresh token is still being made: createToken  *)
(* does not await createRefreshToken, so its caller gets a promise and no  *)
(* refresh token, and nobody can call refresh.  Signing touches no store:  *)
(* it belongs to the step that stores the token, and may fail.             *)
(***************************************************************************)
EXTENDS Naturals, FiniteSets

CONSTANTS
  Tids,        \* the accounts
  Passwords,   \* what users type as a password, be it a digest
  Hash,        \* Hash[p]: the sha256 digest of p, as text
  Logins,      \* calls of GET /account/login, each made at most once
  Forgets,     \* calls of PATCH /account/forget
  Changes,     \* calls of PATCH /account/password
  NoToken,     \* a missing key
  Lifetime     \* the number of milliseconds a token lives

ASSUME TokenAssumption ==
  /\ NoToken \notin Logins /\ Lifetime \notin Logins /\ NoToken # Lifetime
  /\ Forgets \cap Changes = {}

VARIABLES
  password,    \* MongoDB: the password field of each user
  token,       \* Redis: TOKEN:<tid>; a token is named by the login it is from
  refresh,     \* Redis: TOKEN:REFRESH:<tid>, likewise
  login,       \* state of each login, its work after the answer included
  edit,        \* state of each call that sets a password
  raced        \* history: the logins that were under way, having found their
               \* account, when a call deleted its token

vars == <<password, token, refresh, login, edit, raced>>

Idle == [at |-> "idle"]
LoginAt == {"found", "set", "answered", "stored", "done", "failed", "lost"}
EditAt == {"checked", "updated", "done", "failed", "cut"}
Edits == Forgets \cup Changes
Digests == {Hash[p] : p \in Passwords}
Values == Logins \cup {NoToken, Lifetime}
LoginCall == {Idle} \cup [at : LoginAt, tid : Tids, pwd : Passwords]
EditCall == {Idle} \cup [at : EditAt, tid : Tids, new : Passwords]

Init ==
  /\ password \in [Tids -> Digests]
  /\ token = [t \in Tids |-> NoToken]
  /\ refresh = [t \in Tids |-> NoToken]
  /\ login = [c \in Logins |-> Idle]
  /\ edit = [c \in Edits |-> Idle]
  /\ raced = {}

LoginGoto(c, from, to) ==
  /\ login[c].at = from
  /\ login' = [login EXCEPT ![c].at = to]

EditGoto(c, from, to) ==
  /\ edit[c].at = from
  /\ edit' = [edit EXCEPT ![c].at = to]

\* The code means SETNX to give the key a lifetime; it stores the lifetime,
\* in a key that is missing.
SetNxOverwrites(value, x) == x  \* fault
SetNx(value, x) == IF value = NoToken THEN x ELSE value

(***************************************************************************)
(* GET /account/login                                                      *)
(***************************************************************************)
\* TID_OR_PASSWORD_ERROR when no user has this tid and this password.
LoginFind(c, t, p) ==
  /\ login[c] = Idle
  /\ login' = [login EXCEPT ![c] =
       [at |-> IF password[t] = Hash[p] THEN "found" ELSE "failed",
        tid |-> t, pwd |-> p]]
  /\ UNCHANGED <<password, token, refresh, edit, raced>>

LoginSet(c) ==
  /\ LoginGoto(c, "found", "set")
  /\ token' = [token EXCEPT ![login[c].tid] = c]
  /\ UNCHANGED <<password, refresh, edit, raced>>

LoginSetNx(c) ==
  /\ LoginGoto(c, "set", "answered")
  /\ token' = [token EXCEPT ![login[c].tid] = SetNx(@, Lifetime)]
  /\ UNCHANGED <<password, refresh, edit, raced>>

\* createRefreshToken, which runs on when the login has been answered.
RefreshSetAccess(c) ==  \* fault
  /\ LoginGoto(c, "answered", "stored")
  /\ token' = [token EXCEPT ![login[c].tid] = c]
  /\ UNCHANGED <<password, refresh, edit, raced>>

RefreshSet(c) ==
  /\ LoginGoto(c, "answered", "stored")
  /\ refresh' = [refresh EXCEPT ![login[c].tid] = c]
  /\ UNCHANGED <<password, token, edit, raced>>

RefreshSetNx(c) ==
  /\ LoginGoto(c, "stored", "done")
  /\ refresh' = [refresh EXCEPT ![login[c].tid] = SetNx(@, Lifetime)]
  /\ UNCHANGED <<password, token, edit, raced>>

\* Signing throws, Redis rejects a command or the process dies: the call is
\* answered with an error, or what it does after its answer is lost.
LoginFail(c) ==
  /\ \/ LoginGoto(c, "found", "failed") \/ LoginGoto(c, "set", "failed")
     \/ LoginGoto(c, "answered", "lost") \/ LoginGoto(c, "stored", "lost")
  /\ UNCHANGED <<password, token, refresh, edit, raced>>

\* account.alive: any value of the key will do.
Alive(t) == token[t] # NoToken

(***************************************************************************)
(* PATCH /account/forget and PATCH /account/password                       *)
(***************************************************************************)
UnderWay(t) == {c \in Logins : login[c].at \in {"found", "set"} /\ login[c].tid = t}

\* Both calls end with the deletion of TOKEN:<tid>.
DropOther(t) ==  \* fault
  /\ refresh' = [refresh EXCEPT ![t] = NoToken]
  /\ UNCHANGED token

Drop(t) ==
  /\ token' = [token EXCEPT ![t] = NoToken]
  /\ UNCHANGED refresh

EditDel(c) ==
  /\ EditGoto(c, "updated", "done")
  /\ Drop(edit[c].tid)
  /\ raced' = raced \cup UnderWay(edit[c].tid)
  /\ UNCHANGED <<password, login>>

\* forgetPassword: ANSWER_ERROR unless the answer is the one on record.
ForgetCheck(c, t, right, n) ==
  /\ edit[c] = Idle
  /\ edit' = [edit EXCEPT ![c] =
       [at |-> IF right THEN "checked" ELSE "failed", tid |-> t, new |-> n]]
  /\ UNCHANGED <<password, token, refresh, login, raced>>

ForgetUpdateRaw(c) ==  \* fault
  /\ EditGoto(c, "checked", "updated")
  /\ password' = [password EXCEPT ![edit[c].tid] = edit[c].new]
  /\ UNCHANGED <<token, refresh, login, raced>>

ForgetUpdate(c) ==
  /\ EditGoto(c, "checked", "updated")
  /\ password' = [password EXCEPT ![edit[c].tid] = Hash[edit[c].new]]
  /\ UNCHANGED <<token, refresh, login, raced>>

\* changePassWord looks for the user whose stored digest is the old password
\* as typed; it goes on whether there is one or not.
ChangeUpdate(c, t, old, n) ==
  /\ edit[c] = Idle
  /\ edit' = [edit EXCEPT ![c] = [at |-> "updated", tid |-> t, new |-> n]]
  /\ password' = IF password[t] = old THEN [password EXCEPT ![t] = Hash[n]]
                                      ELSE password
  /\ UNCHANGED <<token, refresh, login, raced>>

\* A store rejects the operation or the process dies; a password that has
\* been set stays, and the token with it.
EditFail(c) ==
  /\ EditGoto(c, "checked", "failed") \/ EditGoto(c, "updated", "cut")
  /\ UNCHANGED <<password, token, refresh, login, raced>>

(***************************************************************************)
(* The system                                                              *)
(***************************************************************************)
LoginStep(c) ==
  \/ \E t \in Tids, p \in Passwords : LoginFind(c, t, p)
  \/ LoginSet(c)
  \/ LoginSetNx(c)
  \/ RefreshSet(c)
  \/ RefreshSetNx(c)
  \/ LoginFail(c)

ForgetStep(c) ==
  \/ \E t \in Tids, right \in BOOLEAN, n \in Passwords : ForgetCheck(c, t, right, n)
  \/ ForgetUpdate(c)

Next ==
  \/ \E c \in Logins : LoginStep(c)
  \/ \E c \in Forgets : ForgetStep(c)
  \/ \E c \in Changes, t \in Tids, old, n \in Passwords : ChangeUpdate(c, t, old, n)
  \/ \E c \in Edits : EditDel(c) \/ EditFail(c)

Spec == Init /\ [][Next]_vars

(***************************************************************************)
(* Properties                                                              *)
(***************************************************************************)

\* Every variable has its type; a password is stored as its digest.
TypeOK ==
  /\ password \in [Tids -> Digests]
  /\ token \in [Tids -> Values]
  /\ refresh \in [Tids -> Values]
  /\ login \in [Logins -> LoginCall]
  /\ edit \in [Edits -> EditCall]
  /\ raced \subseteq Logins

\* A token outlives the password it was given for only if its login was under
\* way while the token was deleted, or if the call that set the password has
\* not got to that deletion yet, or never will.
StaleOnlyByRace ==
  \A t \in Tids :
    token[t] \in Logins /\ Hash[login[token[t]].pwd] # password[t]
      => \/ token[t] \in raced
         \/ \E c \in Edits : edit[c].at \in {"updated", "cut"} /\ edit[c].tid = t

\* alive says that somebody is logged in where there is no token but a bare
\* number only if a deletion came between the SET and the SETNX of one login
\* of that account.
NumberOnlyByRace ==
  \A t \in Tids :
    Alive(t) /\ token[t] \notin Logins => \E c \in raced : login[c].tid = t

\* The key of the refresh token never is a bare number: nothing deletes it,
\* so its SETNX always finds what its SET has stored.
RefreshIsToken == \A t \in Tids : refresh[t] # Lifetime

\* A session that is over stays over: once a login has been answered and its
\* token was deleted or replaced, no step of it brings the token back.
ClosedStaysClosed ==
  [][\A c \in Logins, t \in Tids :
       login[c].at \notin {"idle", "found"} /\ token[t] # c => token'[t] # c]_vars
=============================================================================
