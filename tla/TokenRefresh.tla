---------------------------- MODULE TokenRefresh ----------------------------
(***************************************************************************)
(* The RPC account.refresh beside the calls of Sessions.  It decodes a     *)
(* refresh token, takes the access token in it, decodes that, and makes a  *)
(* new token for the field tid of what it finds.  createAccessToken signs  *)
(* the bare tid, which has no such field: the new tokens are written under *)
(* TOKEN:undefined and TOKEN:REFRESH:undefined, if they can be signed.  A  *)
(* call that fails goes back to its queue.                                 *)
(***************************************************************************)
EXTENDS Sessions

CONSTANTS
  Renewals,    \* calls of account.refresh
  Undefined    \* JavaScript's undefined

ASSUME RenewalAssumption ==
  /\ Undefined \notin Tids
  /\ Renewals \cap (Logins \cup {NoToken, Lifetime}) = {}

VARIABLES
  orphan,      \* Redis: TOKEN:undefined and TOKEN:REFRESH:undefined; a token is
               \* named by the call that made it
  renewal      \* state of each call

rvars == <<vars, orphan, renewal>>

RInit ==
  /\ Init
  /\ orphan = [access |-> NoToken, refresh |-> NoToken]
  /\ renewal = [r \in Renewals |-> Idle]

\* What jwt.decode finds under tid in the access token of a login.
DecodeTidField(c) == login[c].tid  \* fault
DecodeTid(c) == Undefined

\* The two keys of a tid.
Stored(tid, kind) ==
  IF tid = Undefined THEN orphan[kind]
  ELSE IF kind = "access" THEN token[tid] ELSE refresh[tid]

Write(tid, kind, value) ==
  IF tid = Undefined
    THEN /\ orphan' = [orphan EXCEPT ![kind] = value]
         /\ UNCHANGED <<token, refresh>>
    ELSE /\ token' = IF kind = "access" THEN [token EXCEPT ![tid] = value] ELSE token
         /\ refresh' = IF kind = "refresh" THEN [refresh EXCEPT ![tid] = value]
                                           ELSE refresh
         /\ UNCHANGED orphan

RenewalGoto(r, from, to) ==
  /\ renewal[r].at = from
  /\ renewal' = [renewal EXCEPT ![r].at = to]

\* Somebody has the refresh token of a login, from Redis: login gives it to
\* nobody.  It decodes to the same tid whenever the message is delivered.
RenewSend(r, c) ==
  /\ renewal[r] = Idle /\ login[c].at \in {"stored", "done"}
  /\ renewal' = [renewal EXCEPT ![r] = [at |-> "queued", tid |-> DecodeTid(c)]]
  /\ UNCHANGED <<vars, orphan>>

\* An access token that is genuine will do, be its time over or not.
RenewSet(r) ==
  /\ RenewalGoto(r, "queued", "set")
  /\ Write(renewal[r].tid, "access", r)
  /\ UNCHANGED <<password, login, edit, raced>>

\* The caller says whether it wants a new refresh token, too.
RenewSetNx(r) ==
  /\ RenewalGoto(r, "set", "renewing") \/ RenewalGoto(r, "set", "done")
  /\ LET t == renewal[r].tid
     IN  Write(t, "access", SetNx(Stored(t, "access"), Lifetime))
  /\ UNCHANGED <<password, login, edit, raced>>

\* createRefreshToken, which refresh does await.
RenewRefreshSet(r) ==
  /\ RenewalGoto(r, "renewing", "stored")
  /\ Write(renewal[r].tid, "refresh", r)
  /\ UNCHANGED <<password, login, edit, raced>>

RenewRefreshSetNx(r) ==
  /\ RenewalGoto(r, "stored", "done")
  /\ LET t == renewal[r].tid
     IN  Write(t, "refresh", SetNx(Stored(t, "refresh"), Lifetime))
  /\ UNCHANGED <<password, login, edit, raced>>

\* FAIL_TOKEN_INVALIDATE when the token is not genuine; signing undefined
\* throws; Redis rejects a command; the process dies: delivered again.
RenewFail(r) ==
  /\ renewal[r].at \in {"set", "renewing", "stored"}
  /\ renewal' = [renewal EXCEPT ![r].at = "queued"]
  /\ UNCHANGED <<vars, orphan>>

RenewStep(r) ==
  \/ \E c \in Logins : RenewSend(r, c)
  \/ RenewSet(r) \/ RenewSetNx(r)
  \/ RenewRefreshSet(r) \/ RenewRefreshSetNx(r)
  \/ RenewFail(r)

RNext ==
  \/ Next /\ UNCHANGED <<orphan, renewal>>
  \/ \E r \in Renewals : RenewStep(r)

RSpec == RInit /\ [][RNext]_rvars

(***************************************************************************)
(* Properties                                                              *)
(***************************************************************************)

\* A refresh refreshes nothing: every step of the system is one that it can do
\* without refresh, or changes no password, no session and no login.
RefreshMovesNoSession == [][Next]_vars
=============================================================================
