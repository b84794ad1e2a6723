-------------------------------- MODULE Http --------------------------------
(***************************************************************************)
(* What happens to an HTTP request around its service: the routes of the   *)
(* controllers, AuthGuard with JwtService, the decorator Tid, the outcome  *)
(* of the service, and how an exception is answered: by HttpExceptionFilter*)
(* if the application installs it, as the end-to-end test does and main.ts *)
(* does not, or by the filter of Nest.  What the services do is in the     *)
(* other modules; here they end well or throw.                             *)
(***************************************************************************)
EXTENDS Naturals, FiniteSets

CONSTANTS
  Calls,       \* HTTP requests, each sent at most once
  Served(_),   \* bound: the routes that a call may be for
  Tids,        \* account ids
  Nobody,      \* undefined, where a tid or a user should be
  NoHeader,    \* no Authorization header
  NoToken      \* a header without a token

ASSUME NobodyAssumption == Nobody \notin Tids

VARIABLES
  filter,      \* whether HttpExceptionFilter is installed
  expired,     \* tokens whose time is over
  call         \* state of each call

vars == <<filter, expired, call>>

(***************************************************************************)
(* The routes                                                              *)
(***************************************************************************)
\* throws: the codes of the service errors it may end with, 500 when the code
\* names none.
Route(method, path, guarded, tid, throws) ==
  [method |-> method, path |-> path, guarded |-> guarded, tid |-> tid,
   throws |-> throws]

AccountRoutes ==
  {Route("GET", "account/login", FALSE, FALSE, {400}),
   Route("POST", "account/register", FALSE, FALSE, {400}),
   Route("GET", "account/question", FALSE, FALSE, {}),
   Route("GET", "account/check/answer", FALSE, FALSE, {400}),
   Route("PATCH", "account/password", FALSE, FALSE, {}),
   Route("PATCH", "account/forget", FALSE, FALSE, {400})}

UsersRoutes ==
  {Route("GET", "users/profile", TRUE, FALSE, {400}),
   Route("PATCH", "users/profile", TRUE, TRUE, {})}

FriendsRoutes ==
  {Route("GET", "friends", TRUE, TRUE, {}),
   Route("PATCH", "friends/tag", TRUE, TRUE, {400}),
   Route("PUT", "friends", TRUE, TRUE, {400}),
   Route("DELETE", "friends", TRUE, TRUE, {400}),
   Route("PUT", "friends/block", TRUE, TRUE, {500}),
   Route("DELETE", "friends/block", TRUE, TRUE, {500})}

RequestRoutes ==
  {Route("GET", "request", TRUE, TRUE, {400}),
   Route("PUT", "request/accept", TRUE, TRUE, {400}),
   Route("DELETE", "request/refuse", TRUE, TRUE, {400})}

NoticeRoutesGuarded == {Route("GET", "notices", TRUE, TRUE, {})}  \* fault
NoticeRoutes == {Route("GET", "notices", FALSE, TRUE, {})}

\* The routes of BlackListController are commented out.
BlackListRoutes == {}

Routes == UNION {AccountRoutes, UsersRoutes, FriendsRoutes, RequestRoutes,
                 NoticeRoutes, BlackListRoutes}

ASSUME ServedAssumption == \A c \in Calls : Served(c) \subseteq Routes

(***************************************************************************)
(* Tokens                                                                  *)
(***************************************************************************)
\* createAccessToken signs a bare tid, createRefreshToken an object with an
\* access token, JwtService.sign a user; a foreign one has another signature.
Token == [kind : {"access", "refresh", "user", "foreign"}, holder : Tids]

\* The field tid of what a token decodes to.
TidOf(k) == IF k.kind \in {"user", "foreign"} THEN k.holder ELSE Nobody

Verify(k) == k.kind # "foreign" /\ k \notin expired

\* The Authorization header: missing, without a token, or with one.
Header == {NoHeader, NoToken} \cup Token

(***************************************************************************)
(* Calls                                                                   *)
(***************************************************************************)
Idle == [at |-> "idle"]
At == {"sent", "verified", "admitted", "ran", "thrown", "answered"}

\* What was thrown: a service error with its code, an exception of Nest for a
\* body it cannot parse or a call that the guard turns away, or anything else.
Thrown == [by : {"service"}, code : {400, 500}] \cup [by : {"nest"}, code : {400, 403}]
            \cup [by : {"other"}, code : {500}]
NotThrown == [by |-> "nobody", code |-> 200]

Status == {200, 201, 400, 403, 500}
Request ==
  [at : At, route : Routes, header : Header,
   valid : BOOLEAN,             \* history: when the call was sent
   user : Token \cup {Nobody},  \* what the guard has set
   tid : Tids \cup {Nobody},    \* what the handler was given
   out : Thrown \cup {NotThrown}, status : Status]
Call == {Idle} \cup Request

Init ==
  /\ filter \in BOOLEAN
  /\ expired = {}
  /\ call = [c \in Calls |-> Idle]

Expire(k) ==
  /\ Verify(k)
  /\ expired' = expired \cup {k}
  /\ UNCHANGED <<filter, call>>

Sent(r, h) ==
  [at |-> IF r.guarded THEN "sent" ELSE "admitted",
   route |-> r, header |-> h, valid |-> h \in Token /\ Verify(h),
   user |-> Nobody, tid |-> Nobody, out |-> NotThrown, status |-> 200]

Send(c, r, h) ==
  /\ call[c] = Idle
  /\ call' = [call EXCEPT ![c] = Sent(r, h)]
  /\ UNCHANGED <<filter, expired>>

\* A body that is no JSON fails in Nest's body parser, before the guard.
SendMalformed(c, r, h) ==
  /\ call[c] = Idle
  /\ call' = [call EXCEPT ![c] = [Sent(r, h) EXCEPT
       !.at = "thrown", !.out = [by |-> "nest", code |-> 400]]]
  /\ UNCHANGED <<filter, expired>>

Throw(c, by, code) ==
  call' = [call EXCEPT ![c] =
             [@ EXCEPT !.at = "thrown", !.out = [by |-> by, code |-> code]]]

\* AuthGuard.canActivate reads the header before its try block: a call without
\* one ends with a TypeError.  FALSE becomes Nest's ForbiddenException.
GuardOnlyDecodes(c) ==  \* fault
  /\ call[c].at = "sent" /\ call[c].header \in Token
  /\ call' = [call EXCEPT ![c].at = "verified"]
  /\ UNCHANGED <<filter, expired>>

GuardVerify(c) ==
  /\ call[c].at = "sent"
  /\ LET h == call[c].header
     IN  IF h = NoHeader THEN Throw(c, "other", 500)
         ELSE IF h \in Token /\ Verify(h) THEN call' = [call EXCEPT ![c].at = "verified"]
         ELSE Throw(c, "nest", 403)
  /\ UNCHANGED <<filter, expired>>

\* decode comes after an await, and asks neither for signature nor time.
GuardDecode(c) ==
  /\ call[c].at = "verified"
  /\ call' = [call EXCEPT ![c].at = "admitted", ![c].user = call[c].header]
  /\ UNCHANGED <<filter, expired>>

\* The decorator Tid reads a field of the user, when there is one.
Handle(c) ==
  /\ call[c].at = "admitted"
  /\ IF ~call[c].route.tid THEN call' = [call EXCEPT ![c].at = "ran"]
     ELSE IF call[c].user = Nobody THEN Throw(c, "other", 500)
     ELSE call' = [call EXCEPT ![c].at = "ran", ![c].tid = TidOf(call[c].user)]
  /\ UNCHANGED <<filter, expired>>

ServiceThrows(c) ==
  /\ call[c].at = "ran"
  /\ \/ \E code \in call[c].route.throws : Throw(c, "service", code)
     \/ Throw(c, "other", 500)
  /\ UNCHANGED <<filter, expired>>

\* No interceptor is installed: the result goes out as it is.
Return(c) ==
  /\ call[c].at = "ran"
  /\ call' = [call EXCEPT ![c].at = "answered",
       ![c].status = IF call[c].route.method = "POST" THEN 201 ELSE 200]
  /\ UNCHANGED <<filter, expired>>

\* HttpExceptionFilter knows service errors only.
FilterStatus(out) == IF out.by = "service" THEN out.code ELSE 500

\* Nest knows its own exceptions only.
NestStatus(out) == IF out.by = "nest" THEN out.code ELSE 500

AnswerThrown(c) ==
  /\ call[c].at = "thrown"
  /\ call' = [call EXCEPT ![c].at = "answered",
       ![c].status = IF filter THEN FilterStatus(call[c].out)
                               ELSE NestStatus(call[c].out)]
  /\ UNCHANGED <<filter, expired>>

Next ==
  \/ \E k \in Token : Expire(k)
  \/ \E c \in Calls :
       \/ \E r \in Served(c), h \in Header : Send(c, r, h) \/ SendMalformed(c, r, h)
       \/ GuardVerify(c) \/ GuardDecode(c) \/ Handle(c)
       \/ ServiceThrows(c) \/ Return(c) \/ AnswerThrown(c)

Spec == Init /\ [][Next]_vars

(***************************************************************************)
(* Properties                                                              *)
(***************************************************************************)

\* Every variable has its type.
TypeOK ==
  /\ filter \in BOOLEAN
  /\ expired \subseteq Token
  /\ call \in [Calls -> Call]

\* The handler of a guarded route runs only for a call that came with a token
\* that was genuine and in time then, whatever expires while the call waits
\* between verify and decode.
AdmittedWasValid ==
  \A c \in Calls :
    /\ call[c] # Idle
    /\ call[c].route.guarded /\ call[c].at \in {"admitted", "ran", "answered"}
    /\ call[c].out.by \in {"nobody", "service"}
    => call[c].valid

\* GET /notices asks for the user that only the guard sets, and has no guard:
\* nobody gets a notice, whatever token the call has.
NoticesAreNeverServed ==
  \A c \in Calls :
    call[c] # Idle /\ call[c].at = "answered" /\ call[c].route.path = "notices"
      => call[c].status >= 400

\* The end-to-end test uses the tokens of its logins for the profile, friends
\* and requests of who logged in: a handler that asks for the tid of its caller
\* is given the tid that the access token of the call was made for.
LoginIdentifiesItsUser ==
  \A c \in Calls :
    /\ call[c] # Idle /\ call[c].at = "ran" /\ call[c].route.tid
    /\ call[c].header \in Token /\ call[c].header.kind = "access"
    => call[c].tid = call[c].header.holder
=============================================================================
