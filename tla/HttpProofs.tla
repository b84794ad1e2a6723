----------------------------- MODULE HttpProofs -----------------------------
(***************************************************************************)
(* Proofs about Http, for any set of calls, of account ids and of routes   *)
(* that each call may be for.                                              *)
(***************************************************************************)
EXTENDS Http, TLAPS

(***************************************************************************)
(* The invariant                                                           *)
(***************************************************************************)
\* What a call has gone through, wherever it stands now.
PathInv(a) ==
  /\ a.at = "sent" => a.route.guarded /\ a.out = NotThrown
  /\ a.at = "verified" =>
       a.route.guarded /\ a.header \in Token /\ a.header.kind # "foreign"
  /\ a.at \in {"verified", "admitted", "ran"} => a.out = NotThrown
  /\ a.at = "thrown" => a.out # NotThrown

\* A token that is valid was so when its call was sent; a guarded call past the
\* guard had a valid one.
ValidInv(a) ==
  /\ a.at = "sent" /\ a.header \in Token /\ Verify(a.header) => a.valid
  /\ a.route.guarded /\ a.at \in {"verified", "admitted", "ran"} => a.valid
  /\ /\ a.route.guarded /\ a.at \in {"thrown", "answered"}
     /\ a.out.by \in {"nobody", "service"}
     => a.valid

\* The user is what the header's token says, the guard lets no foreign one
\* through, and unguarded calls have no user; a tid comes from a user's token.
UserInv(a) ==
  /\ a.user # Nobody => a.user = a.header /\ a.user.kind # "foreign"
  /\ ~a.route.guarded \/ a.at \in {"sent", "verified"} => a.user = Nobody
  /\ a.tid # Nobody =>
       a.user # Nobody /\ a.user.kind = "user" /\ a.tid = a.user.holder

\* A call for notices ends in the decorator.
NoticeInv(a) ==
  a.route.path = "notices" =>
    /\ a.at # "ran"
    /\ a.at = "thrown" => a.out # NotThrown /\ a.out.code >= 400
    /\ a.at = "answered" => a.status >= 400

HInv ==
  /\ TypeOK
  /\ \A c \in Calls :
       call[c] # Idle =>
         /\ PathInv(call[c]) /\ ValidInv(call[c]) /\ UserInv(call[c])
         /\ NoticeInv(call[c])

(***************************************************************************)
(* Lemmas                                                                  *)
(***************************************************************************)
\* Well formed, and for the path of the notices without a guard and with a tid.
WellFormed(r) ==
  /\ r.guarded \in BOOLEAN /\ r.tid \in BOOLEAN /\ r.throws \subseteq {400, 500}
  /\ r.path = "notices" => ~r.guarded /\ r.tid

LEMMA RouteFacts == \A r \in Routes : WellFormed(r)
<1>1. \A r \in AccountRoutes : WellFormed(r)
  <2> DEFINE r1 == Route("GET", "account/login", FALSE, FALSE, {400})
             r2 == Route("POST", "account/register", FALSE, FALSE, {400})
             r3 == Route("GET", "account/question", FALSE, FALSE, {})
             r4 == Route("GET", "account/check/answer", FALSE, FALSE, {400})
             r5 == Route("PATCH", "account/password", FALSE, FALSE, {})
             r6 == Route("PATCH", "account/forget", FALSE, FALSE, {400})
  <2>1. WellFormed(r1) /\ WellFormed(r2) /\ WellFormed(r3)
        /\ WellFormed(r4) /\ WellFormed(r5) /\ WellFormed(r6)
    BY DEF Route, WellFormed
  <2>2. AccountRoutes = {r1, r2, r3, r4, r5, r6}
    BY DEF AccountRoutes
  <2> HIDE DEF r1, r2, r3, r4, r5, r6
  <2> QED
    BY <2>1, <2>2
<1>2. \A r \in UsersRoutes : WellFormed(r)
  <2> DEFINE r1 == Route("GET", "users/profile", TRUE, FALSE, {400})
             r2 == Route("PATCH", "users/profile", TRUE, TRUE, {})
  <2>1. WellFormed(r1) /\ WellFormed(r2)
    BY DEF Route, WellFormed
  <2>2. UsersRoutes = {r1, r2}
    BY DEF UsersRoutes
  <2> HIDE DEF r1, r2
  <2> QED
    BY <2>1, <2>2
<1>3. \A r \in FriendsRoutes : WellFormed(r)
  <2> DEFINE r1 == Route("GET", "friends", TRUE, TRUE, {})
             r2 == Route("PATCH", "friends/tag", TRUE, TRUE, {400})
             r3 == Route("PUT", "friends", TRUE, TRUE, {400})
             r4 == Route("DELETE", "friends", TRUE, TRUE, {400})
             r5 == Route("PUT", "friends/block", TRUE, TRUE, {500})
             r6 == Route("DELETE", "friends/block", TRUE, TRUE, {500})
  <2>1. WellFormed(r1) /\ WellFormed(r2) /\ WellFormed(r3)
        /\ WellFormed(r4) /\ WellFormed(r5) /\ WellFormed(r6)
    BY DEF Route, WellFormed
  <2>2. FriendsRoutes = {r1, r2, r3, r4, r5, r6}
    BY DEF FriendsRoutes
  <2> HIDE DEF r1, r2, r3, r4, r5, r6
  <2> QED
    BY <2>1, <2>2
<1>4. \A r \in RequestRoutes : WellFormed(r)
  <2> DEFINE r1 == Route("GET", "request", TRUE, TRUE, {400})
             r2 == Route("PUT", "request/accept", TRUE, TRUE, {400})
             r3 == Route("DELETE", "request/refuse", TRUE, TRUE, {400})
  <2>1. WellFormed(r1) /\ WellFormed(r2) /\ WellFormed(r3)
    BY DEF Route, WellFormed
  <2>2. RequestRoutes = {r1, r2, r3}
    BY DEF RequestRoutes
  <2> HIDE DEF r1, r2, r3
  <2> QED
    BY <2>1, <2>2
<1>5. \A r \in NoticeRoutes : WellFormed(r)
  <2> DEFINE r1 == Route("GET", "notices", FALSE, TRUE, {})
  <2>1. WellFormed(r1)
    BY DEF Route, WellFormed
  <2>2. NoticeRoutes = {r1}
    BY DEF NoticeRoutes
  <2> HIDE DEF r1
  <2> QED
    BY <2>1, <2>2
<1> QED
  BY <1>1, <1>2, <1>3, <1>4, <1>5 DEF Routes, BlackListRoutes

\* A step that changes one call may be judged by that call.
LEMMA OneCall ==
  ASSUME HInv, NEW c \in Calls, NEW a \in Request,
         call' = [call EXCEPT ![c] = a], UNCHANGED <<filter, expired>>,
         PathInv(a), ValidInv(a), UserInv(a), NoticeInv(a)
  PROVE  HInv'
<1>1. call' \in [Calls -> Call] /\ call'[c] = a
      /\ \A d \in Calls \ {c} : call'[d] = call[d]
  BY DEF HInv, TypeOK, Call
<1>2. TypeOK'
  BY <1>1 DEF HInv, TypeOK
<1>3. ASSUME NEW d \in Calls, call'[d] # Idle
      PROVE  /\ PathInv(call'[d]) /\ ValidInv(call'[d]) /\ UserInv(call'[d])
             /\ NoticeInv(call'[d])
  <2>1. CASE d = c
    BY <1>1, <2>1
  <2>2. CASE d # c
    BY <1>1, <1>3, <2>2 DEF HInv
  <2> QED
    BY <2>1, <2>2
<1> QED
  BY <1>2, <1>3 DEF HInv, PathInv, ValidInv, UserInv, NoticeInv, Verify, Idle

\* What a throw makes of a call.
LEMMA ThrowKeeps ==
  ASSUME HInv, NEW c \in Calls, call[c] \in Request,
         NEW by \in {"service", "nest", "other"}, NEW code \in Nat,
         [by |-> by, code |-> code] \in Thrown,
         Throw(c, by, code), UNCHANGED <<filter, expired>>,
         PathInv(call[c]), ValidInv(call[c]), UserInv(call[c]),
         call[c].at \in {"sent", "admitted", "ran"},
         by = "service" => call[c].at = "ran",
         call[c].route.path = "notices" => by = "other" /\ code = 500
  PROVE  HInv'
<1> DEFINE o == [by |-> by, code |-> code]
           a == [call[c] EXCEPT !.at = "thrown", !.out = o]
<1>1. call' = [call EXCEPT ![c] = a]
  BY DEF Throw, HInv, TypeOK
<1>2. a \in Request
  BY DEF Request, At
<1>3. /\ a.at = "thrown" /\ a.out = o /\ a.route = call[c].route /\ a.header = call[c].header
      /\ a.valid = call[c].valid /\ a.user = call[c].user /\ a.tid = call[c].tid
      /\ a.status = call[c].status
  BY DEF Request
<1>4. o.by = by /\ o.code = code /\ o # NotThrown
  BY DEF NotThrown
<1> HIDE DEF a, o
<1>5. PathInv(a) /\ NoticeInv(a)
  BY <1>3, <1>4 DEF PathInv, NoticeInv
<1>6. ValidInv(a)
  BY <1>3, <1>4 DEF ValidInv
<1>7. UserInv(a)
  BY <1>3 DEF UserInv
<1>8. UNCHANGED <<filter, expired>>
  OBVIOUS
<1> QED
  BY ONLY <1>1, <1>2, <1>5, <1>6, <1>7, <1>8, OneCall, HInv, c \in Calls
(***************************************************************************)
(* The steps                                                               *)
(***************************************************************************)
LEMMA InitKeeps == Init => HInv
BY DEF Init, HInv, TypeOK, Call, Idle

LEMMA ExpireKeeps ==
  ASSUME HInv, NEW k \in Token, Expire(k)
  PROVE  HInv'
BY DEF Expire, HInv, TypeOK, PathInv, ValidInv, UserInv, NoticeInv, Verify

\* What a call is when it is sent.
LEMMA SentIs ==
  ASSUME NEW c \in Calls, NEW r \in Served(c), NEW h \in Header
  PROVE  LET a == Sent(r, h)
         IN  /\ a \in Request /\ WellFormed(r)
             /\ a.at = IF r.guarded THEN "sent" ELSE "admitted"
             /\ a.route = r /\ a.user = Nobody /\ a.tid = Nobody
             /\ a.out = NotThrown /\ a.status = 200
             /\ a.header = h /\ (h \in Token /\ Verify(h) => a.valid)
<1>1. r \in Routes /\ WellFormed(r)
  BY ServedAssumption, RouteFacts
<1>2. Sent(r, h) \in Request
  BY <1>1 DEF Sent, Request, At, Status
<1> QED
  BY <1>1, <1>2 DEF Sent

LEMMA SendKeeps ==
  ASSUME HInv, NEW c \in Calls, NEW r \in Served(c), NEW h \in Header, Send(c, r, h)
  PROVE  HInv'
<1> DEFINE a == Sent(r, h)
<1>1. call' = [call EXCEPT ![c] = a] /\ UNCHANGED <<filter, expired>>
  BY DEF Send
<1>2. /\ a \in Request /\ WellFormed(r)
      /\ a.at = IF r.guarded THEN "sent" ELSE "admitted"
      /\ a.route = r /\ a.user = Nobody /\ a.tid = Nobody
      /\ a.out = NotThrown /\ a.status = 200
      /\ a.header = h /\ (h \in Token /\ Verify(h) => a.valid)
  BY SentIs
<1> HIDE DEF a
<1>3. PathInv(a) /\ ValidInv(a) /\ UserInv(a)
  BY <1>2 DEF PathInv, ValidInv, UserInv
<1>4. NoticeInv(a)
  BY <1>2 DEF NoticeInv, WellFormed
<1> QED
  BY ONLY <1>1, <1>2, <1>3, <1>4, OneCall, HInv, c \in Calls

LEMMA MalformedKeeps ==
  ASSUME HInv, NEW c \in Calls, NEW r \in Served(c), NEW h \in Header,
         SendMalformed(c, r, h)
  PROVE  HInv'
<1> DEFINE o == [by |-> "nest", code |-> 400]
           a == [Sent(r, h) EXCEPT !.at = "thrown", !.out = o]
<1>1. call' = [call EXCEPT ![c] = a] /\ UNCHANGED <<filter, expired>>
  BY DEF SendMalformed
<1>2. /\ Sent(r, h) \in Request
      /\ Sent(r, h).route = r /\ Sent(r, h).user = Nobody /\ Sent(r, h).tid = Nobody
  BY SentIs
<1>3. o \in Thrown /\ o.by = "nest" /\ o.code = 400 /\ o # NotThrown
  BY DEF Thrown, NotThrown
<1> HIDE DEF o
<1>4. /\ a \in Request /\ a.at = "thrown" /\ a.out = o
      /\ a.route = r /\ a.user = Nobody /\ a.tid = Nobody
  BY <1>2, <1>3 DEF Request, At
<1> HIDE DEF a
<1>5. PathInv(a) /\ ValidInv(a) /\ UserInv(a) /\ NoticeInv(a)
  BY <1>3, <1>4 DEF PathInv, ValidInv, UserInv, NoticeInv
<1> QED
  BY ONLY <1>1, <1>4, <1>5, OneCall, HInv, c \in Calls

\* What HInv says of a call that has been sent.
LEMMA SentFacts ==
  ASSUME HInv, NEW c \in Calls, call[c].at \in At
  PROVE  /\ call[c] # Idle /\ call[c] \in Request
         /\ WellFormed(call[c].route)
         /\ PathInv(call[c]) /\ ValidInv(call[c]) /\ UserInv(call[c])
         /\ NoticeInv(call[c])
<1>1. call[c] # Idle
  BY DEF At, Idle
<1>2. call[c] \in Request
  BY <1>1 DEF HInv, TypeOK, Call
<1>3. WellFormed(call[c].route)
  BY <1>2, RouteFacts DEF Request
<1> QED
  BY <1>1, <1>2, <1>3 DEF HInv

LEMMA VerifyKeeps ==
  ASSUME HInv, NEW c \in Calls, GuardVerify(c)
  PROVE  HInv'
<1> DEFINE h == call[c].header
           a == [call[c] EXCEPT !.at = "verified"]
<1>1. call[c].at = "sent" /\ UNCHANGED <<filter, expired>>
  BY DEF GuardVerify
<1>2. /\ call[c] \in Request /\ WellFormed(call[c].route)
      /\ PathInv(call[c]) /\ ValidInv(call[c]) /\ UserInv(call[c])
  BY <1>1, SentFacts DEF At
<1>3. call[c].route.path # "notices"
  BY <1>1, <1>2 DEF PathInv, WellFormed
<1>4. CASE Throw(c, "other", 500)
  BY <1>1, <1>2, <1>3, <1>4, ThrowKeeps DEF Thrown
<1>5. CASE Throw(c, "nest", 403)
  BY <1>1, <1>2, <1>3, <1>5, ThrowKeeps DEF Thrown
<1>6. CASE h \in Token /\ Verify(h) /\ call' = [call EXCEPT ![c].at = "verified"]
  <2>1. call' = [call EXCEPT ![c] = a]
    BY <1>6 DEF HInv, TypeOK
  <2>2. a \in Request
    BY <1>2 DEF Request, At
  <2>3. /\ a.at = "verified" /\ a.out = call[c].out /\ a.route = call[c].route
        /\ a.header = h /\ a.valid = call[c].valid /\ a.user = call[c].user
        /\ a.tid = call[c].tid /\ a.status = call[c].status
    BY <1>2 DEF Request
  <2>4. h.kind # "foreign"
    BY <1>6 DEF Verify
  <2>5. PathInv(a) /\ UserInv(a) /\ NoticeInv(a)
    BY <1>1, <1>2, <1>3, <1>6, <2>3, <2>4
       DEF PathInv, UserInv, NoticeInv
  <2>6. ValidInv(a)
    BY <1>1, <1>2, <1>6, <2>3 DEF ValidInv, PathInv, NotThrown
  <2> HIDE DEF a
  <2> QED
    BY ONLY <1>1, <2>1, <2>2, <2>5, <2>6, OneCall, HInv, c \in Calls
<1> QED
  BY <1>4, <1>5, <1>6 DEF GuardVerify

LEMMA DecodeKeeps ==
  ASSUME HInv, NEW c \in Calls, GuardDecode(c)
  PROVE  HInv'
<1> DEFINE a == [call[c] EXCEPT !.at = "admitted", !.user = call[c].header]
<1>1. call[c].at = "verified" /\ UNCHANGED <<filter, expired>>
      /\ call' = [call EXCEPT ![c] = a]
  BY DEF GuardDecode, HInv, TypeOK
<1>2. /\ call[c] \in Request /\ WellFormed(call[c].route)
      /\ PathInv(call[c]) /\ ValidInv(call[c]) /\ UserInv(call[c])
  BY <1>1, SentFacts DEF At
<1>3. a \in Request
  BY <1>1, <1>2 DEF Request, At, PathInv
<1>4. /\ a.at = "admitted" /\ a.out = call[c].out /\ a.route = call[c].route
      /\ a.user = call[c].header /\ a.valid = call[c].valid
      /\ a.tid = call[c].tid /\ a.status = call[c].status
  BY <1>2 DEF Request
<1>5. PathInv(a) /\ UserInv(a) /\ NoticeInv(a)
  BY <1>1, <1>2, <1>4 DEF PathInv, UserInv, NoticeInv, WellFormed
<1>6. ValidInv(a)
  BY <1>1, <1>2, <1>4 DEF ValidInv
<1> HIDE DEF a
<1> QED
  BY ONLY <1>1, <1>3, <1>5, <1>6, OneCall, HInv, c \in Calls

LEMMA HandleKeeps ==
  ASSUME HInv, NEW c \in Calls, Handle(c)
  PROVE  HInv'
<1>1. call[c].at = "admitted" /\ UNCHANGED <<filter, expired>>
  BY DEF Handle
<1>2. /\ call[c] \in Request /\ WellFormed(call[c].route)
      /\ PathInv(call[c]) /\ ValidInv(call[c]) /\ UserInv(call[c])
  BY <1>1, SentFacts DEF At
<1>3. CASE Throw(c, "other", 500)
  BY <1>1, <1>2, <1>3, ThrowKeeps DEF Thrown
<1>4. ASSUME NEW t \in Tids \cup {Nobody},
             t # Nobody => /\ call[c].user # Nobody /\ call[c].user.kind = "user"
                           /\ t = call[c].user.holder,
             call[c].route.path # "notices",
             call' = [call EXCEPT ![c] = [@ EXCEPT !.at = "ran", !.tid = t]]
      PROVE  HInv'
  <2> DEFINE a == [call[c] EXCEPT !.at = "ran", !.tid = t]
  <2>1. call' = [call EXCEPT ![c] = a]
    BY <1>4
  <2>2. a \in Request
    BY <1>2 DEF Request, At
  <2>3. /\ a.at = "ran" /\ a.out = call[c].out /\ a.route = call[c].route
        /\ a.user = call[c].user /\ a.valid = call[c].valid
        /\ a.tid = t /\ a.status = call[c].status
    BY <1>2 DEF Request
  <2>4. PathInv(a) /\ UserInv(a) /\ NoticeInv(a)
    BY <1>1, <1>2, <1>4, <2>3 DEF PathInv, UserInv, NoticeInv
  <2>5. ValidInv(a)
    BY <1>1, <1>2, <2>3 DEF ValidInv
  <2> HIDE DEF a
  <2> QED
    BY ONLY <1>1, <2>1, <2>2, <2>4, <2>5, OneCall, HInv, c \in Calls
<1>5. CASE ~call[c].route.tid
  <2>1. call' = [call EXCEPT ![c] = [@ EXCEPT !.at = "ran", !.tid = call[c].tid]]
    BY <1>2, <1>5 DEF Handle, Request, HInv, TypeOK
  <2>2. call[c].tid \in Tids \cup {Nobody} /\ call[c].route.path # "notices"
    BY <1>2, <1>5 DEF Request, WellFormed
  <2> QED
    BY <1>2, <1>4, <2>1, <2>2 DEF UserInv
<1>6. CASE call[c].route.tid /\ call[c].user # Nobody
  <2> DEFINE t == TidOf(call[c].user)
  <2>1. call' = [call EXCEPT ![c] = [@ EXCEPT !.at = "ran", !.tid = t]]
    BY <1>6 DEF Handle, HInv, TypeOK
  <2>2. call[c].user \in Token
    BY <1>2, <1>6 DEF Request
  <2>3. t \in Tids \cup {Nobody} /\ (t # Nobody => call[c].user.kind = "user" /\ t = call[c].user.holder)
    BY <1>2, <1>6, <2>2 DEF TidOf, Token, UserInv
  <2>4. call[c].route.path # "notices"
    BY <1>2, <1>6 DEF UserInv, WellFormed
  <2> HIDE DEF t
  <2> QED
    BY <1>4, <1>6, <2>1, <2>3, <2>4
<1> QED
  BY <1>3, <1>5, <1>6 DEF Handle

LEMMA ServiceThrowsKeeps ==
  ASSUME HInv, NEW c \in Calls, ServiceThrows(c)
  PROVE  HInv'
<1>1. call[c].at = "ran" /\ UNCHANGED <<filter, expired>>
  BY DEF ServiceThrows
<1>2. /\ call[c] \in Request /\ WellFormed(call[c].route)
      /\ PathInv(call[c]) /\ ValidInv(call[c]) /\ UserInv(call[c])
      /\ NoticeInv(call[c])
  BY <1>1, SentFacts DEF At
<1>3. call[c].route.path # "notices"
  BY <1>1, <1>2 DEF NoticeInv
<1>4. CASE Throw(c, "other", 500)
  BY <1>1, <1>2, <1>3, <1>4, ThrowKeeps DEF Thrown
<1>5. ASSUME NEW code \in call[c].route.throws, Throw(c, "service", code)
      PROVE  HInv'
  <2>1. code \in {400, 500}
    BY <1>2 DEF WellFormed
  <2> QED
    BY <1>1, <1>2, <1>3, <1>5, <2>1, ThrowKeeps DEF Thrown
<1> QED
  BY <1>4, <1>5 DEF ServiceThrows

\* What was thrown is told as an error.
Told(a, status) == a.at = "thrown" => status >= 400

\* An answer changes where a call stands and its status.
LEMMA AnswerKeeps ==
  ASSUME HInv, NEW c \in Calls, call[c].at \in {"ran", "thrown"},
         NEW s \in Status, UNCHANGED <<filter, expired>>,
         call' = [call EXCEPT ![c] = [@ EXCEPT !.at = "answered", !.status = s]],
         Told(call[c], s)
  PROVE  HInv'
<1> DEFINE a == [call[c] EXCEPT !.at = "answered", !.status = s]
<1>1. /\ call[c] \in Request
      /\ PathInv(call[c]) /\ ValidInv(call[c]) /\ UserInv(call[c]) /\ NoticeInv(call[c])
  BY SentFacts DEF At
<1>2. call' = [call EXCEPT ![c] = a] /\ UNCHANGED <<filter, expired>>
  OBVIOUS
<1>3. a \in Request
  BY <1>1 DEF Request, At
<1>4. /\ a.at = "answered" /\ a.out = call[c].out /\ a.route = call[c].route
      /\ a.user = call[c].user /\ a.valid = call[c].valid
      /\ a.tid = call[c].tid /\ a.status = s
  BY <1>1 DEF Request
<1>5. PathInv(a) /\ UserInv(a)
  BY <1>1, <1>4 DEF PathInv, UserInv
<1>6. NoticeInv(a)
  BY <1>1, <1>4 DEF NoticeInv, Told
<1>7. ValidInv(a)
  BY <1>1, <1>4 DEF ValidInv
<1> HIDE DEF a
<1> QED
  BY ONLY <1>2, <1>3, <1>5, <1>6, <1>7, OneCall, HInv, c \in Calls

LEMMA ReturnKeeps ==
  ASSUME HInv, NEW c \in Calls, Return(c)
  PROVE  HInv'
<1> DEFINE s == IF call[c].route.method = "POST" THEN 201 ELSE 200
<1>1. /\ call[c].at = "ran" /\ UNCHANGED <<filter, expired>>
      /\ call' = [call EXCEPT ![c] = [@ EXCEPT !.at = "answered", !.status = s]]
  BY DEF Return, HInv, TypeOK
<1>2. s \in Status /\ Told(call[c], s)
  BY <1>1 DEF Status, Told
<1> HIDE DEF s
<1> QED
  BY <1>1, <1>2, AnswerKeeps

LEMMA AnswerThrownKeeps ==
  ASSUME HInv, NEW c \in Calls, AnswerThrown(c)
  PROVE  HInv'
<1> DEFINE s == IF filter THEN FilterStatus(call[c].out) ELSE NestStatus(call[c].out)
<1>1. /\ call[c].at = "thrown" /\ UNCHANGED <<filter, expired>>
      /\ call' = [call EXCEPT ![c] = [@ EXCEPT !.at = "answered", !.status = s]]
  BY DEF AnswerThrown, HInv, TypeOK
<1>2. call[c].out \in Thrown
  BY <1>1, SentFacts DEF At, PathInv, Request
<1>3. /\ call[c].out.by = "service" => call[c].out.code \in {400, 500}
      /\ call[c].out.by = "nest" => call[c].out.code \in {400, 403}
      /\ call[c].out.by = "other" => call[c].out.code = 500
      /\ call[c].out.by \in {"service", "nest", "other"}
  BY <1>2 DEF Thrown
<1>4. s \in Status /\ Told(call[c], s)
  BY <1>3 DEF FilterStatus, NestStatus, Status, Told
<1> HIDE DEF s
<1> QED
  BY <1>1, <1>4, AnswerKeeps

(***************************************************************************)
(* Theorems                                                                *)
(***************************************************************************)
\* The inductive invariant of HTTP requests: what a call that has come to a
\* point has been through, and which filter answers it.
THEOREM Inductive == Spec => []HInv
<1>1. Init => HInv
  BY InitKeeps
<1>2. HInv /\ [Next]_vars => HInv'
  <2> SUFFICES ASSUME HInv, [Next]_vars
               PROVE  HInv'
    OBVIOUS
  <2>1. ASSUME NEW k \in Token, Expire(k) PROVE HInv'
    BY <2>1, ExpireKeeps
  <2>2. ASSUME NEW c \in Calls, NEW r \in Served(c), NEW h \in Header,
               Send(c, r, h) \/ SendMalformed(c, r, h)
        PROVE  HInv'
    BY <2>2, SendKeeps, MalformedKeeps
  <2>3. ASSUME NEW c \in Calls, GuardVerify(c) \/ GuardDecode(c) \/ Handle(c)
        PROVE  HInv'
    BY <2>3, VerifyKeeps, DecodeKeeps, HandleKeeps
  <2>4. ASSUME NEW c \in Calls, ServiceThrows(c) \/ Return(c) \/ AnswerThrown(c)
        PROVE  HInv'
    BY <2>4, ServiceThrowsKeeps, ReturnKeeps, AnswerThrownKeeps
  <2>5. CASE UNCHANGED vars
    BY <2>5 DEF vars, HInv, TypeOK, PathInv, ValidInv, UserInv, NoticeInv, Verify
  <2> QED
    BY <2>1, <2>2, <2>3, <2>4, <2>5 DEF Next
<1> QED
  BY <1>1, <1>2, PTL DEF Spec

\* Every variable of Http keeps its type.
THEOREM TypeCorrect == Spec => []TypeOK
<1>1. HInv => TypeOK
  BY DEF HInv
<1> QED
  BY <1>1, Inductive, PTL

\* The handler of a guarded route runs only for a token that was genuine and in
\* time when the call was sent, whatever expires between verify and decode.
THEOREM AdmittedValid == Spec => []AdmittedWasValid
<1>1. HInv => AdmittedWasValid
  BY DEF HInv, AdmittedWasValid, ValidInv
<1> QED
  BY <1>1, Inductive, PTL

\* A handler is given a tid only by a token that JwtService.sign has made for a
\* user, and then it is that user's: no token of AccountService names anybody.
TidsByUserTokens ==
  \A c \in Calls :
    call[c] # Idle /\ call[c].tid # Nobody =>
      LET h == call[c].header
      IN  h \in Token /\ h.kind = "user" /\ call[c].tid = h.holder

THEOREM LoginTokens == Spec => []TidsByUserTokens
<1>1. ASSUME HInv, NEW c \in Calls, call[c] # Idle, call[c].tid # Nobody
      PROVE  /\ call[c].header \in Token /\ call[c].header.kind = "user"
             /\ call[c].tid = call[c].header.holder
  <2>1. UserInv(call[c]) /\ call[c].user \in Token \cup {Nobody}
    BY <1>1 DEF HInv, TypeOK, Call, Request
  <2> QED
    BY <1>1, <2>1 DEF UserInv
<1>2. HInv => TidsByUserTokens
  BY <1>1 DEF TidsByUserTokens
<1> QED
  BY <1>2, Inductive, PTL

\* Every call of GET /notices that is answered is answered with an error.
THEOREM NoticesNeverServed == Spec => []NoticesAreNeverServed
<1>1. HInv => NoticesAreNeverServed
  BY DEF HInv, NoticesAreNeverServed, NoticeInv
<1> QED
  BY <1>1, Inductive, PTL
=============================================================================
