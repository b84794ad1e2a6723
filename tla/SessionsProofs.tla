--------------------------- MODULE SessionsProofs ---------------------------
(***************************************************************************)
(* Proofs about Sessions, for every set of accounts, passwords and calls,  *)
(* and about TokenRefresh, which leaves everything of Sessions alone.      *)
(***************************************************************************)
EXTENDS TokenRefresh, TLAPS

USE DEF Idle, LoginAt, EditAt

Pending(t) == \E e \in Edits : edit[e].at \in {"updated", "cut"} /\ edit[e].tid = t

\* A stored token is of a login that has found its account and got further.
TokenInv ==
  /\ \A t \in Tids : token[t] \in Logins =>
       login[token[t]].at \notin {"idle", "found"} /\ login[token[t]].tid = t
  /\ \A c \in raced : login[c].at # "idle"

\* The password a login has found is the one on record, unless it was raced
\* or the call that set another one is not done; so for stored tokens.
StaleInv ==
  /\ StaleOnlyByRace
  /\ \A c \in Logins :
       login[c].at = "found" /\ Hash[login[c].pwd] # password[login[c].tid]
         => c \in raced \/ Pending(login[c].tid)

\* Between its SET and its SETNX a login finds its key there, or was raced;
\* the key of a refresh token is always there.
NumberInv ==
  /\ NumberOnlyByRace
  /\ RefreshIsToken
  /\ \A c \in Logins :
       /\ login[c].at = "set" => token[login[c].tid] # NoToken \/ c \in raced
       /\ login[c].at = "stored" => refresh[login[c].tid] # NoToken

SInv == TypeOK /\ TokenInv /\ StaleInv /\ NumberInv

\* A step of a login changes where it is, and nothing else of any login.
LEMMA LoginMoves ==
  ASSUME TypeOK, NEW c \in Logins, NEW from \in LoginAt, NEW to \in LoginAt,
         LoginGoto(c, from, to)
  PROVE  /\ login[c].at = from /\ login'[c].at = to
         /\ login'[c].tid = login[c].tid /\ login'[c].pwd = login[c].pwd
         /\ login[c].tid \in Tids /\ login[c].pwd \in Passwords
         /\ \A d \in Logins \ {c} : login'[d] = login[d]
         /\ login' \in [Logins -> LoginCall]
<1>1. login[c] \in [at : LoginAt, tid : Tids, pwd : Passwords]
  BY DEF TypeOK, LoginCall, LoginGoto
<1>2. login' = [login EXCEPT ![c] = [login[c] EXCEPT !.at = to]]
  BY DEF LoginGoto
<1>3. [login[c] EXCEPT !.at = to] \in LoginCall
  BY <1>1 DEF LoginCall
<1> QED
  BY <1>1, <1>2, <1>3 DEF TypeOK, LoginGoto

\* The same of a call that sets a password.
LEMMA EditMoves ==
  ASSUME TypeOK, NEW c \in Edits, NEW from \in EditAt, NEW to \in EditAt,
         EditGoto(c, from, to)
  PROVE  /\ edit[c].at = from /\ edit'[c].at = to /\ edit'[c].tid = edit[c].tid
         /\ edit[c].tid \in Tids /\ edit[c].new \in Passwords
         /\ \A d \in Edits \ {c} : edit'[d] = edit[d]
         /\ edit' \in [Edits -> EditCall]
<1>1. edit[c] \in [at : EditAt, tid : Tids, new : Passwords]
  BY DEF TypeOK, EditCall, EditGoto
<1>2. edit' = [edit EXCEPT ![c] = [edit[c] EXCEPT !.at = to]]
  BY DEF EditGoto
<1>3. [edit[c] EXCEPT !.at = to] \in EditCall
  BY <1>1 DEF EditCall
<1> QED
  BY <1>1, <1>2, <1>3 DEF TypeOK, EditGoto

(***************************************************************************)
(* The steps of a login                                                    *)
(***************************************************************************)

\* login finds the account, or fails: no store changes.
LEMMA FindKeeps ==
  ASSUME SInv, NEW c \in Logins, NEW t \in Tids, NEW p \in Passwords,
         LoginFind(c, t, p)
  PROVE  SInv'
<1> DEFINE a == IF password[t] = Hash[p] THEN "found" ELSE "failed"
<1>1. /\ login' = [login EXCEPT ![c] = [at |-> a, tid |-> t, pwd |-> p]]
      /\ UNCHANGED <<password, token, refresh, edit, raced>>
      /\ login[c].at = "idle"
  BY DEF LoginFind
<1>2. /\ login'[c] = [at |-> a, tid |-> t, pwd |-> p]
      /\ \A d \in Logins \ {c} : login'[d] = login[d]
      /\ login' \in [Logins -> LoginCall]
  BY <1>1 DEF SInv, TypeOK, LoginCall
<1>3. c \notin raced /\ \A s \in Tids : token[s] # c
  BY <1>1 DEF SInv, TokenInv
<1>4. TypeOK'
  BY <1>1, <1>2 DEF SInv, TypeOK
<1>5. TokenInv'
  BY <1>1, <1>2, <1>3 DEF SInv, TokenInv, TypeOK
<1>6. StaleInv'
  BY <1>1, <1>2, <1>3 DEF SInv, StaleInv, StaleOnlyByRace, Pending
<1>7. NumberInv'
  <2>1. NumberOnlyByRace'
    BY <1>1, <1>2, <1>3 DEF SInv, NumberInv, NumberOnlyByRace, Alive, TypeOK
  <2> QED
    BY <2>1, <1>1, <1>2 DEF SInv, NumberInv, RefreshIsToken
<1> QED
  BY <1>4, <1>5, <1>6, <1>7 DEF SInv

\* createAccessToken stores the token of a login: it is current, or the password
\* it was given for was replaced while the login was under way.
LEMMA SetKeeps ==
  ASSUME SInv, NEW c \in Logins, LoginSet(c)
  PROVE  SInv'
<1> DEFINE t == login[c].tid
<1>1. /\ login[c].at = "found" /\ login'[c].at = "set"
      /\ login'[c].tid = t /\ login'[c].pwd = login[c].pwd /\ t \in Tids
      /\ \A d \in Logins \ {c} : login'[d] = login[d]
      /\ login' \in [Logins -> LoginCall]
  BY LoginMoves DEF LoginSet, SInv
<1>2. /\ token' = [token EXCEPT ![t] = c] /\ token \in [Tids -> Values]
      /\ UNCHANGED <<password, refresh, edit, raced>>
  BY DEF LoginSet, SInv, TypeOK
<1>3. c \notin {NoToken, Lifetime} /\ \A s \in Tids : token[s] # c
  BY <1>1, TokenAssumption DEF SInv, TokenInv
<1>4. TypeOK'
  BY <1>1, <1>2 DEF SInv, TypeOK, Values
<1>5. TokenInv'
  BY <1>1, <1>2, <1>3 DEF SInv, TokenInv, TypeOK
<1>6. StaleInv'
  BY <1>1, <1>2, <1>3 DEF SInv, StaleInv, StaleOnlyByRace, Pending
<1>7. NumberInv'
  <2>1. NumberOnlyByRace'
    BY <1>1, <1>2, <1>3 DEF SInv, NumberInv, NumberOnlyByRace, Alive, TypeOK
  <2> QED
    BY <2>1, <1>1, <1>2, <1>3 DEF SInv, NumberInv, RefreshIsToken, TypeOK, LoginCall
<1> QED
  BY <1>4, <1>5, <1>6, <1>7 DEF SInv

\* SETNX turns a missing key into a number, which only a race has made missing.
LEMMA SetNxKeeps ==
  ASSUME SInv, NEW c \in Logins, LoginSetNx(c)
  PROVE  SInv'
<1> DEFINE t == login[c].tid
<1>1. /\ login[c].at = "set" /\ login'[c].at = "answered"
      /\ login'[c].tid = t /\ login'[c].pwd = login[c].pwd /\ t \in Tids
      /\ \A d \in Logins \ {c} : login'[d] = login[d]
      /\ login' \in [Logins -> LoginCall]
  BY LoginMoves DEF LoginSetNx, SInv
<1>2. /\ token' = [token EXCEPT ![t] = IF token[t] = NoToken THEN Lifetime ELSE token[t]]
      /\ token \in [Tids -> Values]
      /\ UNCHANGED <<password, refresh, edit, raced>>
  BY DEF LoginSetNx, SetNx, SInv, TypeOK
<1>3. NoToken \notin Logins /\ Lifetime \notin Logins /\ NoToken # Lifetime
  BY TokenAssumption
<1>n. /\ \A s \in Tids :
           token'[s] = token[s] \/ (s = t /\ token[t] = NoToken /\ token'[t] = Lifetime)
      /\ token' \in [Tids -> Values]
  BY <1>1, <1>2 DEF Values
<1>4. TypeOK'
  BY <1>1, <1>2, <1>n DEF SInv, TypeOK
<1>5. TokenInv'
  BY <1>1, <1>2, <1>3, <1>n DEF SInv, TokenInv, TypeOK
<1>6. StaleInv'
  BY <1>1, <1>2, <1>3, <1>n DEF SInv, StaleInv, StaleOnlyByRace, Pending
<1>7. NumberInv'
  <2>1. NumberOnlyByRace'
    <3>1. token[t] = NoToken => c \in raced
      BY <1>1 DEF SInv, NumberInv
    <3>2. \A d \in Logins : login'[d].tid = login[d].tid
      BY <1>1
    <3> QED
      BY <1>1, <1>2, <1>n, <3>1, <3>2 DEF SInv, NumberInv, NumberOnlyByRace, Alive, TypeOK
  <2>2. \A d \in Logins : login'[d].at = "set" =>
          token'[login'[d].tid] # NoToken \/ d \in raced'
    <3> SUFFICES ASSUME NEW d \in Logins, login'[d].at = "set"
                 PROVE  token'[login[d].tid] # NoToken \/ d \in raced
      BY <1>1, <1>2
    <3>1. login[d].at = "set"
      BY <1>1
    <3>2. login[d].tid \in Tids
      BY <3>1 DEF SInv, TypeOK, LoginCall
    <3> QED
      BY <3>1, <3>2, <1>3, <1>n DEF SInv, NumberInv
  <2> QED
    BY <2>1, <2>2, <1>1, <1>2 DEF SInv, NumberInv, RefreshIsToken
<1> QED
  BY <1>4, <1>5, <1>6, <1>7 DEF SInv

\* What createRefreshToken does after the answer touches the refresh key only.
LEMMA RefreshKeeps ==
  ASSUME SInv, NEW c \in Logins, RefreshSet(c) \/ RefreshSetNx(c) \/ LoginFail(c)
  PROVE  SInv'
<1> DEFINE t == login[c].tid
<1>1. /\ \/ login[c].at = "answered" /\ login'[c].at = "stored" /\ RefreshSet(c)
         \/ login[c].at = "stored" /\ login'[c].at = "done" /\ RefreshSetNx(c)
         \/ login'[c].at \in {"failed", "lost"} /\ LoginFail(c)
      /\ login[c].at # "idle" /\ login'[c].at \notin {"idle", "found", "set"}
      /\ login'[c].tid = t /\ login'[c].pwd = login[c].pwd /\ t \in Tids
      /\ \A d \in Logins \ {c} : login'[d] = login[d]
      /\ login' \in [Logins -> LoginCall]
  <2>1. CASE RefreshSet(c)
    BY <2>1, LoginMoves DEF RefreshSet, SInv
  <2>2. CASE RefreshSetNx(c)
    BY <2>2, LoginMoves DEF RefreshSetNx, SInv
  <2>3. ASSUME NEW from \in LoginAt, NEW to \in {"failed", "lost"},
               LoginFail(c), LoginGoto(c, from, to)
        PROVE  /\ login'[c].at = to /\ login[c].at # "idle"
               /\ login'[c].tid = t /\ login'[c].pwd = login[c].pwd /\ t \in Tids
               /\ \A d \in Logins \ {c} : login'[d] = login[d]
               /\ login' \in [Logins -> LoginCall]
    BY <2>3, LoginMoves DEF SInv
  <2>4. CASE LoginFail(c)
    <3>1. CASE LoginGoto(c, "found", "failed")
      BY <2>3, <2>4, <3>1 DEF LoginAt
    <3>2. CASE LoginGoto(c, "set", "failed")
      BY <2>3, <2>4, <3>2 DEF LoginAt
    <3>3. CASE LoginGoto(c, "answered", "lost")
      BY <2>3, <2>4, <3>3 DEF LoginAt
    <3>4. CASE LoginGoto(c, "stored", "lost")
      BY <2>3, <2>4, <3>4 DEF LoginAt
    <3> QED
      BY <2>4, <3>1, <3>2, <3>3, <3>4 DEF LoginFail
  <2> QED
    BY <2>1, <2>2, <2>4
<1>2. UNCHANGED <<password, token, edit, raced>>
  BY DEF RefreshSet, RefreshSetNx, LoginFail
<1>3. /\ \A s \in Tids : refresh'[s] = refresh[s] \/ (s = t /\ refresh'[t] = c)
      /\ login'[c].at = "stored" => refresh'[t] = c
      /\ refresh' \in [Tids -> Values]
  <2>1. refresh \in [Tids -> Values] /\ (login[c].at = "stored" => refresh[t] # NoToken)
    BY <1>1 DEF SInv, TypeOK, NumberInv
  <2>2. CASE RefreshSet(c)
    BY <2>1, <2>2, <1>1 DEF RefreshSet, Values
  <2>3. CASE RefreshSetNx(c)
    <3>1. login[c].at = "stored"
      BY <2>3 DEF RefreshSetNx, LoginGoto
    <3>2. refresh' = refresh /\ login'[c].at = "done"
      BY <2>1, <2>3, <3>1, <1>1, LoginMoves DEF RefreshSetNx, SetNx, SInv
    <3> QED
      BY <2>1, <3>2
  <2>4. CASE LoginFail(c)
    BY <2>1, <2>4, <1>1, LoginMoves DEF LoginFail, SInv
  <2> QED
    BY <2>2, <2>3, <2>4
<1>4. TypeOK'
  BY <1>1, <1>2, <1>3 DEF SInv, TypeOK
<1>5. TokenInv'
  BY <1>1, <1>2 DEF SInv, TokenInv, TypeOK
<1>6. StaleInv'
  <2>1. \A d \in Logins : login'[d].tid = login[d].tid /\ login'[d].pwd = login[d].pwd
    BY <1>1
  <2> QED
    BY <1>1, <1>2, <2>1 DEF SInv, StaleInv, StaleOnlyByRace, Pending
<1>7. NumberInv'
  <2>1. NumberOnlyByRace'
    BY <1>1, <1>2 DEF SInv, NumberInv, NumberOnlyByRace, Alive, TypeOK
  <2>2. RefreshIsToken'
    BY <1>3, TokenAssumption DEF SInv, NumberInv, RefreshIsToken
  <2>3. \A d \in Logins : login'[d].at = "set" =>
          token'[login'[d].tid] # NoToken \/ d \in raced'
    BY <1>1, <1>2 DEF SInv, NumberInv
  <2>4. \A d \in Logins : login'[d].at = "stored" => refresh'[login'[d].tid] # NoToken
    <3> SUFFICES ASSUME NEW d \in Logins, login'[d].at = "stored"
                 PROVE  refresh'[login[d].tid] # NoToken
      BY <1>1
    <3>1. CASE d = c
      BY <3>1, <1>1, <1>3, TokenAssumption
    <3>2. CASE d # c
      <4>1. login[d].at = "stored"
        BY <3>2, <1>1
      <4>2. login[d].tid \in Tids
        BY <4>1 DEF SInv, TypeOK, LoginCall
      <4> QED
        BY <4>1, <4>2, <1>3, TokenAssumption DEF SInv, NumberInv
    <3> QED
      BY <3>1, <3>2
  <2> QED
    BY <2>1, <2>2, <2>3, <2>4 DEF NumberInv
<1> QED
  BY <1>4, <1>5, <1>6, <1>7 DEF SInv

(***************************************************************************)
(* The steps of the calls that set a password                              *)
(***************************************************************************)

\* A password may be set while the edit that sets it is pending.
LEMMA SettingKeeps ==
  ASSUME SInv, NEW e \in Edits, UNCHANGED <<token, refresh, login, raced>>,
         password' \in [Tids -> Digests], edit' \in [Edits -> EditCall],
         \A s \in Tids : \/ password'[s] = password[s]
                         \/ edit'[e].at = "updated" /\ edit'[e].tid = s,
         edit[e].at \in {"updated", "cut"}
           => edit'[e].at \in {"updated", "cut"} /\ edit'[e].tid = edit[e].tid,
         \A d \in Edits \ {e} : edit'[d] = edit[d]
  PROVE  SInv'
<1>1. TypeOK'
  BY DEF SInv, TypeOK
<1>2. TokenInv' /\ NumberInv'
  BY DEF SInv, TokenInv, NumberInv, NumberOnlyByRace, Alive, RefreshIsToken
<1>3. \A s \in Tids : Pending(s) => Pending(s)'
  BY DEF Pending
<1>4. \A s \in Tids : password'[s] = password[s] \/ Pending(s)'
  BY DEF Pending
<1>5. StaleOnlyByRace'
  BY <1>3, <1>4 DEF SInv, StaleInv, StaleOnlyByRace, Pending
<1>6. \A c \in Logins :
        login[c].at = "found" /\ Hash[login[c].pwd] # password'[login[c].tid]
          => c \in raced \/ Pending(login[c].tid)'
  <2> SUFFICES ASSUME NEW c \in Logins, login[c].at = "found",
                      Hash[login[c].pwd] # password'[login[c].tid]
               PROVE  c \in raced \/ Pending(login[c].tid)'
    OBVIOUS
  <2>1. login[c].tid \in Tids
    BY DEF SInv, TypeOK, LoginCall
  <2> QED
    BY <2>1, <1>3, <1>4 DEF SInv, StaleInv
<1>7. StaleInv'
  BY <1>5, <1>6 DEF StaleInv, Pending
<1> QED
  BY <1>1, <1>2, <1>7 DEF SInv

\* A call that sets a password, up to its deletion of the token.
LEMMA EditKeeps ==
  ASSUME SInv, NEW c \in Edits,
         \/ c \in Forgets /\ ForgetStep(c)
         \/ \E t \in Tids, old, n \in Passwords : ChangeUpdate(c, t, old, n)
         \/ EditFail(c)
  PROVE  SInv'
<1>t. password \in [Tids -> Digests] /\ edit \in [Edits -> EditCall]
  BY DEF SInv, TypeOK
<1>1. ASSUME NEW t \in Tids, NEW right \in BOOLEAN, NEW n \in Passwords,
             ForgetCheck(c, t, right, n)
      PROVE  SInv'
  <2>1. /\ edit[c].at = "idle" /\ UNCHANGED <<password, token, refresh, login, raced>>
        /\ edit' \in [Edits -> EditCall]
        /\ \A d \in Edits \ {c} : edit'[d] = edit[d]
    BY <1>1, <1>t DEF ForgetCheck, EditCall
  <2>2. UNCHANGED <<token, refresh, login, raced>> /\ UNCHANGED password
    BY <2>1
  <2> QED
    BY <2>1, <2>2, <1>t, SettingKeeps
<1>2. ASSUME ForgetUpdate(c) PROVE SInv'
  <2>1. /\ edit[c].at = "checked" /\ edit'[c].at = "updated"
        /\ edit'[c].tid = edit[c].tid /\ edit[c].tid \in Tids
        /\ edit[c].new \in Passwords
        /\ edit' \in [Edits -> EditCall]
        /\ \A d \in Edits \ {c} : edit'[d] = edit[d]
    BY <1>2, EditMoves DEF ForgetUpdate, SInv
  <2>2. /\ UNCHANGED <<token, refresh, login, raced>>
        /\ password' \in [Tids -> Digests]
        /\ \A s \in Tids \ {edit[c].tid} : password'[s] = password[s]
    BY <1>2, <1>t, <2>1 DEF ForgetUpdate, Digests
  <2> QED
    BY <2>1, <2>2, SettingKeeps
<1>3. ASSUME NEW t \in Tids, NEW old \in Passwords, NEW n \in Passwords,
             ChangeUpdate(c, t, old, n)
      PROVE  SInv'
  <2>1. /\ edit[c].at = "idle" /\ edit'[c].at = "updated" /\ edit'[c].tid = t
        /\ edit' \in [Edits -> EditCall]
        /\ \A d \in Edits \ {c} : edit'[d] = edit[d]
    BY <1>3, <1>t DEF ChangeUpdate, EditCall
  <2>2. UNCHANGED <<token, refresh, login, raced>>
    BY <1>3 DEF ChangeUpdate
  <2>3. /\ password' \in [Tids -> Digests]
        /\ \A s \in Tids \ {t} : password'[s] = password[s]
    <3>1. password' = [password EXCEPT ![t] = Hash[n]] \/ password' = password
      BY <1>3 DEF ChangeUpdate
    <3>2. Hash[n] \in Digests
      BY DEF Digests
    <3> QED
      BY <3>1, <3>2, <1>t
  <2> QED
    BY <2>1, <2>2, <2>3, SettingKeeps
<1>4. ASSUME EditFail(c) PROVE SInv'
  <2>1. PICK from \in {"checked", "updated"} :
          EditGoto(c, from, IF from = "checked" THEN "failed" ELSE "cut")
    BY <1>4 DEF EditFail
  <2>2. /\ edit[c].at = from /\ edit'[c].tid = edit[c].tid
        /\ edit'[c].at = IF from = "checked" THEN "failed" ELSE "cut"
        /\ edit[c].tid \in Tids
        /\ edit' \in [Edits -> EditCall]
        /\ \A d \in Edits \ {c} : edit'[d] = edit[d]
    BY <2>1, EditMoves DEF SInv
  <2>3. UNCHANGED <<password, token, refresh, login, raced>>
    BY <1>4 DEF EditFail
  <2> QED
    BY <2>2, <2>3, <1>t, SettingKeeps
<1> QED
  BY <1>1, <1>2, <1>3, <1>4 DEF ForgetStep

\* The deletion ends the token and marks the logins it raced with.
LEMMA DelKeeps ==
  ASSUME SInv, NEW e \in Edits, EditDel(e)
  PROVE  SInv'
<1> DEFINE t == edit[e].tid
<1>1. /\ edit'[e].tid = t /\ t \in Tids
      /\ edit' \in [Edits -> EditCall]
      /\ \A d \in Edits \ {e} : edit'[d] = edit[d]
  BY EditMoves DEF EditDel, SInv
<1>2. /\ token' = [token EXCEPT ![t] = NoToken] /\ token \in [Tids -> Values]
      /\ UNCHANGED <<refresh, password, login>>
      /\ raced' = raced \cup
           {c \in Logins : login[c].at \in {"found", "set"} /\ login[c].tid = t}
  BY DEF EditDel, Drop, UnderWay, SInv, TypeOK
<1>3. NoToken \notin Logins /\ NoToken # Lifetime
  BY TokenAssumption
<1>4. TypeOK'
  BY <1>1, <1>2 DEF SInv, TypeOK, Values
<1>5. TokenInv'
  BY <1>1, <1>2, <1>3 DEF SInv, TokenInv
<1>6. StaleInv'
  <2>1. \A s \in Tids \ {t} : Pending(s) => Pending(s)'
    BY <1>1 DEF Pending
  <2>2. StaleOnlyByRace'
    <3> SUFFICES ASSUME NEW s \in Tids, token'[s] \in Logins,
                        Hash[login[token'[s]].pwd] # password[s]
                 PROVE  token'[s] \in raced' \/ Pending(s)'
      BY <1>2 DEF StaleOnlyByRace, Pending
    <3>1. s # t /\ token'[s] = token[s]
      BY <1>1, <1>2, <1>3
    <3> QED
      BY <3>1, <2>1, <1>2 DEF SInv, StaleInv, StaleOnlyByRace, Pending
  <2>3. \A c \in Logins :
          login[c].at = "found" /\ Hash[login[c].pwd] # password[login[c].tid]
            => c \in raced' \/ Pending(login[c].tid)'
    <3> SUFFICES ASSUME NEW c \in Logins, login[c].at = "found",
                        Hash[login[c].pwd] # password[login[c].tid]
                 PROVE  c \in raced' \/ Pending(login[c].tid)'
      OBVIOUS
    <3>1. login[c].tid \in Tids
      BY DEF SInv, TypeOK, LoginCall
    <3>2. c \in raced \/ Pending(login[c].tid)
      BY DEF SInv, StaleInv
    <3> QED
      BY <3>1, <3>2, <2>1, <1>2
  <2> QED
    BY <2>2, <2>3, <1>2 DEF StaleInv, Pending
<1>7. NumberInv'
  <2>1. NumberOnlyByRace'
    BY <1>1, <1>2, <1>3 DEF SInv, NumberInv, NumberOnlyByRace, Alive
  <2>2. \A c \in Logins : login[c].at = "set" =>
          token'[login[c].tid] # NoToken \/ c \in raced'
    <3> SUFFICES ASSUME NEW c \in Logins, login[c].at = "set", c \notin raced'
                 PROVE  token'[login[c].tid] # NoToken
      OBVIOUS
    <3>1. login[c].tid \in Tids \ {t}
      BY <1>2 DEF SInv, TypeOK, LoginCall
    <3> QED
      BY <3>1, <1>2 DEF SInv, NumberInv
  <2> QED
    BY <2>1, <2>2, <1>2 DEF SInv, NumberInv, RefreshIsToken
<1> QED
  BY <1>4, <1>5, <1>6, <1>7 DEF SInv

(***************************************************************************)
(* The theorems                                                            *)
(***************************************************************************)

\* The inductive invariant: types, whose token is stored under which account,
\* what explains a stale token and what explains a number.
THEOREM Inductive == Spec => []SInv
<1>1. Init => SInv
  <2> SUFFICES ASSUME Init PROVE SInv
    OBVIOUS
  <2>1. TypeOK
    BY DEF Init, TypeOK, LoginCall, EditCall, Values
  <2>2. TokenInv /\ StaleInv /\ NumberInv
    BY TokenAssumption DEF Init, TokenInv, StaleInv, StaleOnlyByRace, NumberInv,
       NumberOnlyByRace, Alive, RefreshIsToken
  <2> QED
    BY <2>1, <2>2 DEF SInv
<1>2. SInv /\ [Next]_vars => SInv'
  <2> SUFFICES ASSUME SInv, [Next]_vars PROVE SInv'
    OBVIOUS
  <2>1. ASSUME NEW c \in Logins, LoginStep(c) PROVE SInv'
    BY <2>1, FindKeeps, SetKeeps, SetNxKeeps, RefreshKeeps DEF LoginStep
  <2>2. ASSUME NEW c \in Forgets, ForgetStep(c) PROVE SInv'
    BY <2>2, EditKeeps DEF Edits
  <2>3. ASSUME NEW c \in Changes, NEW t \in Tids, NEW old \in Passwords,
               NEW n \in Passwords, ChangeUpdate(c, t, old, n)
        PROVE  SInv'
    BY <2>3, EditKeeps DEF Edits
  <2>4. ASSUME NEW c \in Edits, EditDel(c) \/ EditFail(c) PROVE SInv'
    BY <2>4, DelKeeps, EditKeeps
  <2>5. CASE UNCHANGED vars
    BY <2>5 DEF vars, SInv, TypeOK, TokenInv, StaleInv, StaleOnlyByRace, Pending,
       NumberInv, NumberOnlyByRace, Alive, RefreshIsToken
  <2> QED
    BY <2>1, <2>2, <2>3, <2>4, <2>5 DEF Next
<1> QED
  BY <1>1, <1>2, PTL DEF Spec

\* The types of Sessions are kept by every step: what is stored as a password
\* always is the digest of one.
THEOREM TypeCorrect == Spec => []TypeOK
<1>1. SInv => TypeOK
  BY DEF SInv
<1> QED
  BY <1>1, Inductive, PTL

\* Only a race or an unfinished call lets a token outlive its password.
THEOREM StaleTokens == Spec => []StaleOnlyByRace
<1>1. SInv => StaleOnlyByRace
  BY DEF SInv, StaleInv
<1> QED
  BY <1>1, Inductive, PTL

\* Only a race leaves a number where alive expects a token.
THEOREM NumberTokens == Spec => []NumberOnlyByRace
<1>1. SInv => NumberOnlyByRace
  BY DEF SInv, NumberInv
<1> QED
  BY <1>1, Inductive, PTL

\* A refresh key holds a refresh token or nothing.
THEOREM RefreshTokens == Spec => []RefreshIsToken
<1>1. SInv => RefreshIsToken
  BY DEF SInv, NumberInv
<1> QED
  BY <1>1, Inductive, PTL

\* No step of an answered login opens its session again.
THEOREM StaysClosed == Spec => ClosedStaysClosed
<1> DEFINE Stays == \A c \in Logins, t \in Tids :
       login[c].at \notin {"idle", "found"} /\ token[t] # c => token'[t] # c
<1>1. SInv /\ [Next]_vars => [Stays]_vars
  <2> SUFFICES ASSUME SInv, Next, NEW c \in Logins, NEW t \in Tids,
                      login[c].at \notin {"idle", "found"}, token[t] # c
               PROVE  token'[t] # c
    OBVIOUS
  <2> USE DEF SInv, TypeOK
  <2>1. ASSUME NEW d \in Logins, LoginStep(d) PROVE token'[t] # c
    <3>1. CASE LoginSet(d)
      BY <2>1, <3>1 DEF LoginSet, LoginGoto
    <3>2. CASE LoginSetNx(d)
      BY <2>1, <3>2, TokenAssumption DEF LoginSetNx, SetNx
    <3>3. CASE token' = token
      BY <3>3
    <3> QED
      BY <2>1, <3>1, <3>2, <3>3 DEF LoginStep, LoginFind, RefreshSet, RefreshSetNx,
         LoginFail
  <2>2. ASSUME NEW e \in Edits, EditDel(e) PROVE token'[t] # c
    BY <2>2, TokenAssumption DEF EditDel, Drop
  <2>3. CASE token' = token
    BY <2>3
  <2> QED
    BY <2>1, <2>2, <2>3 DEF Next, ForgetStep, ForgetCheck, ForgetUpdate, ChangeUpdate,
       EditFail
<1> QED
  BY <1>1, Inductive, PTL DEF Spec, ClosedStaysClosed

(***************************************************************************)
(* The RPC account.refresh                                                 *)
(***************************************************************************)
\* Every call of account.refresh that was sent decodes to no tid.
RenewalInv ==
  /\ renewal \in [Renewals -> {Idle} \cup
       [at : {"queued", "set", "renewing", "stored", "done"}, tid : {Undefined}]]

\* A call that only moves on still decodes to none.
LEMMA RenewalMoves ==
  ASSUME RenewalInv, NEW r \in Renewals,
         NEW from \in {"queued", "set", "renewing", "stored"},
         NEW to \in {"queued", "set", "renewing", "stored", "done"}, RenewalGoto(r, from, to)
  PROVE  RenewalInv' /\ renewal[r].tid = Undefined
<1>1. renewal[r] \in [at : {"queued", "set", "renewing", "stored", "done"}, tid : {Undefined}]
  BY DEF RenewalInv, RenewalGoto
<1>2. [renewal[r] EXCEPT !.at = to] \in
        [at : {"queued", "set", "renewing", "stored", "done"}, tid : {Undefined}]
  BY <1>1
<1>3. renewal' = [renewal EXCEPT ![r] = [renewal[r] EXCEPT !.at = to]]
  BY DEF RenewalGoto
<1> QED
  BY <1>1, <1>2, <1>3 DEF RenewalInv

\* A step of account.refresh writes under no tid: nothing of Sessions changes.
LEMMA RenewalAlone ==
  ASSUME RenewalInv, NEW r \in Renewals, RenewStep(r)
  PROVE  RenewalInv' /\ UNCHANGED vars
<1>1. ASSUME NEW c \in Logins, RenewSend(r, c)
      PROVE  RenewalInv' /\ UNCHANGED vars
  BY <1>1 DEF RenewSend, DecodeTid, RenewalInv
<1>2. CASE RenewSet(r)
  <2>1. RenewalGoto(r, "queued", "set")
    BY <1>2 DEF RenewSet
  <2> QED
    BY <1>2, <2>1, RenewalMoves DEF RenewSet, Write, vars
<1>3. CASE RenewSetNx(r)
  <2>1. RenewalInv' /\ renewal[r].tid = Undefined
    BY <1>3, RenewalMoves DEF RenewSetNx
  <2> QED
    BY <1>3, <2>1 DEF RenewSetNx, Write, vars
<1>4. CASE RenewRefreshSet(r)
  <2>1. RenewalGoto(r, "renewing", "stored")
    BY <1>4 DEF RenewRefreshSet
  <2> QED
    BY <1>4, <2>1, RenewalMoves DEF RenewRefreshSet, Write, vars
<1>5. CASE RenewRefreshSetNx(r)
  <2>1. RenewalGoto(r, "stored", "done")
    BY <1>5 DEF RenewRefreshSetNx
  <2> QED
    BY <1>5, <2>1, RenewalMoves DEF RenewRefreshSetNx, Write, vars
<1>6. CASE RenewFail(r)
  <2>1. RenewalGoto(r, renewal[r].at, "queued") /\ renewal[r].at \in {"set", "renewing", "stored"}
    BY <1>6 DEF RenewFail, RenewalGoto
  <2> QED
    BY <1>6, <2>1, RenewalMoves DEF RenewFail
<1> QED
  BY <1>1, <1>2, <1>3, <1>4, <1>5, <1>6 DEF RenewStep

\* account.refresh moves no session: with it the system only does what it can
\* do without.
THEOREM RefreshMovesNone == RSpec => RefreshMovesNoSession
<1>1. RInit => RenewalInv
  BY DEF RInit, RenewalInv
<1>2. RenewalInv /\ [RNext]_rvars => RenewalInv' /\ [Next]_vars
  <2>1. ASSUME RenewalInv, NEW r \in Renewals, RenewStep(r)
        PROVE  RenewalInv' /\ UNCHANGED vars
    BY <2>1, RenewalAlone
  <2>2. ASSUME RenewalInv, UNCHANGED renewal
        PROVE  RenewalInv'
    BY <2>2 DEF RenewalInv
  <2> QED
    BY <2>1, <2>2 DEF RNext, rvars
<1> QED
  BY <1>1, <1>2, PTL DEF RSpec, RefreshMovesNoSession

\* So what Sessions promises without account.refresh holds with it.
THEOREM RefreshImplementsSessions == RSpec => Spec
<1>1. RInit => Init
  BY DEF RInit
<1> QED
  BY <1>1, RefreshMovesNone, PTL DEF RSpec, RefreshMovesNoSession, Spec
=============================================================================
