------------------------------ MODULE KeyPair ------------------------------
(***************************************************************************)
(* KeyPairService: a pair of keys that is generated, or read from two      *)
(* files, when the service is constructed; encrypt and decrypt with it;    *)
(* and export, which writes the files.  Export of both formats answers     *)
(* with two promises, each for one file, that nobody has awaited: a file   *)
(* is written by one step, which may fail, and other processes read and    *)
(* write the same files in between.  openpgp is external: a key is named   *)
(* by the service that generated it, and a public key fits the private key *)
(* of that name.                                                           *)
(***************************************************************************)
EXTENDS Naturals, FiniteSets

CONSTANTS
  Services,    \* services, each constructed at most once; a restart is another
  Exports,     \* calls of export
  Provided,    \* keys that come in files from elsewhere
  Protected,   \* those of them whose private key has a passphrase
  NoKey        \* no file, one without a key, or a key that was not read yet

ASSUME KeyAssumption ==
  /\ NoKey \notin Services \cup Provided
  /\ Services \cap Provided = {}
  /\ Protected \subseteq Provided

VARIABLES
  file,        \* the key in the file of each format
  svc,         \* state of each service
  exp,         \* state of each call of export
  shared       \* history: exports that wrote a file while another export was
               \* between its two files or a service between its two reads,
               \* or that were between their files while a service read one

vars == <<file, svc, exp, shared>>

Format == {"pub", "pri"}
Keys == Services \cup Provided
Off == [at |-> "off"]
Dead == [at |-> "dead"]
Idle == [at |-> "idle"]
Service == {Off, Dead} \cup [at : {"reading", "up"}, pub : Keys \cup {NoKey},
                                                   pri : Keys \cup {NoKey}]
Export == {Idle} \cup [at : {"begun", "done", "failed", "cut"}, by : Services,
                       formats : SUBSET Format, left : SUBSET Format,
                       missed : SUBSET Format]

Init ==
  /\ \E k \in Provided \cup {NoKey} : file = [f \in Format |-> k]
  /\ svc = [s \in Services |-> Off]
  /\ exp = [e \in Exports |-> Idle]
  /\ shared = {}

\* An export that has written one of its two files.
HalfWritten(e) ==
  exp[e].at = "begun" /\ exp[e].left # exp[e].formats

(***************************************************************************)
(* The constructor                                                         *)
(***************************************************************************)
Start(s, at, pub, pri) == svc' = [svc EXCEPT ![s] = [at |-> at, pub |-> pub, pri |-> pri]]

\* Both keys are parts of one generated pair; the private one is unlocked.
Pair(s) == [pub |-> s, pri |-> s]

Generate(s) ==
  /\ svc[s] = Off
  /\ Start(s, "up", Pair(s).pub, Pair(s).pri)
  /\ UNCHANGED <<file, exp, shared>>

\* A passphrase that is missing or wrong: the promise of the private key is
\* rejected, which ends a process that does not expect it.
GenerateFail(s) ==
  /\ svc[s] = Off
  /\ svc' = [svc EXCEPT ![s] = Dead]
  /\ UNCHANGED <<file, exp, shared>>

\* readFileSync of one file and then of the other; it throws when there is none.
ReadPub(s) ==
  /\ svc[s] = Off
  /\ IF file["pub"] = NoKey THEN svc' = [svc EXCEPT ![s] = Dead]
                            ELSE Start(s, "reading", file["pub"], NoKey)
  /\ shared' = shared \cup {e \in Exports : HalfWritten(e)}
  /\ UNCHANGED <<file, exp>>

ReadPri(s) ==
  /\ svc[s].at = "reading"
  /\ IF file["pri"] = NoKey THEN svc' = [svc EXCEPT ![s] = Dead]
                            ELSE Start(s, "up", svc[s].pub, file["pri"])
  /\ shared' = shared \cup {e \in Exports : HalfWritten(e)}
  /\ UNCHANGED <<file, exp>>

(***************************************************************************)
(* encrypt and decrypt                                                     *)
(***************************************************************************)
\* A message is made for the holder of one key and signed with another.
Encrypt(s) == [for |-> svc[s].pub, signed |-> svc[s].pri]

\* A key that was read from a file is never given its passphrase.
Unlocked(s) == svc[s].pri \notin Protected

\* What decrypt answers with: the message, and whether its signature is good.
Decrypts(s, m) == Unlocked(s) /\ m.for = svc[s].pri
Verified(s, m) == m.signed = svc[s].pub

(***************************************************************************)
(* export                                                                  *)
(***************************************************************************)
FormatsLast(fs) == IF Cardinality(fs) > 1 THEN {"pri"} ELSE fs  \* fault
Formats(fs) == fs

ExportBegin(e, s, fs) ==
  /\ exp[e] = Idle /\ svc[s].at = "up"
  /\ exp' = [exp EXCEPT ![e] =
               [at |-> "begun", by |-> s, formats |-> fs, left |-> Formats(fs),
                missed |-> {}]]
  /\ UNCHANGED <<file, svc, shared>>

\* A write comes upon another export or a service.
SomebodyBetween(e) ==
  \/ \E d \in Exports \ {e} : HalfWritten(d)
  \/ \E s \in Services : svc[s].at = "reading"

\* The formats whose promise is still to be kept.
DueFirst(e) == IF exp[e].left = exp[e].formats THEN exp[e].left ELSE {}  \* fault
Due(e) == exp[e].left

\* One write is over; missed names the ones that failed.
Wrote(e, f, missed) ==
  /\ exp[e].at = "begun" /\ f \in Due(e)
  /\ exp' = [exp EXCEPT ![e].left = @ \ {f}, ![e].missed = missed,
                        ![e].at = IF exp[e].left # {f} THEN "begun"
                                  ELSE IF missed = {} THEN "done" ELSE "failed"]
  /\ shared' = IF SomebodyBetween(e) THEN shared \cup {e} ELSE shared
  /\ UNCHANGED svc

\* writeFileSync of key.pub or key.pri, when its key is there.
ExportWrite(e, f) ==
  /\ Wrote(e, f, exp[e].missed)
  /\ file' = [file EXCEPT ![f] = svc[exp[e].by][f]]

\* It throws, to whoever awaits this promise, before or after the file was
\* emptied; the other promise of the export is kept or not for itself.
ExportFail(e, f) ==
  /\ Wrote(e, f, exp[e].missed \cup {f})
  /\ file' \in {file, [file EXCEPT ![f] = NoKey]}

\* The process dies, be it of a write that throws and that nobody awaits.
CrashKeeps(s) ==  \* fault
  /\ svc[s].at \in {"reading", "up"}
  /\ svc' = [svc EXCEPT ![s].at = "off"]
  /\ UNCHANGED <<file, exp, shared>>

Crash(s) ==
  /\ svc[s].at \in {"reading", "up"}
  /\ svc' = [svc EXCEPT ![s] = Dead]
  /\ exp' = [e \in Exports |-> IF exp[e].at = "begun" /\ exp[e].by = s
                                 THEN [exp[e] EXCEPT !.at = "cut"] ELSE exp[e]]
  /\ UNCHANGED <<file, shared>>

Write(e) == \E f \in Format : ExportWrite(e, f) \/ ExportFail(e, f)

Next ==
  \/ \E s \in Services : \/ Generate(s) \/ GenerateFail(s)
                         \/ ReadPub(s) \/ ReadPri(s)
                         \/ Crash(s)
  \/ \E e \in Exports : \/ \E s \in Services, fs \in {{"pub"}, {"pri"}, Format} :
                             ExportBegin(e, s, fs)
                        \/ Write(e)

Spec == Init /\ [][Next]_vars

\* The event loop runs the continuation of every promise, to write or to throw.
LiveSpec == Spec /\ \A e \in Exports : WF_vars(Write(e))

(***************************************************************************)
(* Properties                                                              *)
(***************************************************************************)

\* Every variable has its type.
TypeOK ==
  /\ file \in [Format -> Keys \cup {NoKey}]
  /\ svc \in [Services -> Service]
  /\ exp \in [Exports -> Export]
  /\ shared \subseteq Exports

\* Every export that has begun was of both formats, finished, and alone.
ExportsWhole ==
  \A e \in Exports : exp[e] # Idle =>
    exp[e].at = "done" /\ exp[e].formats = Format /\ e \notin shared

\* The two files hold halves of one pair, and a service reads and verifies what
\* it has encrypted itself, unless an export was of one format, has not
\* finished, missed a file, was cut off by the end of its process, or had
\* company; or the key of the service has a passphrase.
KeysFitUnlessShared ==
  ExportsWhole =>
    /\ file["pub"] = file["pri"]
    /\ \A s \in Services : svc[s].at = "up" /\ Unlocked(s) =>
         Decrypts(s, Encrypt(s)) /\ Verified(s, Encrypt(s))

\* An export comes to its end, though nobody awaits its promises: it has
\* written all its files, or a write has thrown, or its process has ended.
ExportEnds ==
  \A e \in Exports :
    exp[e].at = "begun" ~> exp[e].at \in {"done", "failed", "cut"}
=============================================================================
