--------------------------- MODULE KeyPairProofs ---------------------------
(***************************************************************************)
(* Proofs about KeyPair, for every set of services, exports and keys.      *)
(***************************************************************************)
EXTENDS KeyPair, TLAPS

USE KeyAssumption
USE DEF Off, Dead, Idle, Format, Keys

(***************************************************************************)
(* What is behind KeysFitUnlessShared.  As long as every export was of     *)
(* both formats, alive and without company, at most one of them is between *)
(* its two files, no service is reading then, and what it has written is   *)
(* half of the one pair that its service holds.                            *)
(***************************************************************************)
Clean(e) ==
  exp[e] # Idle =>
    /\ exp[e].at \in {"begun", "done"} /\ exp[e].formats = Format
    /\ exp[e].missed = {} /\ e \notin shared

AllClean == \A e \in Exports : Clean(e)

ExportInv ==
  \A e \in Exports :
    /\ exp[e].at = "begun" =>
         /\ svc[exp[e].by].at = "up"
         /\ exp[e].left \subseteq exp[e].formats /\ exp[e].left # {}
    /\ exp[e].at = "done" => exp[e].missed = {}

Pairs == \A s \in Services : svc[s].at = "up" => svc[s].pub = svc[s].pri

Readers ==
  \A s \in Services : svc[s].at = "reading" =>
    svc[s].pub = file["pub"] /\ \A e \in Exports : ~HalfWritten(e)

Whole == (\A e \in Exports : ~HalfWritten(e)) => file["pub"] = file["pri"]

Writers ==
  /\ \A d, e \in Exports : d # e => ~(HalfWritten(d) /\ HalfWritten(e))
  /\ \A e \in Exports : HalfWritten(e) =>
       \A f \in Format \ exp[e].left : file[f] = svc[exp[e].by].pub

Fit == Pairs /\ Readers /\ Whole /\ Writers

KInv == TypeOK /\ ExportInv /\ (AllClean => Fit)

(***************************************************************************)
(* Types                                                                   *)
(***************************************************************************)
Held == [at : {"reading", "up"}, pub : Keys \cup {NoKey}, pri : Keys \cup {NoKey}]
Begun == [at : {"begun", "done", "failed", "cut"}, by : Services,
          formats : SUBSET Format, left : SUBSET Format, missed : SUBSET Format]

LEMMA ServiceTyped ==
  ASSUME TypeOK, NEW s \in Services, svc[s].at \notin {"off", "dead"}
  PROVE  svc[s] \in Held
BY DEF TypeOK, Service, Held

LEMMA ExportTyped ==
  ASSUME TypeOK, NEW e \in Exports, exp[e].at # "idle"
  PROVE  exp[e] \in Begun
BY DEF TypeOK, Export, Begun

\* The keys of a service by format.
LEMMA KeyOfFormat ==
  ASSUME NEW h \in Held, NEW f \in Format
  PROVE  /\ h[f] \in Keys \cup {NoKey}
         /\ h.pub = h.pri => h[f] = h.pub
BY DEF Held

LEMMA InitInv == Init => KInv
BY DEF Init, KInv, TypeOK, Service, Export, ExportInv, Fit, Pairs, Readers, Whole,
       Writers, HalfWritten

(***************************************************************************)
(* The steps                                                               *)
(***************************************************************************)
\* A service that is constructed, or dies of it, disturbs no other one.
LEMMA GenerateInv ==
  ASSUME KInv, NEW s \in Services, Generate(s) \/ GenerateFail(s)
  PROVE  KInv'
<1> PICK h \in Held \cup {Dead} :
                      /\ svc[s] = Off /\ svc' = [svc EXCEPT ![s] = h]
                      /\ h.at \in {"up", "dead"} /\ (h.at = "up" => h.pub = h.pri)
  <2> DEFINE made == [at |-> "up", pub |-> s, pri |-> s]
  <2>1. made \in Held
    BY DEF Held
  <2>2. svc[s] = Off
    BY DEF Generate, GenerateFail
  <2>3. svc' = [svc EXCEPT ![s] = made] \/ svc' = [svc EXCEPT ![s] = Dead]
    BY DEF Generate, GenerateFail, Start, Pair
  <2> QED
    BY <2>1, <2>2, <2>3
<1>1. file' = file /\ exp' = exp /\ shared' = shared
  BY DEF Generate, GenerateFail
<1>2. svc'[s] = h /\ \A r \in Services \ {s} : svc'[r] = svc[r]
  BY DEF KInv, TypeOK
<1>3. TypeOK'
  BY <1>1 DEF KInv, TypeOK, Service, Held
<1>4. \A e \in Exports : exp[e].at = "begun" => exp[e].by \in Services \ {s}
  BY ExportTyped DEF KInv, ExportInv, Begun
<1>5. ExportInv'
  BY <1>1, <1>2, <1>4 DEF KInv, ExportInv
<1>6. ASSUME AllClean'
      PROVE  Fit'
  <2>1. AllClean
    BY <1>1, <1>6 DEF AllClean, Clean
  <2>2. Pairs' /\ Readers' /\ Whole'
    BY <1>1, <1>2, <2>1 DEF KInv, Fit, Pairs, Readers, Whole, HalfWritten
  <2>3. Writers'
    BY <1>1, <1>2, <1>4, <2>1 DEF KInv, Fit, Writers, HalfWritten
  <2> QED
    BY <2>2, <2>3 DEF Fit
<1> QED
  BY <1>3, <1>5, <1>6 DEF KInv

\* Whoever reads while an export is between its files spoils it.
LEMMA ReadInv ==
  ASSUME KInv, NEW s \in Services, ReadPub(s) \/ ReadPri(s)
  PROVE  KInv'
<1>1. /\ file' = file /\ exp' = exp
      /\ shared' = shared \cup {e \in Exports : HalfWritten(e)}
      /\ svc[s].at \in {"off", "reading"}
  BY DEF ReadPub, ReadPri
<1> PICK h \in Held \cup {Dead} :
      /\ svc' = [svc EXCEPT ![s] = h]
      /\ h.at = "reading" => ReadPub(s) /\ h.pub = file["pub"]
      /\ h.at = "up" => svc[s].at = "reading" /\ h.pub = svc[s].pub /\ h.pri = file["pri"]
  <2>1. CASE ReadPub(s)
    <3> DEFINE read == [at |-> "reading", pub |-> file["pub"], pri |-> NoKey]
    <3>1. file["pub"] \in Keys \cup {NoKey}
      BY DEF KInv, TypeOK
    <3>2. read \in Held
      BY <3>1 DEF Held
    <3>3. svc' = [svc EXCEPT ![s] = read] \/ svc' = [svc EXCEPT ![s] = Dead]
      BY <2>1 DEF ReadPub, Start
    <3> QED
      BY <2>1, <3>2, <3>3
  <2>2. CASE ReadPri(s)
    <3>1. file["pri"] \in Keys \cup {NoKey}
      BY DEF KInv, TypeOK
    <3>2. svc[s].pub \in Keys \cup {NoKey}
      BY <2>2, ServiceTyped DEF ReadPri, KInv, Held
    <3> DEFINE read == [at |-> "up", pub |-> svc[s].pub, pri |-> file["pri"]]
    <3>3. read \in Held
      BY <3>1, <3>2 DEF Held
    <3>4. /\ svc[s].at = "reading"
          /\ svc' = [svc EXCEPT ![s] = read] \/ svc' = [svc EXCEPT ![s] = Dead]
      BY <2>2 DEF ReadPri, Start
    <3> QED
      BY <3>3, <3>4
  <2> QED
    BY <2>1, <2>2
<1>2. svc'[s] = h /\ \A r \in Services \ {s} : svc'[r] = svc[r]
  BY DEF KInv, TypeOK
<1>3. TypeOK'
  BY <1>1 DEF KInv, TypeOK, Service, Held
<1>4. \A e \in Exports : exp[e].at = "begun" => exp[e].by \in Services \ {s}
  BY <1>1, ExportTyped DEF KInv, ExportInv, Begun
<1>5. ExportInv'
  BY <1>1, <1>2, <1>4 DEF KInv, ExportInv
<1>6. ASSUME AllClean'
      PROVE  Fit'
  <2>1. AllClean /\ \A e \in Exports : ~HalfWritten(e)
    BY <1>1, <1>6 DEF AllClean, Clean, HalfWritten
  <2>2. file["pub"] = file["pri"]
    BY <2>1 DEF KInv, Fit, Whole
  <2>3. \A e \in Exports : ~HalfWritten(e)'
    BY <1>1, <2>1 DEF HalfWritten
  <2>4. Pairs'
    BY <1>2, <2>1, <2>2 DEF KInv, Fit, Pairs, Readers, Held
  <2>5. Readers'
    BY <1>1, <1>2, <2>1, <2>3 DEF KInv, Fit, Readers
  <2>6. Whole' /\ Writers'
    BY <1>1, <2>2, <2>3 DEF Whole, Writers
  <2> QED
    BY <2>4, <2>5, <2>6 DEF Fit
<1> QED
  BY <1>3, <1>5, <1>6 DEF KInv

LEMMA BeginInv ==
  ASSUME KInv, NEW e \in Exports, NEW s \in Services, NEW fs \in {{"pub"}, {"pri"}, Format},
         ExportBegin(e, s, fs)
  PROVE  KInv'
<1> DEFINE new == [at |-> "begun", by |-> s, formats |-> fs, left |-> fs,
                   missed |-> {}]
<1>1. /\ exp[e] = Idle /\ svc[s].at = "up" /\ exp' = [exp EXCEPT ![e] = new]
      /\ file' = file /\ svc' = svc /\ shared' = shared
  BY DEF ExportBegin, Formats
<1>2. exp'[e] = new /\ \A d \in Exports \ {e} : exp'[d] = exp[d]
  BY <1>1 DEF KInv, TypeOK
<1>3. TypeOK'
  BY <1>1 DEF KInv, TypeOK, Export
<1>4. ExportInv'
  BY <1>1, <1>2 DEF KInv, ExportInv
<1>5. \A d \in Exports : HalfWritten(d)' <=> HalfWritten(d)
  BY <1>1, <1>2 DEF HalfWritten
<1>6. ASSUME AllClean'
      PROVE  Fit'
  <2>1. AllClean
    <3>1. Clean(e)
      BY <1>1 DEF Clean
    <3>2. \A d \in Exports \ {e} : Clean(d)
      BY <1>1, <1>2, <1>6 DEF AllClean, Clean
    <3> QED
      BY <3>1, <3>2 DEF AllClean
  <2>2. Pairs' /\ Readers' /\ Whole'
    BY <1>1, <1>5, <2>1 DEF KInv, Fit, Pairs, Readers, Whole
  <2>3. ~HalfWritten(e)
    BY <1>1 DEF HalfWritten
  <2>4. Writers'
    BY <1>1, <1>2, <1>5, <2>1, <2>3 DEF KInv, Fit, Writers
  <2> QED
    BY <2>2, <2>4 DEF Fit
<1> QED
  BY <1>3, <1>4, <1>6 DEF KInv

\* What a write does to its export, whether it throws or not.
LEMMA WroteMoves ==
  ASSUME KInv, NEW e \in Exports, NEW f \in Format, NEW missed \in SUBSET Format,
         Wrote(e, f, missed)
  PROVE  /\ exp[e].at = "begun" /\ f \in exp[e].left /\ exp[e] \in Begun
         /\ exp[e].by \in Services /\ svc[exp[e].by].at = "up"
         /\ svc[exp[e].by] \in Held
         /\ exp'[e].at = (IF exp[e].left # {f} THEN "begun"
                          ELSE IF missed = {} THEN "done" ELSE "failed")
         /\ exp'[e].left = exp[e].left \ {f} /\ exp'[e].missed = missed
         /\ exp'[e].by = exp[e].by /\ exp'[e].formats = exp[e].formats
         /\ exp'[e] \in Begun /\ exp' \in [Exports -> Export]
         /\ \A d \in Exports \ {e} : exp'[d] = exp[d]
         /\ svc' = svc /\ ExportInv'
<1>1. exp[e].at = "begun" /\ f \in exp[e].left /\ svc' = svc
  BY DEF Wrote, Due
<1>2. exp[e] \in Begun /\ exp[e].by \in Services /\ svc[exp[e].by].at = "up"
  BY <1>1, ExportTyped DEF KInv, ExportInv, Begun
<1>3. svc[exp[e].by] \in Held
  BY <1>2, ServiceTyped DEF KInv
<1> DEFINE at == IF exp[e].left # {f} THEN "begun"
                 ELSE IF missed = {} THEN "done" ELSE "failed"
           new == [exp[e] EXCEPT !.left = @ \ {f}, !.missed = missed, !.at = at]
<1>4. exp' = [exp EXCEPT ![e] = new]
  BY DEF Wrote
<1>5. /\ new.at = at /\ new.left = exp[e].left \ {f} /\ new.missed = missed
      /\ new.by = exp[e].by /\ new.formats = exp[e].formats
      /\ new \in Begun /\ new \in Export
  BY <1>2 DEF Begun, Export
<1> HIDE DEF new
<1>6. exp'[e] = new /\ exp' \in [Exports -> Export] /\ \A d \in Exports \ {e} : exp'[d] = exp[d]
  BY <1>4, <1>5 DEF KInv, TypeOK
<1>7. /\ new.at = "begun" => new.left # {}
      /\ new.at = "done" => new.missed = {}
      /\ new.left \subseteq new.formats
  BY <1>1, <1>2, <1>5 DEF KInv, ExportInv
<1>8. ExportInv'
  <2>1. ASSUME NEW d \in Exports \ {e}
        PROVE  /\ exp'[d].at = "begun" =>
                    /\ svc'[exp'[d].by].at = "up"
                    /\ exp'[d].left \subseteq exp'[d].formats /\ exp'[d].left # {}
               /\ exp'[d].at = "done" => exp'[d].missed = {}
    BY <1>1, <1>6, <2>1 DEF KInv, ExportInv
  <2>2. /\ exp'[e].at = "begun" =>
             /\ svc'[exp'[e].by].at = "up"
             /\ exp'[e].left \subseteq exp'[e].formats /\ exp'[e].left # {}
        /\ exp'[e].at = "done" => exp'[e].missed = {}
    BY <1>1, <1>2, <1>5, <1>6, <1>7
  <2> QED
    BY <2>1, <2>2 DEF ExportInv
<1> QED
  BY <1>1, <1>2, <1>3, <1>5, <1>6, <1>8

\* The step that matters: with nobody between, the second file of an export
\* gets the other half of the pair whose first half it has written.
LEMMA WriteInv ==
  ASSUME KInv, NEW e \in Exports, NEW f \in Format, ExportWrite(e, f)
  PROVE  KInv'
<1> DEFINE s == exp[e].by
           k == svc[s][f]
           left == exp[e].left \ {f}
<1>1. /\ file' = [file EXCEPT ![f] = k]
      /\ shared' = IF SomebodyBetween(e) THEN shared \cup {e} ELSE shared
  BY DEF ExportWrite, Wrote
<1>2. /\ exp[e].at = "begun" /\ f \in exp[e].left /\ svc' = svc
      /\ exp[e] \in Begun /\ s \in Services /\ svc[s].at = "up" /\ svc[s] \in Held
      /\ exp'[e].at = "begun" \/ left = {}
      /\ exp'[e].at = "done" => left = {}
      /\ exp'[e].left = left /\ exp'[e].by = s /\ exp'[e].formats = exp[e].formats
      /\ exp'[e].missed = exp[e].missed
      /\ exp'[e] \in Begun /\ exp' \in [Exports -> Export]
      /\ \A d \in Exports \ {e} : exp'[d] = exp[d]
      /\ ExportInv'
  <2>1. exp[e].missed \in SUBSET Format
    BY ExportTyped DEF ExportWrite, Wrote, KInv, Begun
  <2>2. Wrote(e, f, exp[e].missed)
    BY DEF ExportWrite
  <2> QED
    BY <2>1, <2>2, WroteMoves
<1>3. k \in Keys \cup {NoKey}
  BY <1>2, KeyOfFormat
<1>4. TypeOK'
  BY <1>1, <1>2, <1>3 DEF KInv, TypeOK
<1>5. ASSUME AllClean'
      PROVE  Fit'
  <2>1. e \notin shared' /\ exp[e].formats = Format
    BY <1>2, <1>5 DEF AllClean, Clean, Begun
  <2>2. ~SomebodyBetween(e) /\ shared' = shared
    BY <1>1, <2>1
  <2>3. AllClean
    <3>1. exp'[e] # Idle /\ exp'[e].missed = {}
      BY <1>2, <1>5 DEF AllClean, Clean, Begun
    <3>2. Clean(e)
      BY <1>2, <2>1, <2>2, <3>1 DEF Clean
    <3>3. \A d \in Exports \ {e} : Clean(d)
      BY <1>2, <1>5, <2>2 DEF AllClean, Clean
    <3> QED
      BY <3>2, <3>3 DEF AllClean
  <2>4. /\ \A d \in Exports \ {e} : ~HalfWritten(d) /\ ~HalfWritten(d)'
        /\ \A r \in Services : svc[r].at # "reading"
    BY <1>2, <2>2 DEF SomebodyBetween, HalfWritten
  <2>5. Pairs' /\ Readers'
    BY <1>1, <1>2, <2>3, <2>4 DEF KInv, Fit, Pairs, Readers
  <2>6. k = svc[s].pub
    BY <1>2, <2>3, KeyOfFormat DEF KInv, Fit, Pairs
  <2>7. file'[f] = k /\ \A g \in Format \ {f} : file'[g] = file[g]
    BY <1>1 DEF KInv, TypeOK
  <2>8. \A g \in Format \ left : file'[g] = k
    <3> SUFFICES ASSUME NEW g \in Format \ left, g # f
                 PROVE  file'[g] = k
      BY <2>7
    <3>1. g \notin exp[e].left
      OBVIOUS
    <3>2. HalfWritten(e)
      BY <1>2, <2>1, <3>1 DEF HalfWritten
    <3>3. file[g] = svc[s].pub
      BY <2>3, <3>1, <3>2 DEF KInv, Fit, Writers
    <3> QED
      BY <2>6, <2>7, <3>3
  <2>9. Writers'
    BY <1>1, <1>2, <2>4, <2>6, <2>8 DEF Writers
  <2>10. Whole'
    <3> SUFFICES ASSUME ~HalfWritten(e)'
                 PROVE  file'["pub"] = file'["pri"]
      BY DEF Whole
    <3>1. left = {}
      BY <1>2, <2>1 DEF HalfWritten, Begun
    <3> QED
      BY <2>8, <3>1
  <2> QED
    BY <2>5, <2>9, <2>10 DEF Fit
<1> QED
  BY <1>2, <1>4, <1>5 DEF KInv

\* An export with a write that has thrown is not clean.
LEMMA ThrowInv ==
  ASSUME KInv, NEW e \in Exports, NEW f \in Format, ExportFail(e, f)
  PROVE  KInv'
<1>1. /\ exp'[e].missed # {} /\ exp'[e] \in Begun /\ exp' \in [Exports -> Export]
      /\ svc' = svc /\ ExportInv'
  <2> DEFINE missed == exp[e].missed \cup {f}
  <2>1. missed \in SUBSET Format
    BY ExportTyped DEF ExportFail, Wrote, KInv, Begun
  <2>2. Wrote(e, f, missed)
    BY DEF ExportFail
  <2>3. missed # {}
    OBVIOUS
  <2> HIDE DEF missed
  <2> QED
    BY <2>1, <2>2, <2>3, WroteMoves
<1>2. /\ file' \in {file, [file EXCEPT ![f] = NoKey]} /\ shared' \in {shared, shared \cup {e}}
  BY DEF ExportFail, Wrote
<1>3. TypeOK'
  BY <1>1, <1>2 DEF KInv, TypeOK
<1>4. exp'[e] # Idle
  BY <1>1 DEF Begun
<1>5. ~AllClean'
  BY <1>1, <1>4 DEF AllClean, Clean
<1> QED
  BY <1>1, <1>3, <1>5 DEF KInv

\* An export whose process dies is not clean, so nothing has begun.
LEMMA CrashInv ==
  ASSUME KInv, NEW s \in Services, Crash(s)
  PROVE  KInv'
<1> DEFINE mine(e) == exp[e].at = "begun" /\ exp[e].by = s
<1>1. /\ svc[s].at \in {"reading", "up"} /\ svc' = [svc EXCEPT ![s] = Dead]
      /\ exp' = [e \in Exports |-> IF mine(e) THEN [exp[e] EXCEPT !.at = "cut"] ELSE exp[e]]
      /\ file' = file /\ shared' = shared
  BY DEF Crash
<1>2. /\ svc'[s] = Dead
      /\ \A r \in Services \ {s} : svc'[r] = svc[r]
      /\ svc' \in [Services -> Service]
  BY <1>1 DEF KInv, TypeOK, Service
<1>3. \A e \in Exports : /\ mine(e) => exp'[e] = [exp[e] EXCEPT !.at = "cut"]
                         /\ ~mine(e) => exp'[e] = exp[e]
  BY <1>1
<1>4. \A e \in Exports : mine(e) => exp'[e] \in Begun /\ exp'[e].at = "cut"
  <2> SUFFICES ASSUME NEW e \in Exports, mine(e)
               PROVE  exp'[e] \in Begun /\ exp'[e].at = "cut"
    OBVIOUS
  <2>1. exp[e] \in Begun
    BY ExportTyped DEF KInv
  <2>2. exp'[e] = [exp[e] EXCEPT !.at = "cut"]
    BY <1>3
  <2> QED
    BY <2>1, <2>2 DEF Begun
<1>5. TypeOK'
  <2>1. \A e \in Exports : exp'[e] \in Export
    BY <1>3, <1>4 DEF KInv, TypeOK, Export, Begun
  <2> QED
    BY <1>1, <1>2, <2>1 DEF KInv, TypeOK
<1>6. ExportInv'
  <2> SUFFICES ASSUME NEW e \in Exports, exp'[e].at \in {"begun", "done"}
               PROVE  /\ exp'[e].at = "begun" =>
                           /\ svc'[exp'[e].by].at = "up"
                           /\ exp'[e].left \subseteq exp'[e].formats
                           /\ exp'[e].left # {}
                      /\ exp'[e].at = "done" => exp'[e].missed = {}
    BY DEF ExportInv
  <2>1. exp'[e] = exp[e] /\ (exp[e].at = "begun" => exp[e].by # s)
    BY <1>3, <1>4
  <2>2. exp[e].by \in Services
    BY <2>1, ExportTyped DEF KInv, Begun
  <2> QED
    BY <1>2, <2>1, <2>2 DEF KInv, ExportInv
<1>7. ASSUME AllClean'
      PROVE  Fit'
  <2>1. \A e \in Exports : ~mine(e)
    BY <1>4, <1>7 DEF AllClean, Clean
  <2>2. \A e \in Exports : exp'[e] = exp[e]
    BY <1>3, <2>1
  <2>3. AllClean
    BY <1>1, <1>7, <2>2 DEF AllClean, Clean
  <2>4. \A e \in Exports : HalfWritten(e)' <=> HalfWritten(e)
    BY <2>2 DEF HalfWritten
  <2>5. Pairs' /\ Readers' /\ Whole'
    BY <1>1, <1>2, <2>3, <2>4 DEF KInv, Fit, Pairs, Readers, Whole
  <2>6. \A e \in Exports : HalfWritten(e) => exp[e].by \in Services \ {s}
    BY <2>1, ExportTyped DEF KInv, Begun, HalfWritten
  <2>7. Writers'
    BY <1>1, <1>2, <2>2, <2>3, <2>4, <2>6 DEF KInv, Fit, Writers
  <2> QED
    BY <2>5, <2>7 DEF Fit
<1> QED
  BY <1>5, <1>6, <1>7 DEF KInv

LEMMA StepInv == KInv /\ [Next]_vars => KInv'
<1> SUFFICES ASSUME KInv, [Next]_vars
             PROVE  KInv'
  OBVIOUS
<1>1. ASSUME NEW s \in Services, Generate(s) \/ GenerateFail(s)
      PROVE  KInv'
  BY <1>1, GenerateInv
<1>2. ASSUME NEW s \in Services, ReadPub(s) \/ ReadPri(s)
      PROVE  KInv'
  BY <1>2, ReadInv
<1>3. ASSUME NEW s \in Services, Crash(s)
      PROVE  KInv'
  BY <1>3, CrashInv
<1>4. ASSUME NEW e \in Exports, NEW s \in Services, NEW fs \in {{"pub"}, {"pri"}, Format},
             ExportBegin(e, s, fs)
      PROVE  KInv'
  BY <1>4, BeginInv
<1>5. ASSUME NEW e \in Exports, Write(e)
      PROVE  KInv'
  BY <1>5, WriteInv, ThrowInv DEF Write
<1>6. CASE UNCHANGED vars
  BY <1>6 DEF vars, KInv, TypeOK, ExportInv, AllClean, Clean, Fit, Pairs, Readers,
              Whole, Writers, HalfWritten
<1> QED
  BY <1>1, <1>2, <1>3, <1>4, <1>5, <1>6 DEF Next

LEMMA Invariant == Spec => []KInv
BY InitInv, StepInv, PTL DEF Spec

(***************************************************************************)
(* The theorems                                                            *)
(***************************************************************************)
\* Every variable of KeyPair keeps its type.
THEOREM KeyPairTypes == Spec => []TypeOK
<1>1. KInv => TypeOK
  BY DEF KInv
<1> QED
  BY <1>1, Invariant, PTL

\* The keys in the files of export fit each other, and those of a service
\* too, unless an export was of one format, cut off, unfinished or disturbed.
THEOREM KeysFit == Spec => []KeysFitUnlessShared
<1>1. ASSUME KInv, ExportsWhole
      PROVE  /\ file["pub"] = file["pri"]
             /\ \A s \in Services : svc[s].at = "up" /\ Unlocked(s) =>
                  Decrypts(s, Encrypt(s)) /\ Verified(s, Encrypt(s))
  <2>1. ASSUME NEW e \in Exports
        PROVE  Clean(e) /\ ~HalfWritten(e)
    <3>1. exp[e] # Idle => exp[e].at = "done" /\ exp[e].formats = Format /\ e \notin shared
      BY <1>1 DEF ExportsWhole
    <3>2. exp[e].at # "begun"
      BY <3>1
    <3>3. exp[e].at = "done" => exp[e].missed = {}
      BY <1>1 DEF KInv, ExportInv
    <3> QED
      BY <3>1, <3>2, <3>3 DEF Clean, HalfWritten
  <2>2. file["pub"] = file["pri"] /\ Pairs
    BY <1>1, <2>1 DEF KInv, AllClean, Fit, Whole
  <2> QED
    BY <2>2 DEF Pairs, Encrypt, Decrypts, Verified
<1>2. KInv => KeysFitUnlessShared
  BY <1>1 DEF KeysFitUnlessShared
<1> QED
  BY <1>2, Invariant, PTL
=============================================================================
