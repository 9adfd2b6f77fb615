---------------------------- MODULE WizardProofs ----------------------------
(***************************************************************************)
(* Theorems about Wizard, for every number of requests in flight, every    *)
(* note and everything the diagnostics may find.                           *)
(*                                                                         *)
(* A document is saved whole, so what is true of the saved document has to *)
(* be carried through the copies the suspended requests hold: Inv says it  *)
(* of both.  That only a request somebody else overtook undoes a note is   *)
(* the last conjunct: a copy nobody saved since is the saved document.     *)
(* For the capture, that it is disarmed before it waits is enough.         *)
(***************************************************************************)
EXTENDS Wizard, TLAPS

AsStatus(ok) == IF ok THEN "passed" ELSE "failed"

(* A document whose automatic verdicts follow from its evidence.            *)
Evident(p) ==
  /\ p \in Progress
  /\ \A n \in Stages : p.stages[n].by = "judge" =>
       /\ n \in 1..3 => p.diagnostics # Nothing
       /\ n = 4 => p.idle # Nothing
       /\ n \in 1..4
       /\ p.stages[n].status = AsStatus(Verdict(p, n))

Made(r) == request[r] \notin {NotMade, Over}

Inv ==
  /\ TypeOK
  /\ Evident(saved)
  /\ copy \in [Requests -> Progress] /\ \A r \in Requests : Evident(copy[r])
  /\ request \in [Requests -> {NotMade, Over, [kind |-> "diagnostics"], [kind |-> "status"]}
                              \cup {[kind |-> "mark", stage |-> n] : n \in Stages}]
  /\ \A r \in Requests : Made(r) => r \in raced \/ copy[r] = saved
  /\ fresh \in Nat
  /\ fresh <= 1
  /\ armed => fresh = 0
  /\ armed \in BOOLEAN

-----------------------------------------------------------------------------
(* The document                                                             *)

LEMMA InitialIsEvident == Evident(initialProgress)
BY DEF Evident, initialProgress, Progress, StageState, Statuses

(* A verdict on other evidence leaves a stage alone, and the stage it is on *)
(* gets the verdict of the evidence that is in the document.                *)
LEMMA SetAutoShape ==
  ASSUME NEW p \in Progress, NEW n, NEW ok \in BOOLEAN
  PROVE  /\ setAuto(p, n, ok) \in Progress
         /\ setAuto(p, n, ok).diagnostics = p.diagnostics
         /\ setAuto(p, n, ok).idle = p.idle
         /\ \A m \in Stages : setAuto(p, n, ok).stages[m].note = p.stages[m].note
         /\ \A m \in Stages \ {n} : setAuto(p, n, ok).stages[m] = p.stages[m]
         /\ n \in Stages => /\ setAuto(p, n, ok).stages[n].by = "judge"
                            /\ setAuto(p, n, ok).stages[n].status = AsStatus(ok)
<1> DEFINE verdict == AsStatus(ok)
           q == setAuto(p, n, ok)
<1>1. verdict \in Statuses
  BY DEF Statuses, AsStatus
<1>2. CASE n \notin Stages
  BY <1>2 DEF setAuto
<1>3. CASE n \in Stages
  <2>1. q = [p EXCEPT !.stages[n].status = verdict, !.stages[n].by = "judge"]
    BY <1>3 DEF setAuto, AsStatus
  <2> HIDE DEF verdict, q
  <2>2. /\ q.stages = [p.stages EXCEPT ![n] = [p.stages[n] EXCEPT !.status = verdict, !.by = "judge"]]
        /\ q.diagnostics = p.diagnostics /\ q.idle = p.idle
        /\ q = [stages |-> q.stages, diagnostics |-> q.diagnostics, idle |-> q.idle]
    BY <1>3, <2>1 DEF Progress, StageState
  <2> DEFINE old == p.stages[n]
             new == [old EXCEPT !.status = verdict, !.by = "judge"]
  <2>3. p.stages \in [Stages -> StageState] /\ old \in StageState
    BY <1>3 DEF Progress
  <2>4. /\ new.status = verdict /\ new.note = old.note /\ new.by = "judge"
        /\ new \in StageState
    BY <1>1, <2>3 DEF StageState
  <2>5. q.stages = [p.stages EXCEPT ![n] = new]
    BY <2>2
  <2> HIDE DEF old, new
  <2>6. /\ q.stages[n] = new
        /\ \A m \in Stages \ {n} : q.stages[m] = p.stages[m]
        /\ q.stages \in [Stages -> StageState]
    BY <1>3, <2>3, <2>4, <2>5
  <2>7. q \in Progress
    BY <2>2, <2>6 DEF Progress
  <2>8. QED
    BY <1>3, <2>2, <2>6, <2>7, <2>4 DEF verdict, q, old
<1>4. QED
  BY <1>2, <1>3

LEMMA JudgedIsEvident ==
  ASSUME NEW p, Evident(p), NEW result \in Results
  PROVE  LET q == Judged([p EXCEPT !.diagnostics = result], result)
         IN  Evident(q) /\ \A m \in Stages : q.stages[m].note = p.stages[m].note
<1> DEFINE p0 == [p EXCEPT !.diagnostics = result]
           ok1 == result.mqtt_reachable /\ result.ftps_reachable
           ok2 == result.mqtt_auth_ok /\ result.report_received
           ok3 == result.ftps_auth_ok
           p1 == setAuto(p0, 1, ok1)
           p2 == setAuto(p1, 2, ok2)
           q == setAuto(p2, 3, ok3)
<1>1. ok1 \in BOOLEAN /\ ok2 \in BOOLEAN /\ ok3 \in BOOLEAN /\ result # Nothing
  BY WizardAssumption DEF Result
<1>2. /\ p0 \in Progress /\ p0.diagnostics = result /\ p0.idle = p.idle /\ p0.stages = p.stages
  BY DEF Evident, Progress
<1> HIDE DEF p0, ok1, ok2, ok3
<1>3. /\ p1 \in Progress /\ p1.diagnostics = p0.diagnostics /\ p1.idle = p0.idle
      /\ \A m \in Stages : p1.stages[m].note = p0.stages[m].note
      /\ \A m \in Stages \ {1} : p1.stages[m] = p0.stages[m]
      /\ 1 \in Stages => p1.stages[1].status = AsStatus(ok1)
  BY <1>1, <1>2, SetAutoShape
<1> HIDE DEF p1
<1>4. /\ p2 \in Progress /\ p2.diagnostics = p1.diagnostics /\ p2.idle = p1.idle
      /\ \A m \in Stages : p2.stages[m].note = p1.stages[m].note
      /\ \A m \in Stages \ {2} : p2.stages[m] = p1.stages[m]
      /\ 2 \in Stages => p2.stages[2].status = AsStatus(ok2)
  BY <1>1, <1>3, SetAutoShape
<1> HIDE DEF p2
<1>5. /\ q \in Progress /\ q.diagnostics = p2.diagnostics /\ q.idle = p2.idle
      /\ \A m \in Stages : q.stages[m].note = p2.stages[m].note
      /\ \A m \in Stages \ {3} : q.stages[m] = p2.stages[m]
      /\ 3 \in Stages => q.stages[3].status = AsStatus(ok3)
  BY <1>1, <1>4, SetAutoShape
<1>6. Judged(p0, result) = q
  BY DEF Judged, p1, p2, ok1, ok2, ok3
<1> HIDE DEF q
<1>7. q.diagnostics = result /\ q.idle = p.idle
  BY <1>2, <1>3, <1>4, <1>5
<1>8. \A m \in Stages : q.stages[m].note = p.stages[m].note
  BY <1>2, <1>3, <1>4, <1>5
<1>9. \A m \in Stages \ {1, 2, 3} : q.stages[m] = p.stages[m]
  BY <1>2, <1>3, <1>4, <1>5
<1>10. /\ 1 \in Stages => q.stages[1].status = AsStatus(ok1)
       /\ 2 \in Stages => q.stages[2].status = AsStatus(ok2)
       /\ 3 \in Stages => q.stages[3].status = AsStatus(ok3)
  BY <1>3, <1>4, <1>5
<1>11. ASSUME NEW m \in Stages, q.stages[m].by = "judge"
       PROVE  /\ m \in 1..3 => q.diagnostics # Nothing
              /\ m = 4 => q.idle # Nothing
              /\ m \in 1..4
              /\ q.stages[m].status = AsStatus(Verdict(q, m))
  <2>1. CASE m = 1
    BY <1>1, <1>7, <1>10, <2>1 DEF Verdict, ok1
  <2>2. CASE m = 2
    BY <1>1, <1>7, <1>10, <2>2 DEF Verdict, ok2
  <2>3. CASE m = 3
    BY <1>1, <1>7, <1>10, <2>3 DEF Verdict, ok3
  <2>4. CASE m \notin {1, 2, 3}
    <3>1. q.stages[m] = p.stages[m] /\ m = 4
      BY <1>9, <1>11, <2>4 DEF Evident
    <3>2. Verdict(q, m) = Verdict(p, m)
      BY <1>7, <3>1 DEF Verdict
    <3>3. QED
      BY <1>7, <1>11, <3>1, <3>2 DEF Evident
  <2>5. QED
    BY <2>1, <2>2, <2>3, <2>4
<1>12. Evident(q)
  BY <1>5, <1>11 DEF Evident
<1>13. QED
  BY <1>6, <1>8, <1>12 DEF p0

LEMMA CheckedIsEvident ==
  ASSUME NEW p, Evident(p), NEW idle \in BOOLEAN
  PROVE  LET q == setAuto([p EXCEPT !.idle = idle], 4, idle)
         IN  Evident(q) /\ \A m \in Stages : q.stages[m].note = p.stages[m].note
<1> DEFINE p0 == [p EXCEPT !.idle = idle]
           q == setAuto(p0, 4, idle)
<1>1. /\ p0 \in Progress /\ p0.diagnostics = p.diagnostics /\ p0.idle = idle /\ p0.stages = p.stages
      /\ idle # Nothing
  BY WizardAssumption DEF Evident, Progress
<1> HIDE DEF p0
<1>2. /\ q \in Progress /\ q.diagnostics = p.diagnostics /\ q.idle = idle
      /\ \A m \in Stages : q.stages[m].note = p.stages[m].note
      /\ \A m \in Stages \ {4} : q.stages[m] = p.stages[m]
      /\ 4 \in Stages => q.stages[4].status = AsStatus(idle)
  BY <1>1, SetAutoShape
<1> HIDE DEF q
<1>3. ASSUME NEW m \in Stages, q.stages[m].by = "judge"
      PROVE  /\ m \in 1..3 => q.diagnostics # Nothing
             /\ m = 4 => q.idle # Nothing
             /\ m \in 1..4
             /\ q.stages[m].status = AsStatus(Verdict(q, m))
  <2>1. CASE m = 4
    BY <1>1, <1>2, <2>1 DEF Verdict
  <2>2. CASE m # 4
    <3>1. q.stages[m] = p.stages[m] /\ m \in 1..3
      BY <1>2, <1>3, <2>2 DEF Evident
    <3>2. Verdict(q, m) = Verdict(p, m)
      BY <1>2, <3>1 DEF Verdict
    <3>3. QED
      BY <1>2, <1>3, <3>1, <3>2 DEF Evident
  <2>3. QED
    BY <2>1, <2>2
<1>4. Evident(q)
  BY <1>2, <1>3 DEF Evident
<1>5. QED
  BY <1>2, <1>4 DEF q, p0

LEMMA MarkedIsEvident ==
  ASSUME NEW p, Evident(p), NEW n \in Stages, NEW status, NEW note \in Notes \cup {Nothing}
  PROVE  LET q == Marked(p, n, status, note)
         IN  Evident(q) /\ \A m \in Stages \ {n} : q.stages[m] = p.stages[m]
<1> DEFINE q == Marked(p, n, status, note)
           old == p.stages[n]
           new == [status |-> IF status \in Statuses THEN status ELSE old.status,
                   note |-> IF note = Nothing THEN old.note ELSE note,
                   by |-> IF status \in Statuses THEN "hand" ELSE old.by]
<1>1. p.stages \in [Stages -> StageState] /\ old \in StageState
  BY DEF Evident, Progress
<1>2. /\ new \in StageState
      /\ new.by = "judge" => old.by = "judge" /\ new.status = old.status
  BY <1>1 DEF StageState
<1>3. /\ q.diagnostics = p.diagnostics /\ q.idle = p.idle
      /\ q = [stages |-> q.stages, diagnostics |-> q.diagnostics, idle |-> q.idle]
  BY DEF Marked, Evident, Progress
<1>4. q.stages = [p.stages EXCEPT ![n] = new]
  BY DEF Marked, Evident, Progress
<1> HIDE DEF q, new
<1>5. /\ q.stages \in [Stages -> StageState] /\ q.stages[n] = new
      /\ \A m \in Stages \ {n} : q.stages[m] = p.stages[m]
  BY <1>1, <1>2, <1>4
<1>6. q \in Progress
  BY <1>3, <1>5 DEF Evident, Progress
<1>7. \A m \in Stages : Verdict(q, m) = Verdict(p, m)
  BY <1>3 DEF Verdict
<1>8. \A m \in Stages : q.stages[m].by = "judge" =>
        p.stages[m].by = "judge" /\ q.stages[m].status = p.stages[m].status
  BY <1>2, <1>5
<1>9. Evident(q)
  BY <1>3, <1>6, <1>7, <1>8 DEF Evident
<1>10. QED
  BY <1>5, <1>9 DEF q

-----------------------------------------------------------------------------
(* The steps                                                                *)

LEMMA InitInv == Init => Inv
<1>1. SUFFICES ASSUME Init PROVE Inv
  OBVIOUS
<1>2. machine \in [state : States, layer : Layers, total : TotalLayers]
  BY <1>1 DEF Init, States, Layers, TotalLayers
<1>3. Evident(saved) /\ saved \in Progress
  BY <1>1, InitialIsEvident DEF Init, Evident
<1>4. TypeOK
  BY <1>1, <1>2, <1>3 DEF Init, TypeOK
<1>5. copy \in [Requests -> Progress] /\ \A r \in Requests : Evident(copy[r])
  BY <1>1, InitialIsEvident DEF Init, Evident
<1>6. \A r \in Requests : ~Made(r)
  BY <1>1 DEF Init, Made
<1>7. request \in [Requests -> {NotMade, Over, [kind |-> "diagnostics"], [kind |-> "status"]}
                                \cup {[kind |-> "mark", stage |-> n] : n \in Stages}]
  BY <1>1 DEF Init
<1>8. armed = FALSE
  BY <1>1 DEF Init
<1>9. armed \in BOOLEAN /\ (armed => fresh = 0)
  BY <1>8, Zenon
<1>10. fresh \in Nat /\ fresh <= 1
  BY <1>1 DEF Init
<1>11. QED
  BY <1>3, <1>4, <1>5, <1>6, <1>7, <1>9, <1>10, Zenon DEF Inv

(* A request that loads holds the saved document.                           *)
LEMMA LoadKeeps ==
  ASSUME Inv, NEW r \in Requests,
         NEW kind \in {[kind |-> "diagnostics"], [kind |-> "status"]}
                      \cup {[kind |-> "mark", stage |-> n] : n \in Stages},
         Load(r, kind)
  PROVE  Inv'
BY DEF Load, Inv, TypeOK, Made, capture, Evident

(* A request that saves leaves an evident document, and everybody else who  *)
(* is under way overtaken.                                                  *)
LEMMA SaveKeeps ==
  ASSUME Inv, NEW r \in Requests, NEW p, Evident(p), Save(r, p)
  PROVE  Inv'
<1>1. /\ saved' = p /\ request' = [request EXCEPT ![r] = Over]
      /\ copy' = [copy EXCEPT ![r] = initialProgress]
      /\ UNCHANGED <<capture, machine>>
  BY DEF Save
<1>2. TypeOK'
  BY <1>1 DEF Inv, TypeOK, Evident, capture
<1>3. Evident(saved')
  BY <1>1
<1>4. copy' \in [Requests -> Progress] /\ \A q \in Requests : Evident(copy'[q])
  BY <1>1, InitialIsEvident DEF Inv, Evident
<1>5. \A q \in Requests : Made(q)' => q \in raced'
  BY <1>1 DEF Inv, Made, Save
<1>6. QED
  BY <1>1, <1>2, <1>3, <1>4, <1>5 DEF Inv, Evident, capture

LEMMA DiagnosticsRanKeeps ==
  ASSUME Inv, NEW r \in Requests, DiagnosticsRan(r)
  PROVE  Inv'
<1>1. PICK result \in Results : Save(r, Judged([copy[r] EXCEPT !.diagnostics = result], result))
  BY DEF DiagnosticsRan
<1>2. Evident(Judged([copy[r] EXCEPT !.diagnostics = result], result))
  BY JudgedIsEvident DEF Inv
<1>3. QED
  BY <1>1, <1>2, SaveKeeps

LEMMA StatusCheckedKeeps ==
  ASSUME Inv, NEW r \in Requests, StatusChecked(r)
  PROVE  Inv'
<1>1. PICK idle \in BOOLEAN : Save(r, setAuto([copy[r] EXCEPT !.idle = idle], 4, idle))
  BY DEF StatusChecked
<1>2. Evident(setAuto([copy[r] EXCEPT !.idle = idle], 4, idle))
  BY CheckedIsEvident DEF Inv
<1>3. QED
  BY <1>1, <1>2, SaveKeeps

LEMMA StageMarkedKeeps ==
  ASSUME Inv, NEW r \in Requests, StageMarked(r)
  PROVE  Inv' /\ request[r].stage \in Stages
<1>1. request[r].stage \in Stages
  <2>1. request[r].kind = "mark"
    BY DEF StageMarked
  <2>2. request[r] \in {[kind |-> "mark", stage |-> n] : n \in Stages}
    BY <2>1 DEF Inv, NotMade, Over
  <2>3. QED
    BY <2>2
<1>2. PICK status \in {"passed", "unknown"}, note \in Notes \cup {Nothing} :
         Save(r, Marked(copy[r], request[r].stage, status, note))
  BY DEF StageMarked
<1>3. Evident(Marked(copy[r], request[r].stage, status, note))
  BY <1>1, MarkedIsEvident DEF Inv
<1>4. QED
  BY <1>1, <1>2, <1>3, SaveKeeps

LEMMA ArmCaptureKeeps ==
  ASSUME Inv, NEW r \in Requests, ArmCapture(r)
  PROVE  Inv'
BY DEF ArmCapture, Inv, TypeOK, Made, Evident

LEMMA StatusKeeps ==
  ASSUME Inv, Status
  PROVE  Inv'
<1>1. UNCHANGED <<progress, fired, machine>>
  BY DEF Status
<1>2. CASE armed /\ armed' = FALSE /\ fresh' = fresh + 1
  <2>1. ~armed' /\ armed' \in BOOLEAN
    BY <1>2, Zenon
  <2>2. fresh = 0 /\ fresh' = fresh + 1
    BY <1>2, Zenon DEF Inv
  <2>3. fresh' \in Nat /\ fresh' <= 1
    BY <2>2
  <2>4. QED
    BY <1>1, <2>1, <2>3 DEF Inv, TypeOK, Made, progress
<1>3. CASE UNCHANGED <<armed, fresh>>
  BY <1>1, <1>3 DEF Inv, TypeOK, Made, progress
<1>4. QED
  BY <1>2, <1>3 DEF Status, Fire

LEMMA ShotKeeps ==
  ASSUME Inv, Frame \/ Sent
  PROVE  Inv'
<1>1. UNCHANGED <<progress, armed, fresh, machine>>
  BY DEF Frame, Sent
<1>2. fired' \in BOOLEAN \cup {Nothing}
  BY DEF Frame, Sent, Inv, TypeOK
<1>3. QED
  BY <1>1, <1>2 DEF Inv, TypeOK, Made, progress

LEMMA MachineKeeps ==
  ASSUME Inv, StartPrint \/ NextLayer \/ EndPrint
  PROVE  Inv'
<1>1. UNCHANGED <<progress, capture>>
  BY DEF StartPrint, NextLayer, EndPrint
<1>2. machine' \in [state : States, layer : Layers, total : TotalLayers]
  BY DEF StartPrint, NextLayer, EndPrint, Inv, TypeOK, States, Layers, TotalLayers
<1>3. QED
  BY <1>1, <1>2 DEF Inv, TypeOK, Made, Evident, progress, capture

LEMMA RestartKeeps ==
  ASSUME Inv, Restart
  PROVE  Inv'
<1>1. /\ saved' = saved /\ machine' = machine /\ copy' = [r \in Requests |-> initialProgress]
      /\ request' = [r \in Requests |-> IF request[r] = NotMade THEN NotMade ELSE Over]
      /\ armed' = FALSE /\ fired' = Nothing /\ fresh' = 0
  BY DEF Restart
<1>2. \A r \in Requests : ~Made(r)'
  BY <1>1 DEF Made
<1>3. copy' \in [Requests -> Progress] /\ \A r \in Requests : Evident(copy'[r])
  BY <1>1, InitialIsEvident DEF Evident
<1>4. request' \in [Requests -> {NotMade, Over, [kind |-> "diagnostics"], [kind |-> "status"]}
                                 \cup {[kind |-> "mark", stage |-> n] : n \in Stages}]
  BY <1>1
<1>5. armed' = FALSE
  BY <1>1
<1>6. armed' \in BOOLEAN /\ (armed' => fresh' = 0)
  BY <1>5, Zenon
<1>7. fresh' \in Nat /\ fresh' <= 1
  BY <1>1
<1>8. TypeOK' /\ Evident(saved')
  BY <1>1 DEF Inv, TypeOK
<1>9. Evident(saved)' /\ \A r \in Requests : Evident(copy[r])'
  BY <1>3, <1>8 DEF Evident
<1>10. QED
  BY <1>2, <1>3, <1>4, <1>6, <1>7, <1>8, <1>9, Zenon DEF Inv

LEMMA StepKeepsInv == Inv /\ [Next]_vars => Inv'
<1>1. SUFFICES ASSUME Inv, [Next]_vars PROVE Inv'
  OBVIOUS
<1>2. CASE \E r \in Requests : RunDiagnostics(r) \/ CheckStatus(r) \/ MarkStage(r)
  BY <1>1, <1>2, LoadKeeps DEF RunDiagnostics, CheckStatus, MarkStage
<1>3. CASE \E r \in Requests : DiagnosticsRan(r)
  BY <1>1, <1>3, DiagnosticsRanKeeps
<1>4. CASE \E r \in Requests : StatusChecked(r)
  BY <1>1, <1>4, StatusCheckedKeeps
<1>5. CASE \E r \in Requests : StageMarked(r)
  BY <1>1, <1>5, StageMarkedKeeps
<1>6. CASE \E r \in Requests : ArmCapture(r)
  BY <1>1, <1>6, ArmCaptureKeeps
<1>7. CASE Status
  BY <1>1, <1>7, StatusKeeps
<1>8. CASE Frame \/ Sent
  BY <1>1, <1>8, ShotKeeps
<1>9. CASE StartPrint \/ NextLayer \/ EndPrint
  BY <1>1, <1>9, MachineKeeps
<1>10. CASE Restart
  BY <1>1, <1>10, RestartKeeps
<1>11. CASE UNCHANGED vars
  BY <1>1, <1>11 DEF Inv, TypeOK, Made, Evident, vars, progress, capture
<1>12. QED
  BY <1>1, <1>2, <1>3, <1>4, <1>5, <1>6, <1>7, <1>8, <1>9, <1>10, <1>11 DEF Next

-----------------------------------------------------------------------------
(* However requests, reports, shots and restarts interleave.                *)
THEOREM WizardInvariant == Spec => []Inv
BY InitInv, StepKeepsInv, PTL DEF Spec

(* What is saved is always a document the next load accepts (ProgressSchema *)
(* would replace any other by a fresh one, verdicts and notes lost).        *)
THEOREM DocumentsAreReadable == Spec => []TypeOK
<1>1. Inv => TypeOK
  BY DEF Inv
<1>2. QED
  BY <1>1, WizardInvariant, PTL

(* An automatic verdict is that of the evidence saved with it (the routes   *)
(* that judge, and the lost updates between them).                          *)
THEOREM VerdictsFollowEvidence == Spec => []JudgedByEvidence
<1>1. Inv => JudgedByEvidence
  BY DEF Inv, Evident, JudgedByEvidence, AsStatus
<1>2. QED
  BY <1>1, WizardInvariant, PTL

(* Armed once, fired at most once (tempFire disarms before its await).      *)
THEOREM FiresOncePerArming == Spec => []OncePerArming
<1>1. Inv => OncePerArming
  BY DEF Inv, OncePerArming
<1>2. QED
  BY <1>1, WizardInvariant, PTL

(* A request nobody overtook saves every note it does not itself change.    *)
NoteChanged(n) == saved'.stages[n].note # saved.stages[n].note

MayChange(r, n) ==
  /\ request'[r] # request[r]
  /\ r \in raced \/ (request[r].kind = "mark" /\ request[r].stage = n)

LEMMA JudgeChangesNoNote ==
  ASSUME Inv, NEW r \in Requests, DiagnosticsRan(r) \/ StatusChecked(r),
         NEW n \in Stages, NoteChanged(n)
  PROVE  MayChange(r, n)
<1>1. Made(r) /\ request'[r] = Over
  <2>1. request[r].kind \in {"diagnostics", "status"} /\ request' = [request EXCEPT ![r] = Over]
    BY DEF DiagnosticsRan, StatusChecked, Save
  <2>2. Made(r)
    BY <2>1 DEF Made, NotMade, Over
  <2>3. QED
    BY <2>1, <2>2 DEF Inv
<1>2. Evident(copy[r])
  BY DEF Inv
<1>3. saved'.stages[n].note = copy[r].stages[n].note
  <2>1. CASE DiagnosticsRan(r)
    <3>1. PICK result \in Results :
            saved' = Judged([copy[r] EXCEPT !.diagnostics = result], result)
      BY <2>1 DEF DiagnosticsRan, Save
    <3>2. QED
      BY <1>2, <3>1, JudgedIsEvident
  <2>2. CASE StatusChecked(r)
    <3>1. PICK idle \in BOOLEAN : saved' = setAuto([copy[r] EXCEPT !.idle = idle], 4, idle)
      BY <2>2 DEF StatusChecked, Save
    <3>2. QED
      BY <1>2, <3>1, CheckedIsEvident
  <2>3. QED
    BY <2>1, <2>2
<1>4. r \in raced
  BY <1>1, <1>3 DEF NoteChanged, Inv
<1>5. QED
  BY <1>1, <1>4 DEF MayChange, Made

LEMMA MarkChangesItsNote ==
  ASSUME Inv, NEW r \in Requests, StageMarked(r), NEW n \in Stages, NoteChanged(n)
  PROVE  MayChange(r, n)
<1>1. Made(r) /\ request'[r] = Over /\ request[r].kind = "mark"
  BY DEF StageMarked, Save, Inv, Made, NotMade, Over
<1>2. copy[r] \in Progress /\ request[r].stage \in Stages
  BY StageMarkedKeeps DEF Inv, Evident
<1>3. PICK status \in {"passed", "unknown"}, note \in Notes \cup {Nothing} :
        saved' = Marked(copy[r], request[r].stage, status, note)
  BY DEF StageMarked, Save
<1>4. CASE n = request[r].stage
  BY <1>1, <1>4 DEF MayChange, Made
<1>5. CASE n # request[r].stage
  <2>1. saved'.stages[n] = copy[r].stages[n]
    BY <1>2, <1>3, <1>5 DEF Marked, Progress
  <2>2. r \in raced
    BY <1>1, <2>1 DEF NoteChanged, Inv
  <2>3. QED
    BY <1>1, <2>2 DEF MayChange, Made
<1>6. QED
  BY <1>4, <1>5

LEMMA StepKeepsNotes ==
  ASSUME Inv, [Next]_vars, NEW n \in Stages, NoteChanged(n)
  PROVE  \E r \in Requests : MayChange(r, n)
<1>1. saved' # saved
  BY DEF NoteChanged
<1>2. PICK r \in Requests : DiagnosticsRan(r) \/ StatusChecked(r) \/ StageMarked(r)
  BY <1>1 DEF Next, vars, progress, capture, RunDiagnostics, CheckStatus, MarkStage, Load,
              ArmCapture, Status, Frame, Sent, StartPrint, NextLayer, EndPrint, Restart
<1>3. QED
  BY <1>2, JudgeChangesNoNote, MarkChangesItsNote

(* A note is lost to an overlapping request or not at all (load, await,     *)
(* save in verify-routes.ts).                                               *)
THEOREM OnlyRacesLoseNotes == Spec => NotesAreKept
<1>1. Inv /\ [Next]_vars =>
        [ \A n \in Stages : saved'.stages[n].note # saved.stages[n].note =>
            \E r \in Requests :
              /\ request'[r] # request[r]
              /\ r \in raced \/ (request[r].kind = "mark" /\ request[r].stage = n) ]_vars
  BY StepKeepsNotes DEF NoteChanged, MayChange
<1>2. QED
  BY <1>1, WizardInvariant, PTL DEF Spec, NotesAreKept
=============================================================================
