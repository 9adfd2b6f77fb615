-------------------------------- MODULE Wizard ---------------------------------
(***************************************************************************)
(* The verification wizard's own state: the progress it persists as one    *)
(* document, which every request loads whole and saves whole around an     *)
(* await (api/verify-routes.ts), and the automatic capture of a frame      *)
(* before the plate swap (main.ts).  What the wizard sends to the printer  *)
(* is in PrintFarm.                                                        *)
(***************************************************************************)
EXTENDS Naturals, FiniteSets

CONSTANTS
  Requests,   \* POSTs the browser makes
  Stages,     \* stages of the wizard, some of 1..7
  Notes,      \* texts somebody may enter
  Results,    \* what the diagnostics may find, see Result
  Nothing     \* null

Result == [mqtt_reachable : BOOLEAN, ftps_reachable : BOOLEAN, mqtt_auth_ok : BOOLEAN,
           report_received : BOOLEAN, ftps_auth_ok : BOOLEAN]

ASSUME WizardAssumption ==
  /\ IsFiniteSet(Requests) /\ Stages \subseteq 1..7
  /\ Results \subseteq Result
  /\ Nothing \notin Results /\ Nothing \notin Notes /\ Nothing \notin BOOLEAN

VARIABLES
  saved,     \* system_settings.verify_progress
  request,   \* what each request is suspended in
  copy,      \* the progress it loaded
  raced,     \* requests since whose load another one saved
  armed,     \* tempAutoState.armed
  fired,     \* tempAutoState.fired: Nothing or photoSent
  shots,     \* tempFire: calls suspended in the snapshot or the webhook
  fresh,     \* shots begun since the capture was last armed
  prev,      \* tempPrevState
  layerFired,\* tempLayerFired
  machine    \* gcode_state and layer of the printer

progress == <<saved, request, copy, raced>>
capture == <<armed, fired, shots, fresh, prev, layerFired>>
vars == <<progress, capture, machine>>

Statuses == {"pending", "passed", "failed"}
StageState == [status : Statuses, note : Notes \cup {Nothing}, by : {"nobody", "judge", "hand"}]
Progress == [stages : [Stages -> StageState], diagnostics : Results \cup {Nothing},
             idle : BOOLEAN \cup {Nothing}]

initialProgress ==
  [stages |-> [n \in Stages |-> [status |-> "pending", note |-> Nothing, by |-> "nobody"]],
   diagnostics |-> Nothing, idle |-> Nothing]

NotMade == [kind |-> "unmade"]
Over == [kind |-> "over"]

NoState == ""   \* no report has come yet
States == {"IDLE", "RUNNING", "FINISH", "FAILED"}
Layers == 0..1
TotalLayers == {0, 1}   \* 0: no slice metadata

Init ==
  /\ saved = initialProgress
  /\ request = [r \in Requests |-> NotMade]
  /\ copy = [r \in Requests |-> initialProgress]
  /\ raced = {}
  /\ armed = FALSE /\ fired = Nothing /\ shots = {} /\ fresh = 0
  /\ prev = NoState /\ layerFired = FALSE
  /\ machine = [state |-> "IDLE", layer |-> 0, total |-> 0]

-----------------------------------------------------------------------------
(* Progress                                                                 *)

(* Up to the await: the progress is loaded before it.                       *)
Load(r, kind) ==
  /\ request[r] = NotMade
  /\ request' = [request EXCEPT ![r] = kind]
  /\ copy' = [copy EXCEPT ![r] = saved]
  /\ UNCHANGED <<saved, raced, capture, machine>>

(* After the await: the whole document is written.                          *)
Save(r, p) ==
  /\ saved' = p
  /\ request' = [request EXCEPT ![r] = Over]
  /\ copy' = [copy EXCEPT ![r] = initialProgress]
  /\ raced' = {q \in Requests \ {r} : request[q] \notin {NotMade, Over}}
  /\ UNCHANGED <<capture, machine>>

(* Mutant: a stage that has passed once stays passed.                       *)
setAutoOnce(p, n, ok) ==
  IF n \notin Stages \/ p.stages[n].status = "passed" THEN p
  ELSE [p EXCEPT !.stages[n].status = IF ok THEN "passed" ELSE "failed",
                 !.stages[n].by = "judge"]

(* Mutant: the stage is written anew, its note with it.                     *)
setAutoAnew(p, n, ok) ==
  IF n \notin Stages THEN p
  ELSE [p EXCEPT !.stages[n] = [status |-> IF ok THEN "passed" ELSE "failed",
                                note |-> Nothing, by |-> "judge"]]

(* Set an auto-judged stage's status, preserving its note.                  *)
setAuto(p, n, ok) ==
  IF n \notin Stages THEN p
  ELSE [p EXCEPT !.stages[n].status = IF ok THEN "passed" ELSE "failed",
                 !.stages[n].by = "judge"]

Judged(p, r) ==
  setAuto(setAuto(setAuto(p, 1, r.mqtt_reachable /\ r.ftps_reachable),
                  2, r.mqtt_auth_ok /\ r.report_received),
          3, r.ftps_auth_ok)

RunDiagnostics(r) == Load(r, [kind |-> "diagnostics"])

DiagnosticsRan(r) ==
  /\ request[r].kind = "diagnostics"
  /\ \E result \in Results : Save(r, Judged([copy[r] EXCEPT !.diagnostics = result], result))

CheckStatus(r) == Load(r, [kind |-> "status"])

StatusChecked(r) ==
  /\ request[r].kind = "status"
  /\ \E idle \in BOOLEAN : Save(r, setAuto([copy[r] EXCEPT !.idle = idle], 4, idle))

MarkStage(r) == \E n \in Stages : Load(r, [kind |-> "mark", stage |-> n])

(* Fields that are missing or unknown leave what was there.                 *)
Marked(p, n, status, note) ==
  LET old == p.stages[n]
  IN  [p EXCEPT !.stages[n] =
         [status |-> IF status \in Statuses THEN status ELSE old.status,
          note |-> IF note = Nothing THEN old.note ELSE note,
          by |-> IF status \in Statuses THEN "hand" ELSE old.by]]

StageMarked(r) ==
  /\ request[r].kind = "mark"
  /\ \E status \in {"passed", "unknown"}, note \in Notes \cup {Nothing} :
       Save(r, Marked(copy[r], request[r].stage, status, note))

-----------------------------------------------------------------------------
(* The automatic capture                                                    *)

(* armAutoCapture, after the form was parsed.                               *)
ArmCapture(r) ==
  /\ request[r] = NotMade
  /\ request' = [request EXCEPT ![r] = Over]
  /\ armed' \in BOOLEAN
  /\ IF armed' THEN fired' = Nothing /\ fresh' = 0 ELSE UNCHANGED <<fired, fresh>>
  /\ UNCHANGED <<saved, copy, raced, shots, prev, layerFired, machine>>

(* Mutant: the capture is disarmed when the frame is there.                 *)
FireAndDisarmLater ==
  /\ shots' = shots \cup {"snapshot"}
  /\ fresh' = fresh + 1
  /\ UNCHANGED armed

(* tempFire up to its await: disarmed at once.  (Two shots in the same      *)
(* phase count as one here; only what they leave behind matters.)           *)
Fire ==
  /\ armed' = FALSE
  /\ shots' = shots \cup {"snapshot"}
  /\ fresh' = fresh + 1

AtSwap == machine.state = "RUNNING" /\ machine.total > 0 /\ machine.layer >= machine.total

FinishEdge == prev = "RUNNING" /\ machine.state = "FINISH"

(* The listener: a report reaches it at any time, or is lost.               *)
Status ==
  /\ \/ /\ armed /\ AtSwap /\ ~layerFired
        /\ Fire
        /\ layerFired' = TRUE
     \/ /\ armed /\ FinishEdge
        /\ Fire
        /\ layerFired' = FALSE
     \/ /\ ~armed \/ (~FinishEdge /\ (~AtSwap \/ layerFired))
        /\ layerFired' = (layerFired /\ machine.state = "RUNNING")
        /\ UNCHANGED <<armed, shots, fresh>>
  /\ prev' = machine.state
  /\ UNCHANGED <<progress, fired, machine>>

(* A frame, and on to the webhook, or none within ten seconds.              *)
Frame ==
  /\ "snapshot" \in shots
  /\ \/ shots' = (shots \ {"snapshot"}) \cup {"send"} /\ UNCHANGED fired
     \/ shots' = shots \ {"snapshot"} /\ fired' = FALSE
  /\ UNCHANGED <<progress, armed, fresh, prev, layerFired, machine>>

(* Mutant: a webhook that fails rejects tempFire.                           *)
SentOrThrown ==
  /\ "send" \in shots
  /\ shots' = shots \ {"send"}
  /\ fired' \in {TRUE, fired}
  /\ UNCHANGED <<progress, armed, fresh, prev, layerFired, machine>>

Sent ==
  /\ "send" \in shots
  /\ shots' = shots \ {"send"}
  /\ fired' \in BOOLEAN
  /\ UNCHANGED <<progress, armed, fresh, prev, layerFired, machine>>

-----------------------------------------------------------------------------

StartPrint ==
  /\ machine.state # "RUNNING"
  /\ \E t \in TotalLayers : machine' = [state |-> "RUNNING", layer |-> 0, total |-> t]
  /\ UNCHANGED <<progress, capture>>

NextLayer ==
  /\ machine.state = "RUNNING" /\ machine.layer < machine.total
  /\ machine' = [machine EXCEPT !.layer = @ + 1]
  /\ UNCHANGED <<progress, capture>>

EndPrint ==
  /\ machine.state = "RUNNING"
  /\ \E s \in {"FINISH", "FAILED"} : machine' = [machine EXCEPT !.state = s]
  /\ UNCHANGED <<progress, capture>>

(* Only the database survives.                                              *)
Restart ==
  /\ request' = [r \in Requests |-> IF request[r] = NotMade THEN NotMade ELSE Over]
  /\ armed' = FALSE /\ fired' = Nothing /\ shots' = {} /\ fresh' = 0
  /\ prev' = NoState /\ layerFired' = FALSE
  /\ copy' = [r \in Requests |-> initialProgress]
  /\ raced' = {}
  /\ UNCHANGED <<saved, machine>>

Next ==
  \/ \E r \in Requests : RunDiagnostics(r)
  \/ \E r \in Requests : DiagnosticsRan(r)
  \/ \E r \in Requests : CheckStatus(r)
  \/ \E r \in Requests : StatusChecked(r)
  \/ \E r \in Requests : MarkStage(r)
  \/ \E r \in Requests : StageMarked(r)
  \/ \E r \in Requests : ArmCapture(r)
  \/ Status \/ Frame \/ Sent
  \/ StartPrint \/ NextLayer \/ EndPrint
  \/ Restart

(* The snapshot has a timeout and the webhook's promise settles.            *)
Spec == Init /\ [][Next]_vars /\ WF_vars(Frame) /\ WF_vars(Sent)

-----------------------------------------------------------------------------
(* Properties                                                               *)

(* Whatever a form sends, the document keeps the shape ProgressSchema reads:*)
(* one that did not would be thrown away by the next load.                  *)
TypeOK ==
  /\ saved \in Progress
  /\ fired \in BOOLEAN \cup {Nothing}
  /\ machine \in [state : States, layer : Layers, total : TotalLayers]

(* verify-routes.ts:173, "preserving its note": the note of a stage changes *)
(* by marking that stage only, unless two requests overlapped: then the     *)
(* later save puts back what the earlier had written.                       *)
NotesAreKept ==
  [][ \A n \in Stages : saved'.stages[n].note # saved.stages[n].note =>
        \E r \in Requests :
          /\ request'[r] # request[r]
          /\ r \in raced \/ (request[r].kind = "mark" /\ request[r].stage = n) ]_vars

Verdict(p, n) ==
  CASE n = 1 -> p.diagnostics.mqtt_reachable /\ p.diagnostics.ftps_reachable
    [] n = 2 -> p.diagnostics.mqtt_auth_ok /\ p.diagnostics.report_received
    [] n = 3 -> p.diagnostics.ftps_auth_ok
    [] n = 4 -> p.idle

(* A stage judged automatically is judged by the evidence shown beside it,  *)
(* however requests overlap: the document is replaced as a whole.           *)
JudgedByEvidence ==
  \A n \in Stages : saved.stages[n].by = "judge" =>
    saved.stages[n].status = IF Verdict(saved, n) THEN "passed" ELSE "failed"

(* main.ts:335: "while armed, fire ONCE", with two triggers and reports that*)
(* repeat themselves.                                                       *)
OncePerArming == fresh <= 1

(* Once begun, a shot is told of in the wizard, photo or no photo, unless   *)
(* the process is restarted or the capture armed anew.                      *)
ShotIsTold == shots # {} ~> (fired # Nothing \/ fresh = 0)

=============================================================================
