----------------------------- MODULE PrintFarm ------------------------------
(***************************************************************************)
(* The orchestrator and its printer: the Dispatcher over MqttFtpsPrinter,  *)
(* the Monitor fed by the MQTT client, one FTPS session slot, a link that  *)
(* may drop what it carries, and a printer that behaves as VirtualPrinter  *)
(* (src/src/stub/virtual-printer.ts), the repository's own model of an A1. *)
(* The verification wizard (api/verify-routes.ts) sends files and stops of *)
(* its own, past the Dispatcher.                                           *)
(*                                                                         *)
(* The queue has been confirmed before the story begins: every job is      *)
(* 'queued' and the process has just booted.  No filament is substituted   *)
(* and no job has a project.                                               *)
(***************************************************************************)
EXTENDS DispatchLogic, Integers, Sequences

CONSTANTS
  Plates,   \* spare plates in the stocker at boot
  Eject,    \* subtask name of the eject job, outside job-{id}
  Dry,      \* subtask name of the wizard's dry rehearsal
  NoTask,   \* no subtask name
  Limits    \* bound: how often each kind of event may happen

(* What disturbs the farm; Limits bounds each of these kinds of event.      *)
Events == {"abort", "retry", "rerun", "refill", "fail", "drop", "crash", "ftps", "refuse",
           "timeout", "rehearse", "eject"}

ASSUME FarmAssumption ==
  /\ Plates \in Nat
  /\ Limits \in [Events -> Nat]
  /\ {Eject, Dry, NoTask} \intersect Jobs = {}
  /\ Cardinality({Eject, Dry, NoTask}) = 3

NoJob == 0

VARIABLES
  db,         \* the database
  uploads,    \* runSerialized: the calls queued for the FTPS slot, head running
  awaiting,   \* startPrint calls in waitForStatus, oldest first
  resumed,    \* those whose promise is resolved and which have not run on yet
  monitor,    \* what the Monitor's handler is suspended in
  chain,      \* statuses the Monitor has not handled
  lastKey,    \* Monitor.lastKey
  boot,       \* main.ts: "up", "waiting" for a first status, or "judging" it
  firstState, \* gcode_state of that status, "none" after the timeout
  snapshot,   \* printingAtBoot
  link,       \* is the MQTT connection up?
  commands,   \* orchestrator -> printer
  reports,    \* printer -> orchestrator
  printer,    \* gcode_state and subtask_name
  made,       \* made[j]: plates of job j the printer has finished
  lost,       \* lost[j]: plates of job j it has failed, or was stopped on
  swaps,      \* plates the mechanism has taken from the stocker
  spent       \* how often each event has happened

process == <<db, uploads, awaiting, resumed, monitor, chain, lastKey>>
bootVars == <<boot, firstState, snapshot>>
network == <<link, commands, reports>>
machine == <<printer, made, lost, swaps>>
vars == <<process, bootVars, network, machine, spent>>

-----------------------------------------------------------------------------

Report(state, task) == [state |-> state, task |-> task]
NoKey == Report("none", NoTask)

File(task) == [cmd |-> "project_file", task |-> task]
Stop == [cmd |-> "stop", task |-> NoTask]
PushAll == [cmd |-> "pushall", task |-> NoTask]

(* The wizard's stop; the name is history.                                  *)
WizardStop == [cmd |-> "stop", task |-> Dry]

Idle == [task |-> "idle", job |-> NoJob]
Ejecting(j) == [task |-> "eject", job |-> j]
Starting(j) == [task |-> "start", job |-> j]

(* A call of the printer port and who continues when it settles: the        *)
(* Monitor's handler, a request (or the boot) on its own, or the wizard.    *)
Call(kind, j, owner) == [kind |-> kind, job |-> j, owner |-> owner]

WizardEject == Call("eject", NoJob, "wizard")
Rehearsal == Call("rehearsal", NoJob, "wizard")

Calls ==
  [kind : {"start", "eject"}, job : Jobs, owner : {"monitor", "request"}]
    \union {WizardEject, Rehearsal}

(* Publishing while the link is down queues the message in the client.      *)
Publish(cmds) == commands' = commands \o cmds

(* Reports nobody is connected for are lost.                                *)
Emit(state, task) ==
  reports' = IF link THEN Append(reports, Report(state, task)) ELSE reports

Spend(e) ==
  /\ spent[e] < Limits[e]
  /\ spent' = [spent EXCEPT ![e] = @ + 1]

(* dispatchNext on d, with calls the port's calls already under way.        *)
Advance(d, calls, owner) ==
  /\ db' = DispatchNext(d)
  /\ \/ Started(d) = {} /\ uploads' = calls
     \/ \E j \in Started(d) : uploads' = Append(calls, Call("start", j, owner))

Queued == [j \in Jobs |-> "queued"]

InitDB == [FreshDB(Plates) EXCEPT !.status = Queued, !.position = [j \in Jobs |-> j]]

Init ==
  /\ db = DispatchNext(InitDB)
  /\ \/ Started(InitDB) = {} /\ uploads = <<>>
     \/ \E j \in Started(InitDB) : uploads = <<Call("start", j, "request")>>
  /\ awaiting = <<>>
  /\ resumed = <<>>
  /\ monitor = Idle
  /\ chain = <<>>
  /\ lastKey = NoKey
  /\ boot = "up"
  /\ firstState = "none"
  /\ snapshot = {}
  /\ link = TRUE
  /\ commands = <<PushAll>>
  /\ reports = <<>>
  /\ printer = Report("IDLE", NoTask)
  /\ made = [j \in Jobs |-> 0]
  /\ lost = [j \in Jobs |-> 0]
  /\ swaps = 0
  /\ spent = [e \in Events |-> 0]

-----------------------------------------------------------------------------
(* MqttFtpsPrinter: what follows an upload                                  *)

(* startPrint: publish, then wait for a status that is not IDLE.            *)
StartUploaded ==
  /\ uploads # <<>>
  /\ Head(uploads).kind = "start"
  /\ Publish(<<File(Head(uploads).job)>>)
  /\ awaiting' = Append(awaiting, Head(uploads))
  /\ uploads' = Tail(uploads)
  /\ UNCHANGED <<db, resumed, monitor, chain, lastKey, bootVars, link, reports, machine, spent>>

(* startPrint rejects: the row is reverted.                                 *)
StartFails(call) ==
  /\ db' = RevertStart(db, call.job)
  /\ monitor' = IF call.owner = "monitor" THEN Idle ELSE monitor

StartUploadFails ==
  /\ uploads # <<>>
  /\ Head(uploads).kind = "start"
  /\ Spend("ftps")
  /\ StartFails(Head(uploads))
  /\ uploads' = Tail(uploads)
  /\ UNCHANGED <<awaiting, resumed, chain, lastKey, bootVars, network, machine>>

(* No status but IDLE for confirmStartMs.                                   *)
StartTimesOut ==
  /\ awaiting # <<>>
  /\ Spend("timeout")
  /\ StartFails(Head(awaiting))
  /\ awaiting' = Tail(awaiting)
  /\ UNCHANGED <<uploads, resumed, chain, lastKey, bootVars, network, machine>>

StartResumes ==
  /\ resumed # <<>>
  /\ monitor' = IF Head(resumed).owner = "monitor" THEN Idle ELSE monitor
  /\ resumed' = Tail(resumed)
  /\ UNCHANGED <<db, uploads, awaiting, chain, lastKey, bootVars, network, machine, spent>>

(* ejectAndReset returns once the eject job is published; the rest of       *)
(* onFailed or abort follows without another await.                         *)
EjectUploaded ==
  /\ uploads # <<>>
  /\ Head(uploads).kind = "eject"
  /\ Publish(<<File(Eject)>>)
  /\ LET j == Head(uploads).job
     IN  \/ /\ Head(uploads).owner = "monitor"
            /\ db' = FailEnd(db, j)
            /\ monitor' = Idle
            /\ uploads' = Tail(uploads)
         \/ /\ Head(uploads).owner = "request"
            /\ UNCHANGED monitor
            /\ \/ /\ AbortThrows(db)
                  /\ db' = MarkAborted(db, j)
                  /\ uploads' = Tail(uploads)
               \/ /\ ~AbortThrows(db)
                  /\ Advance(Aborted(db, j), Tail(uploads), "request")
         \/ /\ Head(uploads).owner = "wizard"
            /\ uploads' = Tail(uploads)
            /\ UNCHANGED <<db, monitor>>
  /\ UNCHANGED <<awaiting, resumed, chain, lastKey, bootVars, link, reports, machine, spent>>

EjectUploadFails ==
  /\ uploads # <<>>
  /\ Head(uploads).kind = "eject"
  /\ Spend("ftps")
  /\ monitor' = IF Head(uploads).owner = "monitor" THEN Idle ELSE monitor
  /\ uploads' = Tail(uploads)
  /\ UNCHANGED <<db, awaiting, resumed, chain, lastKey, bootVars, network, machine>>

-----------------------------------------------------------------------------
(* OrchestratorMqttClient and Monitor                                       *)

(* A status goes to the Monitor's chain and to every waitForStatus.         *)
Deliver ==
  /\ link
  /\ reports # <<>>
  /\ LET s == Head(reports)
     IN  /\ reports' = Tail(reports)
         /\ chain' = Append(chain, s)
         /\ IF s.state = "IDLE"
            THEN UNCHANGED <<awaiting, resumed>>
            ELSE awaiting' = <<>> /\ resumed' = resumed \o awaiting
         /\ IF boot = "waiting"
            THEN boot' = "judging" /\ firstState' = s.state
            ELSE UNCHANGED <<boot, firstState>>
  /\ UNCHANGED <<db, uploads, monitor, lastKey, snapshot, link, commands, machine, spent>>

(* Mutant: any report ends the one row that is 'printing'.                  *)
SinglePrintingJob(s) == ByStatus(db, "printing")

(* currentJob: the 'printing' row the subtask name belongs to, if any.      *)
CurrentJob(s) == {j \in ByStatus(db, "printing") : s.task = j}

(* Mutant: no edge detection.                                               *)
NeverRepeated(s) == FALSE

(* Edge detection on gcode_state and subtask_name.                          *)
Repeated(s) == s = lastKey

(* Events are chained: the next handler waits for the last one.             *)
HandlerFree == monitor = Idle

Handle ==
  /\ HandlerFree
  /\ chain # <<>>
  /\ chain' = Tail(chain)
  /\ LET s == Head(chain)
         ended == IF Repeated(s) THEN {} ELSE CurrentJob(s)
     IN  /\ lastKey' = s
         /\ \/ /\ s.state \notin {"FINISH", "FAILED"} \/ ended = {}
               /\ UNCHANGED <<db, uploads, commands, monitor>>
            \/ /\ s.state = "FINISH"
               /\ UNCHANGED commands
               /\ \E j \in ended :
                    \/ /\ FinishThrows(db)
                       /\ db' = MarkSuccess(db, j)
                       /\ UNCHANGED <<uploads, monitor>>
                    \/ /\ ~FinishThrows(db)
                       /\ Advance(Finished(db, j), uploads, "monitor")
                       /\ \/ Started(Finished(db, j)) = {} /\ UNCHANGED monitor
                          \/ \E k \in Started(Finished(db, j)) : monitor' = Starting(k)
            \/ /\ s.state = "FAILED"
               /\ \E j \in ended :
                    /\ db' = FailBegin(db, j)
                    /\ monitor' = Ejecting(j)
                    /\ Publish(<<Stop>>)
                    /\ uploads' = Append(uploads, Call("eject", j, "monitor"))
  /\ UNCHANGED <<awaiting, resumed, bootVars, link, reports, machine, spent>>

(* The connection is lost with everything in flight ...                     *)
Drop ==
  /\ link
  /\ Spend("drop")
  /\ link' = FALSE
  /\ commands' = <<>>
  /\ reports' = <<>>
  /\ UNCHANGED <<process, bootVars, machine>>

(* Mutant: the client does not ask for the state it missed.                 *)
ReconnectSilently ==
  /\ ~link
  /\ link' = TRUE
  /\ UNCHANGED <<process, bootVars, commands, reports, machine, spent>>

(* ... and every (re)connection asks for a full status.                     *)
Reconnect ==
  /\ ~link
  /\ link' = TRUE
  /\ Publish(<<PushAll>>)
  /\ UNCHANGED <<process, bootVars, reports, machine, spent>>

-----------------------------------------------------------------------------
(* Requests                                                                 *)

(* Mutant: the row's status is not checked before the eject.                *)
AbortUnchecked(j) ==
  /\ boot = "up"
  /\ j \in Rows(db)
  /\ Spend("abort")
  /\ Publish(<<Stop>>)
  /\ uploads' = Append(uploads, Call("eject", j, "request"))
  /\ UNCHANGED <<db, awaiting, resumed, monitor, chain, lastKey, bootVars, link, reports, machine>>

Abort(j) ==
  /\ boot = "up"
  /\ Abortable(db, j)
  /\ Spend("abort")
  /\ Publish(<<Stop>>)
  /\ uploads' = Append(uploads, Call("eject", j, "request"))
  /\ UNCHANGED <<db, awaiting, resumed, monitor, chain, lastKey, bootVars, link, reports, machine>>

(* A retry of a row that prints or has been printed is the stale tab's, or  *)
(* the API's: it counts as an event of its own.                             *)
RetryKind(j) == IF db.status[j] \in {"printing", "success"} THEN "rerun" ELSE "retry"

(* Neither the route nor the method reads the row's status.                 *)
Retry(j) ==
  /\ boot = "up"
  /\ j \in Rows(db)
  /\ ~RetryExhausted(db, j)
  /\ Spend(RetryKind(j))
  /\ Advance(Requeued(db, j), uploads, "request")
  /\ UNCHANGED <<awaiting, resumed, monitor, chain, lastKey, bootVars, network, machine>>

Refill ==
  /\ boot = "up"
  /\ Spend("refill")
  /\ Advance(ResolveStockerRefills(RefillStocker(db)), uploads, "request")
  /\ UNCHANGED <<awaiting, resumed, monitor, chain, lastKey, bootVars, network, machine>>

-----------------------------------------------------------------------------
(* The verification wizard                                                  *)

(* mqtt.latest(): every status is handed to the Monitor as it arrives.      *)
Latest == IF chain = <<>> THEN lastKey ELSE chain[Len(chain)]

(* Mutant: the eject is sent whatever is printing.                          *)
NothingInTheWay == TRUE

(* hasPrintingJob, and nothing else, stands between the button and a stop.  *)
NoPrintingJob == ByStatus(db, "printing") = {}

WizardEjects ==
  /\ boot = "up"
  /\ NoPrintingJob
  /\ Spend("eject")
  /\ Publish(<<WizardStop>>)
  /\ uploads' = Append(uploads, WizardEject)
  /\ UNCHANGED <<db, awaiting, resumed, monitor, chain, lastKey, bootVars, link, reports, machine>>

(* isBusy asks the printer's last status only: a row that is 'printing'     *)
(* counts once the printer is.                                              *)
Rehearse ==
  /\ boot = "up"
  /\ Latest.state # "RUNNING"
  /\ Spend("rehearse")
  /\ uploads' = Append(uploads, Rehearsal)
  /\ UNCHANGED <<db, awaiting, resumed, monitor, chain, lastKey, bootVars, network, machine>>

RehearsalUploaded ==
  /\ uploads # <<>>
  /\ Head(uploads) = Rehearsal
  /\ Publish(<<File(Dry)>>)
  /\ uploads' = Tail(uploads)
  /\ UNCHANGED <<db, awaiting, resumed, monitor, chain, lastKey, bootVars, link, reports, machine, spent>>

RehearsalUploadFails ==
  /\ uploads # <<>>
  /\ Head(uploads) = Rehearsal
  /\ Spend("ftps")
  /\ uploads' = Tail(uploads)
  /\ UNCHANGED <<db, awaiting, resumed, monitor, chain, lastKey, bootVars, network, machine>>

-----------------------------------------------------------------------------
(* The process dies and boots again                                         *)

(* What was published before may have reached the printer: it took it first.*)
Crash ==
  /\ Spend("crash")
  /\ awaiting' = <<>>
  /\ resumed' = <<>>
  /\ monitor' = Idle
  /\ chain' = <<>>
  /\ lastKey' = NoKey
  /\ link' = TRUE
  /\ commands' = <<PushAll>>
  /\ reports' = <<>>
  /\ snapshot' = ByStatus(db, "printing")
  /\ firstState' = "none"
  /\ \/ /\ snapshot' # {}
        /\ boot' = "waiting"
        /\ uploads' = <<>>
        /\ UNCHANGED db
     \/ /\ snapshot' = {}
        /\ boot' = "up"
        /\ Advance(db, <<>>, "request")
  /\ UNCHANGED machine

(* Eight seconds without a status.                                          *)
BootTimesOut ==
  /\ boot = "waiting"
  /\ boot' = "judging"
  /\ UNCHANGED <<process, firstState, snapshot, network, machine, spent>>

Requeue(d, js) ==
  [d EXCEPT !.status = [j \in Jobs |-> IF j \in js THEN "queued" ELSE d.status[j]]]

(* Mutant: every row is judged, whatever its status was at boot.            *)
EveryRowAtBoot == Rows(db)

(* The rows that were 'printing' at boot are judged, not those that are now.*)
PrintingAtBoot == snapshot \intersect Rows(db)

(* The Monitor, registered first, has handled the first status by now.      *)
Reconcile ==
  /\ boot = "judging"
  /\ chain = <<>> \/ monitor # Idle
  /\ boot' = "up"
  /\ firstState' = "none"
  /\ snapshot' = {}
  /\ Advance(IF firstState = "RUNNING" THEN db ELSE Requeue(db, PrintingAtBoot),
             uploads, "request")
  /\ UNCHANGED <<awaiting, resumed, monitor, chain, lastKey, network, machine, spent>>

-----------------------------------------------------------------------------
(* VirtualPrinter.  PREPARE and RUNNING follow each other in one call, and  *)
(* both refuse a file: they are one state here.                             *)

Becomes(state, task) ==
  /\ printer' = Report(state, task)
  /\ Emit(state, task)

(* One more plate for the job the file on the printer belongs to, if any.   *)
OneMore(count) ==
  [j \in Jobs |-> IF j = printer.task THEN count[j] + 1 ELSE count[j]]

Spoil ==
  /\ Becomes("FAILED", printer.task)
  /\ lost' = OneMore(lost)

Receive ==
  /\ link
  /\ commands # <<>>
  /\ commands' = Tail(commands)
  /\ LET c == Head(commands)
     IN  \/ /\ c.cmd = "project_file" /\ printer.state # "RUNNING"
            /\ Becomes("RUNNING", c.task)
            /\ UNCHANGED lost
         \/ /\ c.cmd = "stop" /\ printer.state = "RUNNING"
            /\ Spoil
         \/ /\ c.cmd = "pushall"
            /\ Becomes(printer.state, printer.task)
            /\ UNCHANGED lost
         \/ /\ \/ c.cmd = "project_file" /\ printer.state = "RUNNING"
               \/ c.cmd = "stop" /\ printer.state # "RUNNING"
            /\ UNCHANGED <<printer, reports, lost>>
  /\ UNCHANGED <<process, bootVars, link, made, swaps, spent>>

(* The real A1 may acknowledge a project_file, raise a print_error and stay *)
(* where it is (mqtt-ftps-printer.ts:32-36).                                *)
Refuse ==
  /\ link
  /\ commands # <<>>
  /\ Head(commands).cmd = "project_file"
  /\ Spend("refuse")
  /\ commands' = Tail(commands)
  /\ UNCHANGED <<process, bootVars, link, reports, machine>>

(* Every file ends in the swap sequence, the rehearsal's if it was asked    *)
(* for: a finished file has used a plate.                                   *)
Finish ==
  /\ printer.state = "RUNNING"
  /\ Becomes("FINISH", printer.task)
  /\ made' = OneMore(made)
  /\ \/ swaps' = swaps + 1
     \/ printer.task = Dry /\ UNCHANGED swaps
  /\ UNCHANGED <<process, bootVars, link, commands, lost, spent>>

Fail ==
  /\ printer.state = "RUNNING"
  /\ Spend("fail")
  /\ Spoil
  /\ UNCHANGED <<process, bootVars, link, commands, made, swaps>>

(* Progress reports, and the firmware's periodic ones; bounded to one that  *)
(* is neither received nor handled yet.                                     *)
Repeat ==
  /\ link
  /\ reports = <<>> /\ chain = <<>>
  /\ Emit(printer.state, printer.task)
  /\ UNCHANGED <<process, bootVars, link, commands, machine, spent>>

-----------------------------------------------------------------------------

(* Microtasks run before the process sees anything else.                    *)
Drained ==
  /\ chain = <<>> \/ monitor # Idle
  /\ resumed = <<>>
  /\ boot # "judging"

Microtask == Handle \/ StartResumes \/ Reconcile

Transfers == StartUploaded \/ EjectUploaded \/ RehearsalUploaded

Faults == StartUploadFails \/ EjectUploadFails \/ RehearsalUploadFails \/ Drop \/ Crash

Requests ==
  \/ \E j \in Jobs : Abort(j) \/ Retry(j)
  \/ Refill
  \/ Rehearse
  \/ WizardEjects

Hardware == Receive \/ Refuse \/ Finish \/ Fail \/ Repeat

Next ==
  \/ Microtask
  \/ Drained /\ (Transfers \/ StartTimesOut \/ BootTimesOut \/ Deliver \/ Faults \/ Requests)
  \/ Reconnect
  \/ Hardware

Spec == Init /\ [][Next]_vars

-----------------------------------------------------------------------------
(* Promises settle: curl has a ceiling and a stall guard, the MQTT client   *)
(* reconnects every second, and what the link holds is delivered while it   *)
(* is up.  A print ends.  Strong fairness where an action waits for the     *)
(* microtasks to drain: the event loop serves every source of events in     *)
(* turn, however many reports keep arriving.                                *)

Fairness ==
  /\ WF_vars(Handle) /\ WF_vars(StartResumes) /\ WF_vars(Reconcile)
  /\ SF_vars(Drained /\ StartUploaded)
  /\ SF_vars(Drained /\ EjectUploaded)
  /\ SF_vars(Drained /\ Deliver)
  /\ WF_vars(Reconnect)
  /\ WF_vars(Receive)
  /\ WF_vars(Finish)

FairSpec == Spec /\ Fairness

-----------------------------------------------------------------------------
(* Properties                                                               *)

UnderWay == uploads \o awaiting \o resumed

(* Sequences stay sequences of what they carry, and nothing is suspended    *)
(* twice: the Monitor has one call of its own under way exactly while its   *)
(* handler is suspended in it.                                              *)
TypeOK ==
  /\ db \in DB
  /\ uploads \in Seq(Calls) /\ awaiting \in Seq(Calls) /\ resumed \in Seq(Calls)
  /\ printer.state \in {"IDLE", "RUNNING", "FINISH", "FAILED"}
  /\ monitor = Idle =>
       \A i \in DOMAIN UnderWay : UnderWay[i].owner # "monitor"
  /\ monitor # Idle =>
       \E i \in DOMAIN UnderWay : UnderWay[i] = Call(monitor.task, monitor.job, "monitor")

CallsOf(seq, j, kind, owner) ==
  Cardinality({i \in DOMAIN seq : seq[i] = Call(kind, j, owner)})

(* Dispatcher's view: calls that wait for their own request only.           *)
Starts == [j \in Jobs |-> CallsOf(UnderWay, j, "start", "request")]
Aborts == [j \in Jobs |-> CallsOf(UnderWay, j, "eject", "request")]
Confirms == [j \in Jobs |-> 0]
Booting == boot # "up"

NoBound == -1

D == INSTANCE Dispatcher WITH
  starts <- Starts, aborts <- Aborts, confirms <- Confirms, booting <- Booting,
  Capacities <- {Plates},
  MaxStarts <- NoBound, MaxAborts <- NoBound, MaxConfirms <- NoBound,
  MaxAttempts <- NoBound, MaxDecisions <- NoBound

(* With the real printer, transport and Monitor, the process does nothing   *)
(* Dispatcher does not do: what is proved of Dispatcher holds here.         *)
ImplementsDispatcher == [][D!Next]_(D!vars)

(* monitor.ts, currentJob: no report of another file, of an earlier print   *)
(* or of an eject ever completes a job the printer has not finished.        *)
SuccessWasPrinted == \A j \in Jobs : db.status[j] = "success" => made[j] > 0

(* monitor.ts, lastKey: a failure is counted against a job at most once for *)
(* each time the printer failed it or was stopped on it, however often it   *)
(* is reported, also after the job was retried -- but a restart forgets     *)
(* lastKey, and may count what the last process counted once more.          *)
FailuresAreCountedOnce ==
  \A j \in Jobs : db.attempts[j] <= lost[j] + spent["crash"]

(* A row keeps step with its plate unless a start timed out, an abort       *)
(* overtook the file it was to stop, a restart reverted the row, or a row   *)
(* that was printing or printed was retried.                                *)
Calm == \A e \in {"timeout", "abort", "crash", "rerun"} : spent[e] = 0

(* Nothing but a failed print, a failed upload or a lost connection.        *)
Undisturbed == \A e \in Events \ {"drop", "fail", "ftps"} : spent[e] = 0

(* The file is on its way to the printer; it is on the printer.             *)
Sent(task) == \E i \in DOMAIN commands : commands[i] = File(task)
Running(task) == printer = Report("RUNNING", task)

(* verify-routes.ts:254-257: "Refuse if a REAL queue job is printing -- this *)
(* raw eject bypasses the dispatcher".  The check reads the database, the   *)
(* stop reaches the printer: it never ends the print of a job whose row has *)
(* not parted from its plate.  (The eject file may still land among jobs.)  *)
WizardSparesJobs ==
  [][ Receive /\ Head(commands) = WizardStop /\ Calm
        => \A j \in Jobs : ~Running(j) ]_vars

(* Nothing is in flight in either direction.                                *)
AtRest ==
  /\ UnderWay = <<>>
  /\ monitor = Idle /\ chain = <<>> /\ boot = "up"
  /\ link /\ commands = <<>> /\ reports = <<>>

(* The database and the machine agree on what is being printed: a plate on  *)
(* the printer, or on its way there, is a row that is 'printing' ...        *)
RunningIsPrinting ==
  Calm => \A j \in Jobs : Sent(j) \/ Running(j) => db.status[j] = "printing"

(* ... and a row that stays 'printing' is on the printer, unless its file   *)
(* was lost with the connection, or refused by a printer that was busy with *)
(* what somebody else had sent.                                             *)
PrintingIsRunning ==
  Undisturbed /\ spent["drop"] = 0 /\ AtRest
    => \A j \in ByStatus(db, "printing") : Running(j)

(* INV-STOCKER-02, INV-CONSISTENCY-01: once the mechanism has come to rest, *)
(* the stocker's count has gone down by one for every plate it took, unless *)
(* an eject's file was lost with the connection or the eject itself failed. *)
CountMatchesStocker ==
  Undisturbed /\ AtRest /\ printer.state # "RUNNING"
              /\ (spent["fail"] = 0 \/ (spent["drop"] = 0 /\ spent["fail"] = 1))
    => db.remaining + swaps = Plates

(* No plate is printed twice, however often its job failed and was retried. *)
PrintedOnce == Calm => \A j \in Jobs : made[j] <= 1

(* The rows, the printer and the stocker agree, whatever failed or was lost *)
(* on the way there, and the Monitor waits for nothing that is not coming.  *)
FarmIsConsistent ==
  /\ TypeOK
  /\ RunningIsPrinting
  /\ PrintingIsRunning
  /\ CountMatchesStocker
  /\ PrintedOnce

(* INV-RESYNC-01: a plate that finishes is noticed, also when the report of *)
(* it was lost with the connection.                                         *)
FinishIsNoticed == \A j \in Jobs : made[j] > 0 ~> db.status[j] = "success"

(* INV-FAIL-01: once the farm is at rest a human is asked whether to retry  *)
(* each job that failed, also when the FAILED came with a reconnect.  Three *)
(* things leave nobody asked: an eject that cannot be sent, a process that  *)
(* dies or aborts meanwhile, and a stocker that a retry has emptied ahead   *)
(* of the count of a plate under way, so that the decrement throws.         *)
FailureAsksHuman ==
  AtRest /\ (\A e \in {"ftps", "abort", "crash"} : spent[e] = 0)
         /\ (spent["retry"] = 0 \/ (spent["refill"] = 0 /\ db.remaining > 0))
    => \A j \in ByStatus(db, "failed") : db.retryDecision[j] > 0

(* INV-QUEUE-01, INV-QUEUE-02, INV-DISPATCH-03: however requests, failed    *)
(* starts, late ends and restarts overlap, a row moves along a documented   *)
(* arrow, or for a cause that has come about, and one row starts at a time. *)
Lifecycle == INSTANCE JobLifecycle WITH status <- db.status

RefinesLifecycle == Lifecycle!Spec

(* Some row on the dashboard's pending list asks for a human.               *)
HumanAsked == db.refill > 0 \/ \E j \in Jobs : db.retryDecision[j] > 0

(* Every way a plate ends hands the queue on: a queued job leaves the       *)
(* queue, or the dashboard asks a human for something.  A start that failed *)
(* waits for the next event; nobody intervenes but to refill.               *)
LeftToRun == \A e \in Events \ {"fail", "refill"} : spent[e] = 0

QueueDrains ==
  \A j \in Jobs : db.status[j] = "queued" ~>
    (LeftToRun => db.status[j] # "queued" \/ HumanAsked)

=============================================================================
