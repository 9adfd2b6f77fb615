# A verification model of the A1 mini multi-plate print queue

The program in `src/` keeps a queue of print jobs in SQLite, uploads each job to
a Bambu Lab A1 mini over FTPS, starts it over MQTT, watches the printer's
reports, and lets a swap mechanism put a fresh build plate on the bed after each
print. This directory holds TLA+ modules that model the part of it that
decides what is printed when, TLC configurations that check them, and theorems
checked by TLAPS. Paths below are relative to the repository's root, so the
TypeScript is under `src/...`; `invariants.yaml` is the repository's own list of
what must hold (INV-...).

## 1. Inventory

| Component | State it keeps | Operations | Correct when |
|---|---|---|---|
| Database, `db/repo.ts`, `db/migrations.ts` | rows of `projects`, `jobs`, `stocker_state`, `pending_actions` | synchronous SQL writes | constraints hold, deletes respect references |
| Dispatcher, `core/dispatcher.ts`, `core/color-policy.ts` | none (it is all in the database), suspended continuations | `dispatchNext`, `onFinished`, `onFailed`, `abort`, `retry`, `enqueue` | one print at a time, legal starts in order, plates counted, failures surfaced |
| Write routes, `api/write-routes.ts`, `api/upload-routes.ts` | request bodies being read | upload, confirm (with fan-out), retry, abort, delete, reorder, stocker, pending actions, projects | checks still hold when the write is made |
| Dashboard routes, `api/ui-routes.ts` | none | resolve, refill | same effect as the JSON routes |
| Monitor, `orchestrator/monitor.ts` | `chain`, `lastKey` | one handler per status report, serialized | every end handled exactly once, for the right job |
| Printer transport, `orchestrator/mqtt-ftps-printer.ts`, `mqtt-client.ts`, `ftps-*.ts` | FTPS slot queue, `waitForStatus` listeners, MQTT connection | `startPrint`, `ejectAndReset`, reconnect with pushall | a start is confirmed iff the printer took it, an eject follows a stop |
| Boot, `main.ts` | `printingAtBoot` | stocker initialisation, reconciliation, boot dispatch | the queue resumes without losing or repeating a plate |
| Printer, `stub/virtual-printer.ts`, `stub/mqtt-server.ts` | `gcode_state`, `subtask_name` | `project_file`, `stop`, `pushall`; prints end | (the environment) |
| Filament runout, `core/filament-service.ts`, `core/runout.ts`, `core/color.ts` | job substitution | `onRunout` | the right tray, and a substitution never goes unnoticed |
| Escalation and notifiers, `core/escalation.ts`, `orchestrator/*-notifier.ts` | `notified_at`, the SSE clients | `notify`, `tick` | a stopped queue is announced again and again until resolved; connected pages are told |
| Gateway, `orchestrator/gateway.ts`, `orchestrator.ts` | retained snapshot | publish on notification | the snapshot shows how plates ended |
| FTPS session, `orchestrator/ftps-session.ts`, `ftps-curl.ts`, `diagnostics.ts` | the promise chain, a curl process and its credentials file | upload, session, retry, probe | one interaction at a time, every call settles, the slot is given back |
| Stub FTPS server, `stub/ftps-server.ts` | control connection, data listener, uploaded files | USER ... STOR, QUIT | (the other end of the transfers) |
| Camera relay, `orchestrator/camera-relay.ts` | one upstream, listeners, two timers, last frame | subscribe, snapshot, linger, back off | at most one upstream, none without a subscriber for long |
| Verification wizard, `api/verify-routes.ts`, `main.ts` | one JSON document, the armed capture | diagnostics, status, mark, dry run, eject, capture | verdicts follow the evidence, notes survive, it spares the queue's jobs |
| Logs and state trail, `obs/`, `orchestrator/state-log.ts` | files by day, previous snapshot | append, prune, tail | nothing lost too early, newest first, every change of state in the trail |
| Artifact injection, `injection/`, `core/*-gcode.ts` | — | archive, preview, paint and program builders | what is sent prints what was sliced, and then swaps |
| ETA, calibration, `core/eta.ts`, `core/calibration.ts` | a run timer | arithmetic on samples and estimates | against their definition |
| Scenario runner, rendering, auth | — | — | not modelled (section 10) |

They interact by calls (routes → Dispatcher → Repo and PrinterPort), by events
(`mqtt.on("status")` → Monitor and `waitForStatus`), by one shared resource
(the printer's single FTPS session) and by the database, which is the only
thing that survives a restart. JavaScript runs one continuation at a time and
bun:sqlite is synchronous, so the unit of atomicity is **the code between two
awaits**; everything hard in this program is what happens *during* an await:

* `startPrint` (an upload and up to 20 s of waiting) under `dispatch`, which
  rewrites the row when it fails;
* `ejectAndReset` under `onFailed` and `abort`, which count the plate, write the
  row and ask the human only afterwards;
* the body of `PATCH /filaments`, between the status check and the write;
* the first status report at boot, between reading and requeueing rows;
* the connection, which loses whatever it carries; the process, which dies with
  every continuation; the printer, which repeats reports, ignores a stop when
  idle and refuses files when busy;
* the printer's single FTPS session, which stays occupied after a connection
  that was not closed politely and wedges when it is hammered;
* `setTimeout`s of the camera relay that fire beside subscriptions and closing
  sockets; the escalation's clock, which reads a timestamp in two formats;
* a document of settings loaded before an await and saved whole after it.

`PROJECT.json` lists these hazards at their lines, with the properties aimed at
each.

## 2. Modules

```
QueueStore        the database value and the Repo's writes
  DispatchLogic   what each synchronous stretch of a Dispatcher method writes
    Dispatcher      the process: methods, routes, Monitor, boot, crash; any printer
      MCDispatcher        TLC instance
      DispatcherProofs    theorems
      Alerts              ... with notifications, pages, snapshot, escalation
        MCAlerts, AlertsProofs
    DispatchLogicProofs lemmas about every write, which the proofs above and below share
    PrintFarm       Dispatcher + transport + Monitor + link + printer + wizard
      PrintFarmClaims     what the repository says and PrintFarm refutes
        MCPrintFarm
      PrintFarmProofs     theorems, with Dispatcher and JobLifecycle as abstract specifications
JobLifecycle      abstract: how the statuses of the rows may change, and for what cause

FtpsServer        the stub's FTP session, command by command
  FtpsSession       every transfer and probe, over one slot
    FtpsSessionProofs, MCFtpsSession
SerialQueue       abstract: a queue that serves one call at a time

VirtualPrinter    the stub printer's state machine, reports as its output
  Reports           ... behind broker, link, client, state log, control API
    MCReports, ReportsProofs

CameraRelay       upstream, listeners, linger and backoff; CameraRelayProofs
Wizard            the wizard's document and the capture; WizardProofs, MCWizard

PaintColor        paint strings        Timing      ETA, calibration, throttle
  PlateMesh         previews           LogFiles    rotation, retention, tail
GcodePrograms     programs, snippets   Filaments   colours, trays, runout
  SlicedArchive     the .gcode.3mf
    Toolbox           each computation as a step; MCToolbox has the inputs
```

Four refinements tie them together: `PrintFarm` implements `JobLifecycle`
(`RefinesLifecycle`, mapping `status <- db.status`; proved) and `Dispatcher`
(`ImplementsDispatcher`: every step of the farm is a step of
`Dispatcher` or leaves its variables alone; proved), so the theorems about `Dispatcher`
speak about the farm as well; `Alerts` *is* `Dispatcher` with
variables added, each of its steps conjoined with the one it accompanies (proved); and
`FtpsSession` implements `SerialQueue` (`ServesInOrder`; its safety half is proved).

### QueueStore

`db` is one record: the `jobs` columns that control depends on (`status`,
`position`, `attempts`, `project`, `substituted`), each project's `policy`, the
stocker's `remaining` and `capacity`, and `pending_actions` as the numbers of
unresolved rows of each blocking type (`refill`, `retryDecision`,
`colorDecision`) together with the set of jobs that *any* row still references
(`referenced`), since that is what `PRAGMA foreign_keys` looks at. The operators
are the Repo's methods; `DecrementPermitted` and `DeletePermitted` are the
constraints a write can run into. Ids are AUTOINCREMENT: a row is `unborn`, then
lives, then is `deleted` for good. The status `waiting_for_refill` is declared
by the schema and never written; it is left out.

### DispatchLogic

`DispatchNext(d)` is `dispatchNext` up to the await: nothing when busy or
blocked, a `stocker_refill` when the stocker is empty, otherwise the first
candidate flipped to `printing`; `Started(d)` is the job handed to the printer.
`Finished`, `FailBegin`/`FailEnd`, `Aborted`, `Requeued`, `RevertStart` are the
stretches of the other methods, with the early end a throwing decrement
causes (`FinishThrows`, `AbortThrows`, the first case of `FailEnd`).

### Dispatcher

| Variable | In the code |
|---|---|
| `db` | the database |
| `starts[j]` | calls of `startPrint(j)` awaited by `triggerDispatch`, `abort` or the boot |
| `aborts[j]` | calls of `abort(j)` awaiting `ejectAndReset` |
| `confirms[j]` | `PATCH /filaments` requests awaiting their body |
| `monitor` | what the Monitor's handler awaits: nothing, an eject, a start |
| `booting`, `snapshot` | `main.ts` awaiting the first status, `printingAtBoot` |

One action per route, method stretch, settled or rejected promise, and
restart. The environment is as free as the code permits: a promise may settle
or reject at any time, and the printer may report the end of any row the
Monitor would find. `Restart` drops every continuation and keeps `db`.

### JobLifecycle

The statuses of the rows and nothing else, beside a count of the events that have
happened. INV-QUEUE's arrows are actions (`Ends`, `Aborts`, `Retries`, and a start from
`queued`). So are the arrows the documents do not draw, each guarded by what must have
come about for it: `Reverts` (a start that fails writes `queued`, over a row that has left
`printing` only if something had parted it from its plate), `AbortsLate` (an abort
writes over what became of the row while it ejected), `Reruns` and `Reconciles`. What it
excludes: a row that fails, ends or is requeued with no such cause, two rows moved by one
handler, two started at once, or one beside another that prints.

### PrintFarm

The confirmed queue (every job begins `queued`) and its printer. `uploads` is
the FTPS slot's queue, `awaiting` and `resumed` the calls in and after
`waitForStatus`, `chain` and `lastKey` the Monitor, `link`, `commands`, `reports`
the MQTT connection (FIFO both ways; a `Drop` loses both), `printer` the state
machine of `VirtualPrinter`, reduced to what the queue can tell apart. `Drained`
says that microtasks run before the process sees another event. `ejectAndReset`
publishes `stop` when it is called and the eject's file when its upload is
through, behind whatever was uploading. The verification wizard is a second
sender: `Rehearse` and `WizardEjects` read the database once, then send past the
Dispatcher. `made`, `lost` and `swaps` record what the machine has done (plates finished, plates
spoiled, plates swapped), `spent` how often each event has happened; they are not
program state.

`PREPARE` and `RUNNING` are one state (they follow each other in one call and
refuse a file alike), as are the two FAILED reports of `forceFail` (the second
is what `Repeat` may send anyway). A message published while the link is down is
kept by the client and sent on reconnect. `Limits` says how often each kind of
event may happen; the constants of `MCPrintFarm` choose which ones a run is about.

### FtpsServer, FtpsSession, SerialQueue

`FtpsServer` is the stub's control connection as a record and its commands as
functions on it. `FtpsSession` runs three kinds of call against it: an upload by
curl (`Kind = "curl"`), the session of `checkFtps`, and a session under
`withFtpsRetry`. `queue` is the promise chain of `runSerialized`; `phase[c]`,
`step[c]` and `sent[c]` say where the call's continuation is and how much of its
script and payload has gone out; `conn[c]` is the server's side. The printer's one
session is `slot`: a call's, free, held by a connection that died (`Abandoned`),
by the bare TCP probe of the diagnostics (`Probe`), or wedged. A connection may
fall silent, a transfer may break in the middle and leave a part of the file,
curl may be missing, an abort may arrive at any time, the session may expire.
`SerialQueue` is what the chain promises, in three actions.

### VirtualPrinter, Reports

`VirtualPrinter` translates the stub printer handler by handler: a handler's
result is the printer it leaves and the reports it emits. `Reports` puts it behind
the broker (`wire`, `requests`, `link`), lets the control API act on it, and models
the other end: `latest` is the client's `latestStatus`, merged from full and
partial reports, `prev` the snapshot of the state log.

### CameraRelay

One variable per field of the relay (`sock`, `connecting`, `frame`, `linger`,
`backoff`, `delay`, `listeners`), the sockets that are open towards the camera
(`live`) or destroyed and not yet closed (`closing`), and the consumers: MJPEG tabs
and callers of `snapshot()`. A timer is a flag that may fire whenever it is set.

### Alerts

Every step of `Dispatcher`, conjoined with the notifications that stretch of code
makes, in order (`FinishNotices`, `FailNotices`, `AbortNotices`, `Refilling`), and with what they reach: the
retained snapshot, and the SSE writers in the order they registered (`clients`, in which
a dead connection leaves a writer that throws). `tabs` are the dashboards that are open
and `shows` what each fetched last; a broadcast reaches writers and makes their pages
`owed` a fetch, and says nothing to a tab that is not connected at that moment
(`missed`; the browser's EventSource connects again by itself, and fetches nothing).
What a page shows is changed by `Fetch` alone. `age`, `timer` and `quiet` are
the escalation's clock, which runs only while a refill is open: nothing reads
it otherwise. `Cut` is the fraction of a second `datetime('now')` cuts off.

### Wizard

`saved` is the one JSON document, `copy[r]` what request `r` loaded before its
await, `request[r]` what it is suspended in. `armed`, `fired`, `shots`, `prev`,
`layerFired` are the capture's variables in `main.ts`. `raced` and `fresh` are
history. What the wizard sends to the printer is in `PrintFarm`.

### Toolbox and the algorithm modules

`PaintColor`, `PlateMesh`, `SlicedArchive`, `GcodePrograms`, `Timing`, `LogFiles`
and `Filaments` are operators, each translated from the function of its name.
`Toolbox` takes one of them per behaviour on one of the inputs of `MCToolbox` and
compares what it returns with a definition that does not mention how it was
computed: a paint tree is written and read back, a placement is worked out by
following the components from the build, a log is compared with the records that
were written. Recursion is by recursive functions and folds.

## 3. Properties that hold

The queue:

* `AtMostOnePrinting` (INV-DISPATCH-03) — under every interleaving of
  requests, retries of any row, failed starts, boots and reports.
* `RefillOnlyWhenEmpty` (INV-STOCKER-04/05) — a refill is requested at most once
  and only while the count is zero.
* `StartsAreLegal` (INV-DISPATCH-01/02/04, INV-CONSISTENCY-02) — judged on the
  database a whole handler leaves: a job that starts has a spare plate, no open
  refill, an unpaused project and no candidate before it in the queue.

The queue on its printer:

* `RefinesLifecycle` (INV-QUEUE-01/02, INV-DISPATCH-03) — rows move along the documented
  arrows, and off them only for a cause that has come about, under every overlap the
  farm can produce: an abort whose own stop is reported while it ejects, a start that
  is reverted late, a retry of a row that prints, a restart in the middle of any of them.
* `QueueDrains` — every way a plate ends hands the queue on: a queued job leaves the
  queue or the pending list asks for a human, in a farm whose prints may fail and whose
  operator does nothing but refill. It is about such a farm only, because the code does
  not keep it elsewhere: see sections 6 and 7.
* `FailureAsksHuman` (INV-FAIL-01) — once the farm is at rest, a human is asked about every
  job that failed, also when the FAILED was lost and read again after a reconnect. Its
  exceptions are the ways in which the code asks nobody: section 7.
* `FarmIsConsistent` — four statements that relate the database to the machine.
  `RunningIsPrinting`: a plate on the printer, or on its way there, is a row that is
  `printing`; `PrintedOnce`: no plate is printed twice, however often it is retried.
  Both hold while the farm is `Calm`: no start timed out, nothing was aborted, no
  restart reverted a row, and no row was retried that prints or was printed — each of
  these does part a row from its plate, as section 7 tells. (The dashboard offers a retry
  on failed and aborted rows; neither the route nor the method checks, so `Retry` does not
  either, and a retry of another row is an event of its own, `rerun`.)
  `PrintingIsRunning`: at rest, a row that stays `printing` is on the printer, unless a connection was lost with its file. `CountMatchesStocker`: at rest, the count
  has gone down by one for every plate the mechanism took, whatever prints and uploads
  failed, unless an eject's file was lost or the eject failed itself. These two are
  about the farm that is `Undisturbed`: prints and uploads fail and connections break,
  but nobody intervenes. The types include that the Monitor has exactly the call under
  way it is suspended in, so its chain never waits for nothing.
* `FinishIsNoticed` (INV-RESYNC-01) — across a lost connection.
* `SuccessWasPrinted` — no report of an eject, of a rehearsal, of an earlier print
  or of a resync completes a job the printer has not finished.
* `FailuresAreCountedOnce` — a job's attempts are never more than the plates the
  printer lost of it and the crashes, also when the FAILED of an attempt is repeated
  after the job was retried.
* `WizardSparesJobs` — the wizard's stop never ends a job's print, in spite of a
  check made on the database before an await, while the farm is `Calm`; a lost
  connection makes no difference.
* `ImplementsDispatcher` — every step of the farm is one `Dispatcher` allows.

Around it:

* `OutcomesAreTrue` — what an FTPS call settles to is what happened: a retry stops
  early exactly on two refusals in a row, an upload that resolves is on the
  printer in full. `LeavesNothingBehind` — the slot is given back unless a connection
  died or the bare probe has it, and the credentials file lives as long as its curl.
  `OneInteraction`, `ServesInOrder` — one at a time, in order, and every call settles.
* `RelayIsConsistent`, `OneUpstream` — no order of closing sockets, subscriptions
  and timers loses the reconnect, leaks a listener or opens a second connection.
  `SnapshotsSettle`, `CameraIsReleased` — with a camera that may never send a frame.
* `ClientCatchesUp`, `EdgesAreSeen`, `TrailTellsStates`, `EndIsNoticed` — what the
  printer's state becomes at the client and in the state log, through partial
  reports, polls, withheld and lost ones.
* `StoppedQueueIsHeard`, `NoNagging` (INV-PENDING-03) — a stopped queue is
  announced within an interval and a period of the timer, and not earlier than
  the interval. `SnapshotShowsEnds`, `PagesShowEnds` — what devices on the broker
  and dashboards show of the plates that ended: every one whose handler lived to tell,
  whatever is announced in between, and whichever other browsers' writers throw.
* `JudgedByEvidence`, `NotesAreKept`, `OncePerArming`, `ShotIsTold` — the wizard's
  document under overlapping requests, and its capture.

Computations, on every input of `MCToolbox`: `PaintIsFaithful` (what was painted
is decoded, and the pieces tile the triangle), `PreviewShowsThePlate` (indices
and extruders are sound, every triangle lies where the build puts it),
`ArchivesPrint` (digest, plate and snippet of the sealed archive agree, and the pages
list the plates that are there, in order), `ProgramsAreSafe` (nothing heats, extrudes or leaves the
volume; the swap is at the end), `TimesAreRight`, `LogsKeepTheNewest`,
`FilamentsMatch`. Each is a conjunction of named parts, stated in `Toolbox`.

`TypeOK` is stated in `Dispatcher`, `PrintFarm`, `FtpsSession`, `CameraRelay` and
`Wizard`, and proved in all of them.

## 4. Runs

| Run | Instance | Distinct states | Question |
|---|---|---|---|
| `DispatcherRaces` | 2 jobs, 1 project | 277 000 | safety under every overlap |
| `FarmLossy` | 3 jobs, 2 plates; two print failures and a refill, or one failed upload, one lost connection, one retry | 26 000 | do database, printer and stocker agree again, does the queue go on? |
| `FarmDisturbed` | 1 plate; up to three events of twelve kinds | 181 000 | is every step one of `Dispatcher` and `JobLifecycle`, is each end the right job's? |
| `FarmReboot`, `FarmRefusal`, `FarmAborts` | 2 plates; one kind of trouble each | — | refuted, see section 6 |
| `Transfers` | an upload, a probe, a retried session; four settings | 355 000 | one session, shared and given back? |
| `Camera` | 2 tabs, 1 snapshot, 2 sockets | 3 083 | one upstream, while somebody watches? |
| `Reports` | 3 plates to print, 3 calls, one loss | 198 000 | does the client learn what the printer does? |
| `Alerts` | 2 jobs, 1 browser, refill and restarts | 152 000 | is a stopped queue announced, do the snapshot and the page show every end? |
| `Wizard` | 3 requests, 2 stages | 388 000 | does the document survive overlaps? |
| `Algorithms` | the inputs of `MCToolbox` | 40 500 | do the computations do what they are for? |

**Bounds.** Two jobs are the fewest for which queue order, a sibling in a
project, a clone and a start during another job's await exist; three let a job
wait behind a wait. `Capacities = {2}` lets a finished plate be followed by the
next one and reaches the empty stocker after two swaps, or after the operator
set the count lower (`Alerts` takes 1). One suspended call of each kind per job
(`MaxStarts`, `MaxAborts`, `MaxConfirms`) already gives two continuations on one
row; `DispatcherRaces` explores states with at most `MaxSuspended = 2` of them,
beside the Monitor's call and the boot snapshot: two while no print failed or one that did
is being ejected, one otherwise. `MaxAttempts = 1` with
`RetryLimit = 0` reaches the refused retry; `MaxDecisions = 1` caps the
unresolved colour decisions of a project. What a project adds is the
database's: once a job is in it, `DispatcherRaces` explores one suspended call at a time
beside the Monitor's, one plate, and no failure, abort, deletion or restart (`LittleElse`).
A fan-out creates one clone: further clones repeat the same loop body.

In the farm each kind of event happens at most once, but for the prints that fail in
`FarmLossy`: a second failure is that of the retried print, or of the eject behind the
first, which `CountMatchesStocker` must tell apart. `FarmDisturbed` explores
every combination of `MaxEvents = 3` of them (an event of the wizard, which starts a print
of its own, a refill and a retry of a row that did not fail are possible at any moment and
count twice), with one plate so that the stocker runs empty.
`FarmLossy` has three jobs and two plates, so that the queue must wait for a refill;
the refill happens where nothing but prints failed (`Restocked`).
`Dispatcher`'s own bounds are mapped to `NoBound`, which none of its guards
refuses: the farm implements it without a limit on suspended calls. `Repeat` keeps at most one report that is neither received nor
handled.

`Transfers`: three attempts are what a "wedged" in the middle needs;
`MaxFaults = 1` silent, broken or aborted transfer, failed spawn or expiry,
`MaxWedges = 1`, and `MaxChunks = 2` with files of two and four chunks on either
side of the server's cap. The four settings are the stub, a printer that only
grants PROT C, a wrong access code, a file over the cap. `Camera`: a ceiling of 3
over a base of 1 reaches the doubling and the cap. `Reports`: `MaxCalls = 3`
requests or control calls, `MaxWire = 1` report on the link (the printer's next step waits
for room), one drop, one partial report, and the diagnostics once; `SimMinutes = 2`
makes a print of two ticks and two layers. `Alerts` adds to `Dispatcher`'s
bounds `MaxSuspended = 1`, `MaxTrouble = 1` failure, abort or deletion (one of the two at a time
with a tab open, `LittleTrouble`), one restart
while nobody is told, an interval of 3 units and a period of 2. The page: one tab and one
writer of a dead connection, registered before or after it. A tab that missed something
is not followed further (`InTouch`): at its next fetch it is where a new tab is. With a
tab open the escalation's clock is followed only from a row just filed and to a tick that
is due (`Unhurried`): nothing a page shows depends on the time.
`Wizard`: three requests let a third load between two overlapping ones; stages 2 and 4 are judged by the two kinds of evidence, the diagnostics and the
status; the printer answers everything or sends no report.

`Algorithms`: `PaintDepthCap = 2` (4 in the code) so that trees of three levels are
cut by it; figure eights of `Segments = 8` (48); points are pairs, a transform
scales and moves, which does not commute; `RetentionDays = 2`, `MaxBytes = 5` halves
of lines and `MaxFiles = 2`, so that windows begin inside a line, between lines and
before the file, and a tail spills over. `MCToolbox` says which branch each input
is there for.

The farm's runs, `Transfers`, `Reports`, `Alerts` and `Algorithms` switch the deadlock
check off: when the queue is printed, the calls are settled, the bounded events are used up or the one computation is made,
the story is over.

## 5. Fairness

* `PrintFarm!Fairness`: microtasks run, uploads end, what the link holds is
  delivered, the client reconnects (`reconnectPeriod: 1000`), a print ends.
  Strong fairness where an action is guarded by `Drained`, because the guard is
  false while microtasks run and the event loop serves every source of events in
  turn. Neither `Repeat` nor any disturbance is fair: the recovery in
  `FinishIsNoticed` rests on the pushall after the reconnect alone. `QueueDrains` uses
  the same fairness. That a row which is `printing` ends is not assumed: the printer
  finishes what it prints (`Finish` is fair while it runs), and whether a row that is
  `printing` has a plate there is the model's to say. Where it has none (a refused file, a
  lost one, an abort) the row stays for ever; the runs and events in which that happens are
  outside `LeftToRun`, and section 6 shows a case.
* `FtpsSession!FairSpec`: each call makes progress — the printer answers while the
  connection delivers, and otherwise a timer of the call fires (basic-ftp's
  timeout, curl's stall guard and ceiling, the retry's delay). No aid comes from
  outside: nobody has to reboot a wedged printer.
* `CameraRelay!Fairness`: timers fire and a destroyed socket closes. Nothing is
  assumed of the camera.
* `Reports!Fairness`: the ticker runs, the link delivers, the client reconnects.
* `Wizard!Spec`: the snapshot has a timeout, the webhook's promise settles.
* `Alerts` has none: `Pass` cannot go past the timer, so "within an interval and a
  period" is a safety property.

## 6. What the repository says and a run refutes

* **FarmReboot** (`SuccessIsFinal`, `invariants.yaml:81`) — the process dies while
  job 1 prints and comes back after it has finished. The Monitor handles the first
  report (success, job 2 starts), then the reconciliation of `main.ts:259` requeues
  job 1, which it had read as `printing` before it awaited the report.
* **FarmRefusal** (`NoPhantomPrinting`, `mqtt-ftps-printer.ts:73-74`) — job 1 finishes,
  job 2 is sent and the printer rejects it. It still shows FINISH, which is not IDLE:
  the start counts as confirmed, and job 2 stays `printing` with nothing on the printer.
* **FarmAborts** (`OnlySwapsAreCounted`, `invariants.yaml:32`) — the stop an abort sends
  makes the printer report FAILED, and the row is still `printing` while the abort awaits
  its eject. The Monitor's `onFailed` ejects and decrements, the abort decrements again:
  one plate fewer on the stocker than there is, a `retry_decision` for an aborted job.

## 7. Behaviours the models contain, with no run of their own

The properties above are stated so that they hold with these; TLC reaches them.

The queue:

* A plate fails and the eject's upload fails too: the job is `failed`, the stocker
  is not decremented, no `retry_decision` exists, nobody is told, and the error is
  swallowed by the Monitor's catch (`MonitorEjectThrows`), where `invariants.yaml:317`
  has "pending_action(retry_decision) created".
* A failed job is retried while its eject is uploading: the count still includes the plate
  the eject will take. When that one was the last, the print that starts finds the count at
  zero when it ends, its decrement throws, and nobody is asked about it if it failed.
* Two tabs confirm job 1. Both pass the 409 check; the first body arrives, job 1
  is queued and starts. The second body arrives: the row that is `printing` is
  written `queued` (`ConfirmApply`), where `write-routes.ts:191` says "Only valid while
  the job is 'processing'".
* The copy for a clone fails: the clone was inserted, but is not yet in the list
  that is rolled back (`ConfirmFanOutFails`).
* The count is at zero when a substituted plate of a strict project finishes: the
  decrement throws before the colour decision is made (`FinishThrows`).
* A job that any pending action ever referenced cannot be deleted: the foreign
  key looks at resolved rows as well (`DeletePermitted`, `write-routes.ts:332`).
* The dashboard's resolve of a refill dispatches nothing: the queue stands and
  the pending list is empty (`ui-routes.ts:175`).
* A start that fails is queued again and nothing tries it until some other event
  dispatches (`write-routes.ts:95`).
* The upload route writes the row before the artifact: a full disk leaves a job
  without one (`upload-routes.ts:35`).

On the printer:

* An abort while the plate's file is still uploading: `stop` finds an idle printer,
  then the file starts, then the eject arrives and is refused.
* An abort dispatches the next plate while its eject runs: the file is refused, and the
  eject's RUNNING confirms the start (`mqtt-ftps-printer.ts:93-95` has it as a TODO). The
  row stays `printing` as in `FarmRefusal`.
* A retry of a row that is `printing` queues it while its plate prints; a retry of a
  `success` row prints it again (`write-routes.ts:284`).
* An abort during `startPrint`, then the start times out: `aborted` becomes
  `queued` without a retry (`invariants.yaml:87`: "no status transition from failed/aborted
  to queued occurs without a corresponding retry API call"). And with no status for 20 s
  after `project_file` the row is reverted, and then the printer starts.
* A failure is handled and retried during its eject's upload; the process dies;
  the first report after the boot is the old FAILED, and it counts against the
  retry.
* A failed job is retried while its eject runs: its file is refused, the eject's
  RUNNING confirms the start, and nothing ever moves the row again.
* A dry run is accepted while a job's file uploads; its RUNNING confirms that job's
  start, while the job's file is refused. The wizard's eject file may land among
  jobs' files. A rehearsal that includes the swap moves a plate the stocker does
  not count.

Notifications:

* The retained snapshot is republished on notifications only. Dispatching,
  reverting, queueing, reordering, deleting, confirming, resolving and refilling
  leave it stale until the next one, although `orchestrator.ts:19-20` and
  `gateway.ts:8-11` speak of every change; the escalation does not republish it.
* `retry` at its limit files an advisory row and notifies nobody, where
  `dispatcher.ts:211` says "halt: notify only". `job_started` is never sent.
* Restarts that follow each other quicker than the timer's period postpone the
  escalation for ever (`reboots` in `StoppedQueueIsHeard`).
* A dashboard that was not connected when something was announced shows the old state
  until the next announcement: when its EventSource connects again, nothing fetches.
* `toProgressView` pairs whatever status came last with the row that is `printing` now.

FTPS, camera, printer:

* Nobody in `src/` passes `signal` or calls `withFtpsRetry`: aborts and retries are
  modelled from their definitions and tests. "wedged" is also reported when a dead
  connection holds the slot for two refusals. The diagnostics' TCP probe is outside
  the chain. A truncated upload counts as stored on the stub.
* `latest()` keeps a frame of an upstream that is gone; a camera that hangs without
  closing is never reconnected.
* The stub's divergences: a pending fault is replaced by the next one
  (`virtual-printer.ts:29`, `:266`); the "side-effect-free" probe of the diagnostics
  sends a pushall; a partial AMS report makes the state log write an empty state.

Computations:

* `calcEta` adds a swap after every plate, the last included, and `stub-sut.ts` counts
  them so, where `eta.ts:24` speaks of "one SWAP_DURATION_MS per plate boundary";
  `projectRemainingSec` adds none after the last, and 60 seconds for each whatever was
  calibrated (`SWAP_SEC`, in `Timing` as in the code). `EtaAddsUp` says what each adds up
  to, in its own unit, and by how much they differ. `calcEta` is used by the
  scenario stub only; calibration, the run timer, `injectStartSequence` and
  `FilamentService` are not wired into `main.ts`.
* A FAILED after the FINISH voids a measured duration. A majority of samples bounds
  the calibration only to within its own spread (`[2a-b, 2b-a]` for a majority in `[a, b]`).
* `readLogTail` skips the middle of a large newest file before it spills into an older
  one, where its comment speaks of the newest records; a window that begins exactly
  at a line drops that line.
* An empty or unknown plate of an archive with several renders the whole scene,
  documented for archives without plates only; an item id placed twice keeps its
  last placement; an unparsable vertex shifts the indices behind it.
* The patterns for entry names ignore case, the look-ups do not. The digest ends
  in a newline in `packageGcodeThreemf` and not in `injectIntoThreemf`.

## 8. Theorems

For every finite set of jobs, calls, tabs, browsers, requests and commands, and every
bound:

| Theorem | Statement |
|---|---|
| `DispatcherProofs!TypeCorrect` | `Spec => []TypeOK` |
| `DispatcherProofs!SingleMachine` | `Spec => []AtMostOnePrinting` |
| `DispatcherProofs!RefillMeansEmpty` | `Spec => []RefillOnlyWhenEmpty` |
| `DispatcherProofs!EveryStartIsLegal` | `Spec => StartsAreLegal` |
| `PrintFarmProofs!FarmTyped` | `Spec => []TypeOK` |
| `PrintFarmProofs!SuccessIsPrinted` | `Spec => []SuccessWasPrinted` |
| `PrintFarmProofs!FailuresCountedOnce` | `Spec => []FailuresAreCountedOnce` |
| `PrintFarmProofs!FarmImplementsDispatcher` | `Spec => ImplementsDispatcher` |
| `PrintFarmProofs!FarmKeepsDispatchersPromises` | `Spec => [](D!AtMostOnePrinting /\ D!RefillOnlyWhenEmpty) /\ D!StartsAreLegal` |
| `PrintFarmProofs!WizardNeverStopsAJob` | `Spec => WizardSparesJobs` |
| `PrintFarmProofs!FarmStaysConsistent` | `Spec => []FarmIsConsistent` |
| `PrintFarmProofs!FarmFollowsLifecycle` | `Spec => RefinesLifecycle` |
| `AlertsProofs!TellingChangesNothing` | `AlertsSpec => Spec` |
| `AlertsProofs!StoppedQueueIsAlwaysHeard` | `AlertsSpec => []StoppedQueueIsHeard` |
| `AlertsProofs!NobodyIsNagged` | `AlertsSpec => NoNagging` |
| `AlertsProofs!EndsAreShown` | `AlertsSpec => []SnapshotShowsEnds` |
| `AlertsProofs!PagesAreKept` | `AlertsSpec => []PagesShowEnds` |
| `FtpsSessionProofs!InteractionsAreSerial` | `Spec => []OneInteraction` |
| `FtpsSessionProofs!ChainIsAQueue` | `Spec => Chain!Spec` |
| `FtpsSessionProofs!ConversationsAgree` | `Spec => []SessionKept` |
| `FtpsSessionProofs!OutcomesAreAlwaysTrue` | `Spec => []OutcomesAreTrue` |
| `FtpsSessionProofs!NothingIsLeftBehind` | `Spec => []LeavesNothingBehind` |
| `ReportsProofs!ClientIsUpToDate` | `Spec => []ClientCatchesUp` |
| `ReportsProofs!EdgesAreAlwaysSeen` | `Spec => EdgesAreSeen` |
| `ReportsProofs!TrailIsComplete` | `Spec => TrailTellsStates` |
| `CameraRelayProofs!RelayTypes` | `Spec => []TypeOK` |
| `CameraRelayProofs!RelayHasOneUpstream` | `Spec => []OneUpstream` |
| `CameraRelayProofs!RelayStaysConsistent` | `Spec => []RelayIsConsistent` |
| `WizardProofs!DocumentsAreReadable` | `Spec => []TypeOK` |
| `WizardProofs!VerdictsFollowEvidence` | `Spec => []JudgedByEvidence` |
| `WizardProofs!FiresOncePerArming` | `Spec => []OncePerArming` |
| `WizardProofs!OnlyRacesLoseNotes` | `Spec => NotesAreKept` |

The assumptions are the named `ASSUME`s of the modules; TLC evaluates all of them.
They say what kind of value a constant is (a command has a file, a plate and a
mapping; minutes are positive, spools are whole grams) and give no bound.

**Dispatcher.** The inductive invariant is `IInv == TypeOK /\ RefillOnlyWhenEmpty /\
AtMostOnePrinting`. The three parts need each other: that a decrement leaves the
count a natural needs its guard and the type, that a refill implies an empty
stocker needs that a decrement only happens above zero. The argument goes
through `DispatchNext` rather than through the thirty actions. Every action
writes `db' = P` or `db' = DispatchNext(P)`, where `P` is a composition of
Repo writes that start nothing. `Sound(d)` collects what must be true of a
database value, one lemma per write shows that it is kept, `NextPrepares` reduces
the next-state relation to `P`, and three lemmas say what `dispatchNext`
adds to a sound `P`: at most one new `printing` row, and a legal one
(`FirstCandidateUnique`, from the order of positions and ids). The lemmas about the
writes are in `DispatchLogicProofs`, where the farm's proofs find them too.

**Farm.** `FarmInv` says of the database what `IInv` says, and accounts for the calls:
whatever is in the FTPS queue, waiting for a status or about to be resumed is a call,
and the Monitor has exactly one call of its own under way while its handler is
suspended in it and none otherwise. `Count` counts a call in the three sequences;
each action makes one, settles one or moves one to the next of them. The
refinement maps those counts to `starts` and `aborts` of `Dispatcher`, so a step that
settles a start is the settling of the same start there, and a step of the link, the
printer or the FTPS queue changes nothing of `Dispatcher`'s.

A success is true because every FINISH on its way - on the printer, on the link, in
the Monitor's chain - names a plate that was made (`ReportsAreTrue`). For the failures
that is not enough, since the same FAILED may be on its way several times. `Trail` is
`lastKey`, the chain, the link and the printer, in this order; the invariant
`FailuresAreDated` says that the statuses on it can be dated with the number of plates
of `j` lost by then, in such a way that dates never fall along the trail and rise
wherever a FAILED of `j` follows another status. The Monitor counts a FAILED only if it
differs from `lastKey`, so the date has risen and the count of attempts stays behind it.

**The farm's rows and plates.** `Errands(j)` counts the ways in which the plate of `j`
is on its way to be printed: a start in the FTPS queue, a file on the link, the print
itself. In the calm farm a row is `InStep` with it: there is one errand at most, and
only while the row is `printing`; the plates lost are the attempts counted, and one
more while an end is not handled; nothing has been printed of a row that is still to
be printed. `RowsStayInStep` goes from row to row: to each row an action is a `RowStep`
(it is launched, its file is lost or refused, its print ends, the end is handled, it is
retried, it stays as it is), and `RowStepsKeepStep` does the arithmetic. `RunningIsPrinting` and `PrintedOnce` can be
read off. Which row an end belongs to comes from `TrueFarm`, the invariants above.

The wizard sends its stop only while no row is `printing`, when nothing of a job is on
the way; what is sent later is behind it, because the link keeps its order, and while
it is on the link nothing of a job prints (`StopsFirst`, an instance of `Ahead`). A lost
connection loses the stop and the files before and after it alike, which is why the
theorem needs no hypothesis about it.

**The undisturbed farm** does one thing at a time: it uploads, or a file is on its way, or
the printer prints, and an eject is alone (`Shape`, `EjectsAlone`). What is `printing`
is still to be printed or has ended, and its end is on the printer, with its report or
a pushall on the way to the Monitor, which has not handled it yet (`PrintsAreDue`,
`EndsAreOnTheirWay`, `NotHandledYet`). `Balanced` keeps the stocker's count: what
remains, what the mechanism took and what an eject under way will take are the plates
loaded, and one more while a plate is made whose end is not handled (`Owed`).
`UndisturbedStep` tells the steps of this farm apart as far as the counts need it, one
lemma per conjunct shows that each is kept, and `RestingFarm` reads `PrintingIsRunning` and
`CountMatchesStocker` off a farm in which nothing is on its way.

**The farm's rows and their arrows.** A handler prepares one row and dispatches at most one,
so each step of the farm is a move of `JobLifecycle` (or none) followed by a start (or none).
`StoredRows` reads that off the database a step leaves, `StepsFollow` goes handler by
handler, and that a start finds no other row `printing` is `AtMostOnePrinting'`. What an
arrow off the documents needs to have come about is kept by `Causes` with the call that
will take it: an abort that awaits its eject is of a row that has not become `queued`,
unless a failed start or a retry gave it back; a row of the boot's snapshot is not
aborted while the boot waits. That a failed start
finds its row `printing` unless something parted them is `InStep` once more, through
`CalmInv`.

**Alerts.** The implementation of `Dispatcher` is by shape, so that whatever
`DispatcherProofs` shows of a step is at hand. The clock's invariant is a budget: what
has passed since somebody was told, and what the timer may still let pass, are
together at most an interval and a period, and a period more for each restart.
For the snapshot, each handler's announcements are databases on the way to the
one it leaves; after an announcement no row ends any more (`EndsNothing`), so
the last snapshot shows every end, and the exceptions are the handlers that throw or
still eject. For the pages there is one argument more: the step that ends a row reaches
every tab whose writer is alive, wherever it stands among dead ones, and a tab that is
connected, or missed nothing, and owes no fetch, has fetched after the last such step.

**FTPS.** `ChainInv` says that `queue` holds every call that waits or runs,
once, and that only its head runs. `OneInteraction` follows at once, and each step
is a `Join`, `Begin`, `End` or `Fail` of `SerialQueue`, or leaves its variables alone.
`Dialogue(c)` puts the client's place in its script beside the server's side of the
connection, phase by phase (in `Sending`: the server has received what was sent, and
says 226 only for all of it), and `Attempting(c)` says what `withFtpsRetry` knows of
its attempts; a step changes one call's and the other calls do not notice.
`TidyInv` adds that a connection that fell silent was a fault's doing, which is why only
a fault or the bare probe can leave the slot occupied.

**Reports.** The client's status and the messages on the wire are one line, with the
status at place 0. The newest report on the line shows the printer as it is, and each
report follows from the one before by an edge the printer can take (`Informed`,
`Ordered`); `Excused` says when the first need not hold. A handler's reports are such
a line of their own, from one state of rest to the next (`Sincere`, one lemma per
handler of the stub), `SpeechArrives` joins it to the wire, and `TheLineMovesUp`
is the client taking a message. The trail needs only that a state in the state log's
snapshot is the one the program was told last.

**Relay.** `Inv == TypeOK /\ UpstreamInv /\ ListenersInv`: the socket the relay
holds is the only one that is open, the backoff timer excludes an upstream, a stale
frame beside an upstream means it is still connecting, and with nobody subscribed
whatever is left (socket, timer or frame) has the linger timer behind it.

**Wizard.** `Inv` carries the agreement of verdict and evidence (`Evident`) into
every copy a suspended request holds, since it is saved whole later; a copy that
nobody raced still equals `saved`, which gives `NotesAreKept`; and while the capture
is armed no shot of this arming has begun, which gives `OncePerArming`.

## 9. Only model-checked

* `FailureAsksHuman`, which holds in its run and has no theorem.
* Every liveness property (`QueueDrains`, `FinishIsNoticed`, the liveness half of
  `ServesInOrder`, `SnapshotsSettle`, `CameraIsReleased`, `EndIsNoticed`,
  `ShotIsTold`): reasoning under fairness needs `ENABLED`, which the prover lacks.
* The computations of `Toolbox`: what recursive functions and folds (`PaintColor`,
  `PlateMesh`, `Timing`, `LogFiles`) compute needs induction over data, with an
  operator as the induction hypothesis, which the installed provers cannot
  instantiate; and `PaintColor` is a `RECURSIVE` operator, which takes the SMT backend
  from every module above it.

`PrintingIsRunning` and `CountMatchesStocker` say nothing of a farm in which rows are
retried. The first fails there: a retried row may find the printer at the eject of its
first attempt, which refuses its file and whose RUNNING confirms its start. Of the
second no counterexample is known; its proof uses that an eject is the only errand.

## 10. Not modelled, and why

* The scenario runner and the scripted stub of `verify/` are test tooling; so are the
  scripts. `stub-sut.ts` compares raw colours where the code compares them in any
  notation: it is no model of the system.
* HTML, JSON and image output, ETags, the token check, message texts, log formats,
  redaction and filters: formats without control.
* The ZIP and XML parsers, the camera's frame parser, the MQTT wire and TLS: libraries
  or byte formats; what comes out of them is an input.
* In the database: texts, timestamps other than `notified_at`, the filament plan,
  thumbnails, and `waiting_for_refill`, which no code writes.
* A request body that never arrives, a second process on the same database, shutdown,
  and two continuations that interleave at the microtask level inside one
  synchronous-looking `await` of an already resolved promise.
* `resumeWithAlternateSlot`'s await: `FilamentService` is not wired into `main.ts`, so
  only its decision is modelled.

## 11. What comes next

1. `PrintFarm`: the stocker's count in a farm with aborts and restarts, stated so that it
   names the plates whose end the database does not know (`FarmAborts` shows that the
   plain statement fails).
2. `Toolbox`: the parts that need no induction (`TimesAreRight`, `FilamentsMatch`).
3. `FilamentService` as a process, once `main.ts` runs it.
4. A farm with three jobs and two of each fault, where the runs' time allows.
