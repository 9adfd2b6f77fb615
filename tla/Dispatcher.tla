----------------------------- MODULE Dispatcher -----------------------------
(***************************************************************************)
(* The orchestrator process: the Dispatcher's methods, the HTTP routes and *)
(* the Monitor that call them, and the reconciliation at boot, over an     *)
(* abstract PrinterPort.                                                   *)
(*                                                                         *)
(* JavaScript runs one continuation at a time, so an action is the code    *)
(* from one await to the next and the variables hold what is suspended:    *)
(* calls of startPrint, calls of ejectAndReset, request bodies being read. *)
(* PrinterPort may settle or reject whenever it likes, and the printer may *)
(* report the end of any job the Monitor would attribute to a row.         *)
(* PrintFarm replaces this freedom by a printer.                           *)
(***************************************************************************)
EXTENDS DispatchLogic, Integers

CONSTANTS
  Capacities,   \* capacities POST /api/stocker is called with
  MaxStarts,    \* bound: suspended calls of startPrint per job
  MaxAborts,    \* bound: suspended abort requests per job
  MaxConfirms,  \* bound: suspended PATCH filaments requests per job
  MaxAttempts,  \* bound: failures per job
  MaxDecisions  \* bound: unresolved color_decision rows per project

(* The bounds keep TLC's instances finite; the code has none.               *)
NoBound == -1

Bounds == Nat \union {NoBound}

ASSUME BoundsAssumption ==
  /\ Capacities \subseteq Nat \ {0}
  /\ {MaxStarts, MaxAborts, MaxConfirms, MaxAttempts, MaxDecisions} \subseteq Bounds

Within(n, bound) == bound = NoBound \/ n < bound

NoJob == 0

VARIABLES
  db,        \* the database
  starts,    \* starts[j]: calls of startPrint(j) suspended outside the Monitor
  aborts,    \* aborts[j]: calls of abort(j) suspended in ejectAndReset
  confirms,  \* confirms[j]: PATCH filaments requests reading their body
  monitor,   \* what the Monitor's handler chain is suspended in
  booting,   \* main.ts awaits the first status report
  snapshot   \* printingAtBoot

requests == <<aborts, confirms>>
bootVars == <<booting, snapshot>>
vars == <<db, starts, aborts, confirms, monitor, booting, snapshot>>

Idle == [task |-> "idle", job |-> NoJob]
Ejecting(j) == [task |-> "eject", job |-> j]
Starting(j) == [task |-> "start", job |-> j]

None == [j \in Jobs |-> 0]

Init ==
  /\ \E c \in Capacities : db = FreshDB(c)
  /\ starts = None
  /\ aborts = None
  /\ confirms = None
  /\ monitor = Idle
  /\ booting = FALSE
  /\ snapshot = {}

(* The HTTP server is started after the boot reconciliation.                *)
Serving == ~booting

(* dispatchNext on d by a caller that leaves the start suspended on its own *)
(* (triggerDispatch, abort, boot).                                          *)
Advance(d) ==
  /\ db' = DispatchNext(d)
  /\ starts' = [j \in Jobs |-> IF j \in Started(d) THEN starts[j] + 1 ELSE starts[j]]

-----------------------------------------------------------------------------
(* Uploads and confirmation of the filament plan                            *)

Upload(j) ==
  /\ Serving
  /\ IsNextId(db, j)
  /\ \E p \in Positions : IsNextPosition(db, p) /\ db' = CreateJob(db, j, p)
  /\ UNCHANGED <<starts, aborts, confirms, monitor, booting, snapshot>>

(* The 409 check is made before the body is awaited ...                     *)
ConfirmBegin(j) ==
  /\ Serving
  /\ db.status[j] = "processing"
  /\ Within(confirms[j], MaxConfirms)
  /\ confirms' = [confirms EXCEPT ![j] = @ + 1]
  /\ UNCHANGED <<db, starts, aborts, monitor, booting, snapshot>>

ConfirmRejected(j) ==
  /\ confirms[j] > 0
  /\ confirms' = [confirms EXCEPT ![j] = @ - 1]
  /\ UNCHANGED <<db, starts, aborts, monitor, booting, snapshot>>

(* ... and the row is written without being checked again.                  *)
ConfirmApply(j, p) ==
  /\ confirms[j] > 0
  /\ Within(starts[j], MaxStarts)
  /\ confirms' = [confirms EXCEPT ![j] = @ - 1]
  /\ Advance(UpdateStatus(SetProject(db, j, p), j, "queued"))
  /\ UNCHANGED <<aborts, monitor, booting, snapshot>>

(* A second selected plate becomes the clone c, queued after j.             *)
ConfirmFanOut(j, c, p) ==
  /\ confirms[j] > 0
  /\ Within(starts[j], MaxStarts)
  /\ j \in Rows(db)
  /\ IsNextId(db, c)
  /\ confirms' = [confirms EXCEPT ![j] = @ - 1]
  /\ \E q \in Positions :
       /\ IsNextPosition(db, q)
       /\ LET cloned == CloneJob(SetProject(db, j, p), j, c, q)
          IN  Advance(UpdateStatus(UpdateStatus(cloned, j, "queued"), c, "queued"))
  /\ UNCHANGED <<aborts, monitor, booting, snapshot>>

(* Copying the cached archive failed: the clone whose copy failed was never *)
(* added to the list that is rolled back.                                   *)
ConfirmFanOutFails(j, c, p) ==
  /\ confirms[j] > 0
  /\ j \in Rows(db)
  /\ IsNextId(db, c)
  /\ confirms' = [confirms EXCEPT ![j] = @ - 1]
  /\ \E q \in Positions :
       IsNextPosition(db, q) /\ db' = CloneJob(SetProject(db, j, p), j, c, q)
  /\ UNCHANGED <<starts, aborts, monitor, booting, snapshot>>

-----------------------------------------------------------------------------
(* Human operations on the queue                                            *)

(* Any row may be retried: neither the route nor the method reads status.   *)
Retry(j) ==
  /\ Serving
  /\ j \in Rows(db)
  /\ ~RetryExhausted(db, j)
  /\ Within(starts[j], MaxStarts)
  /\ Advance(Requeued(db, j))
  /\ UNCHANGED <<requests, monitor, bootVars>>

RetryRefused(j) ==
  /\ Serving
  /\ j \in Rows(db)
  /\ RetryExhausted(db, j)
  /\ db' = CreateMechanicalCheck(db, j)
  /\ UNCHANGED <<starts, requests, monitor, bootVars>>

AbortBegin(j) ==
  /\ Serving
  /\ Abortable(db, j)
  /\ Within(aborts[j], MaxAborts)
  /\ aborts' = [aborts EXCEPT ![j] = @ + 1]
  /\ UNCHANGED <<db, starts, confirms, monitor, bootVars>>

AbortSettles(j) ==
  /\ aborts[j] > 0
  /\ aborts' = [aborts EXCEPT ![j] = @ - 1]
  /\ \/ /\ AbortThrows(db)
        /\ db' = MarkAborted(db, j)
        /\ UNCHANGED starts
     \/ /\ ~AbortThrows(db)
        /\ Advance(Aborted(db, j))
  /\ UNCHANGED <<confirms, monitor, bootVars>>

AbortEjectThrows(j) ==
  /\ aborts[j] > 0
  /\ aborts' = [aborts EXCEPT ![j] = @ - 1]
  /\ UNCHANGED <<db, starts, confirms, monitor, bootVars>>

Delete(j) ==
  /\ Serving
  /\ j \in Rows(db)
  /\ db.status[j] # "printing"
  /\ DeletePermitted(db, j)
  /\ db' = DeleteJob(db, j)
  /\ UNCHANGED <<starts, requests, monitor, bootVars>>

(* rank lists distinct existing ids and numbers them 1..N.                  *)
Reorder(rank) ==
  /\ Serving
  /\ DOMAIN rank \subseteq Rows(db)
  /\ db' = ReorderJobs(db, rank)
  /\ UNCHANGED <<starts, requests, monitor, bootVars>>

Rankings ==
  UNION { {f \in [S -> 1 .. Cardinality(S)] : \A x, y \in S : f[x] = f[y] => x = y}
          : S \in SUBSET Jobs \ {{}} }

SetPolicy(p, pol) ==
  /\ Serving
  /\ db' = SetProjectPolicy(db, p, pol)
  /\ UNCHANGED <<starts, requests, monitor, bootVars>>

-----------------------------------------------------------------------------
(* Human operations on the stocker and on pending actions                   *)

(* A remaining above the capacity violates the CHECK: the request fails.    *)
PostStocker(cap, rem) ==
  /\ Serving
  /\ rem <= cap
  /\ Advance(ResolveStockerRefills(SetStocker(db, cap, rem)))
  /\ UNCHANGED <<requests, monitor, bootVars>>

Refill ==
  /\ Serving
  /\ Advance(ResolveStockerRefills(RefillStocker(db)))
  /\ UNCHANGED <<requests, monitor, bootVars>>

(* The dashboard's button: the same writes, no dispatchNext.                *)
UiRefill ==
  /\ Serving
  /\ db' = ResolveStockerRefills(RefillStocker(db))
  /\ UNCHANGED <<starts, requests, monitor, bootVars>>

(* Resolving one unresolved row dispatches nothing either.                  *)
Resolve ==
  /\ Serving
  /\ \/ /\ db.refill > 0
        /\ db' = [db EXCEPT !.refill = @ - 1]
     \/ \E j \in Jobs : /\ db.retryDecision[j] > 0
                        /\ db' = [db EXCEPT !.retryDecision[j] = @ - 1]
     \/ \E p \in Projects : /\ db.colorDecision[p] > 0
                            /\ db' = [db EXCEPT !.colorDecision[p] = @ - 1]
  /\ UNCHANGED <<starts, requests, monitor, bootVars>>

-----------------------------------------------------------------------------
(* startPrint settles for triggerDispatch, abort and boot                   *)

StartSettles(j) ==
  /\ starts[j] > 0
  /\ starts' = [starts EXCEPT ![j] = @ - 1]
  /\ UNCHANGED <<db, requests, monitor, bootVars>>

StartThrows(j) ==
  /\ starts[j] > 0
  /\ starts' = [starts EXCEPT ![j] = @ - 1]
  /\ db' = RevertStart(db, j)
  /\ UNCHANGED <<requests, monitor, bootVars>>

-----------------------------------------------------------------------------
(* The Monitor: one handler at a time, run to its end                       *)

MonitorFinish(j) ==
  /\ monitor = Idle
  /\ db.status[j] = "printing"
  /\ ColorConsistencyApplies(db, j) =>
       Within(db.colorDecision[db.project[j]], MaxDecisions)
  /\ \/ /\ FinishThrows(db)
        /\ db' = MarkSuccess(db, j)
        /\ UNCHANGED monitor
     \/ /\ ~FinishThrows(db)
        /\ db' = DispatchNext(Finished(db, j))
        /\ \/ /\ Started(Finished(db, j)) = {}
              /\ UNCHANGED monitor
           \/ \E k \in Started(Finished(db, j)) : monitor' = Starting(k)
  /\ UNCHANGED <<starts, requests, bootVars>>

MonitorFail(j) ==
  /\ monitor = Idle
  /\ db.status[j] = "printing"
  /\ Within(db.attempts[j], MaxAttempts)
  /\ db' = FailBegin(db, j)
  /\ monitor' = Ejecting(j)
  /\ UNCHANGED <<starts, requests, bootVars>>

MonitorEjectSettles ==
  /\ monitor.task = "eject"
  /\ db' = FailEnd(db, monitor.job)
  /\ monitor' = Idle
  /\ UNCHANGED <<starts, requests, bootVars>>

(* The eject's upload failed: the rest of onFailed does not run.            *)
MonitorEjectThrows ==
  /\ monitor.task = "eject"
  /\ monitor' = Idle
  /\ UNCHANGED <<db, starts, requests, bootVars>>

MonitorStartSettles ==
  /\ monitor.task = "start"
  /\ monitor' = Idle
  /\ UNCHANGED <<db, starts, requests, bootVars>>

MonitorStartThrows ==
  /\ monitor.task = "start"
  /\ db' = RevertStart(db, monitor.job)
  /\ monitor' = Idle
  /\ UNCHANGED <<starts, requests, bootVars>>

(* FilamentService resumed the print on a slot of another colour.           *)
RunoutSubstituted(j) ==
  /\ db.status[j] = "printing"
  /\ db' = SetSubstitution(db, {j})
  /\ UNCHANGED <<starts, requests, monitor, bootVars>>

-----------------------------------------------------------------------------
(* Restart: every continuation is lost, the database is not.                *)

Restart ==
  /\ aborts' = None
  /\ confirms' = None
  /\ monitor' = Idle
  /\ snapshot' = ByStatus(db, "printing")
  /\ booting' = (snapshot' # {})
  /\ \/ /\ booting'
        /\ starts' = None
        /\ UNCHANGED db
     \/ /\ ~booting'
        /\ db' = DispatchNext(db)
        /\ starts' = [j \in Jobs |-> IF j \in Started(db) THEN 1 ELSE 0]

Requeue(d, js) ==
  [d EXCEPT !.status = [j \in Jobs |-> IF j \in js THEN "queued" ELSE d.status[j]]]

(* The rows of the snapshot are reverted without being read again.          *)
BootReconcile(reallyPrinting) ==
  /\ booting
  /\ booting' = FALSE
  /\ snapshot' = {}
  /\ Advance(IF reallyPrinting THEN db ELSE Requeue(db, snapshot \intersect Rows(db)))
  /\ UNCHANGED <<requests, monitor>>

-----------------------------------------------------------------------------

ProjectChoice == Projects \union {NoProject}

QueueOps ==
  \/ \E j \in Jobs :
       \/ Upload(j)
       \/ ConfirmBegin(j)
       \/ AbortBegin(j)
       \/ RetryRefused(j)
       \/ Delete(j)
  \/ \E p \in Projects, pol \in Policy : SetPolicy(p, pol)

StockerOps ==
  \/ \E cap \in Capacities : \E rem \in 0 .. cap : PostStocker(cap, rem)
  \/ Refill

Operator ==
  \/ QueueOps
  \/ StockerOps
  \/ \E rank \in Rankings : Reorder(rank)
  \/ UiRefill
  \/ Resolve

Settles ==
  \/ \E j \in Jobs :
       \/ ConfirmRejected(j)
       \/ \E p \in ProjectChoice :
            \/ ConfirmApply(j, p)
            \/ \E c \in Jobs : ConfirmFanOut(j, c, p)
       \/ AbortSettles(j)
       \/ StartSettles(j)
  \/ MonitorEjectSettles
  \/ MonitorStartSettles

Throws ==
  \/ \E j \in Jobs :
       \/ \E p \in ProjectChoice, c \in Jobs : ConfirmFanOutFails(j, c, p)
       \/ AbortEjectThrows(j)
       \/ StartThrows(j)
  \/ MonitorEjectThrows
  \/ MonitorStartThrows

Continuation == Settles \/ Throws \/ \E b \in BOOLEAN : BootReconcile(b)

Printer ==
  \E j \in Jobs : MonitorFinish(j) \/ MonitorFail(j) \/ RunoutSubstituted(j)

Next ==
  \/ Operator
  \/ \E j \in Jobs : Retry(j)
  \/ Continuation
  \/ Printer
  \/ Restart

Spec == Init /\ [][Next]_vars

-----------------------------------------------------------------------------
(* Properties                                                               *)

(* Every variable stays in its declared range, and the database in the      *)
(* ranges the schema declares.                                              *)
TypeOK ==
  /\ db \in DB
  /\ starts \in [Jobs -> Nat]
  /\ aborts \in [Jobs -> Nat]
  /\ confirms \in [Jobs -> Nat]
  /\ monitor \in {Idle} \union {Ejecting(j) : j \in Jobs} \union {Starting(j) : j \in Jobs}
  /\ booting \in BOOLEAN
  /\ snapshot \subseteq Jobs

(* INV-DISPATCH-03: whatever routes, monitor, retries, failed starts and    *)
(* reconciliation interleave, two rows are never 'printing' together.       *)
AtMostOnePrinting ==
  \A i, j \in ByStatus(db, "printing") : i = j

(* INV-STOCKER-04/05 as one relation: the queue is only ever stopped for a  *)
(* refill while the stocker is empty, by a single request, and the count    *)
(* stays within the capacity the human last set.                            *)
RefillOnlyWhenEmpty ==
  /\ db.refill > 0 => db.remaining = 0
  /\ db.refill <= 1
  /\ db.remaining <= db.capacity

NewlyPrinting ==
  {j \in Jobs : db.status[j] # "printing" /\ db'.status[j] = "printing"}

(* INV-DISPATCH-01/02/04, INV-STOCKER-04, INV-CONSISTENCY-02, judged on the *)
(* database a whole handler leaves behind - after its swap, its colour      *)
(* decision, its requeue or its reordering: a job that starts leaves no     *)
(* unpaused queued job ahead of it, its project awaits no colour decision,  *)
(* a spare plate is left for its swap and no refill is outstanding.         *)
StartIsLegal ==
  \A j \in NewlyPrinting :
    /\ db'.refill = 0
    /\ db'.remaining > 0
    /\ ~ProjectPaused(db', j)
    /\ \A k \in Candidates(db') : Precedes(db', j, k)

StartsAreLegal == [][StartIsLegal]_vars

=============================================================================
