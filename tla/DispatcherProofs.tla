-------------------------- MODULE DispatcherProofs --------------------------
(***************************************************************************)
(* Theorems about Dispatcher, for every set of jobs and projects and every *)
(* value of the bounds.                                                    *)
(*                                                                         *)
(* The argument: every step of the process first prepares a database - a   *)
(* few writes of the Repo, none of which makes a row 'printing' and all of *)
(* which respect the stocker's accounting - and then either stores it or   *)
(* runs dispatchNext on it.  DispatchLogicProofs has a lemma per write and  *)
(* those about dispatchNext; here is one per action.                       *)
(***************************************************************************)
EXTENDS Dispatcher, DispatchLogicProofs

-----------------------------------------------------------------------------
(* Writes of the Dispatcher's callers                                       *)

LEMMA RequeuePrepares ==
  ASSUME NEW d, Sound(d), NEW js
  PROVE  Prepares(d, Requeue(d, js))
BY DEF Requeue, DB, Status, RowStatus, Prepares, StartsNothing, Sound, StockerOK

LEMMA SetProjectPrepares ==
  ASSUME NEW d, Sound(d), NEW j \in Jobs, NEW p \in ProjectChoice
  PROVE  Prepares(d, SetProject(d, j, p))
BY DEF SetProject, ProjectChoice, DB, Prepares, StartsNothing, Sound, StockerOK

LEMMA ConfirmedPrepares ==
  ASSUME NEW d, Sound(d), NEW j \in Jobs, NEW p \in ProjectChoice
  PROVE  Prepares(d, UpdateStatus(SetProject(d, j, p), j, "queued"))
<1>. DEFINE e == SetProject(d, j, p)
<1>1. Prepares(d, e)
  BY SetProjectPrepares
<1>. HIDE DEF e
<1>2. Prepares(e, UpdateStatus(e, j, "queued"))
  BY <1>1, UpdateStatusPrepares DEF Prepares, Status, RowStatus
<1>3. Prepares(d, UpdateStatus(e, j, "queued"))
  BY <1>1, <1>2, PreparesTransitive
<1>4. QED
  BY <1>3 DEF e

LEMMA ClonedPrepares ==
  ASSUME NEW d, Sound(d), NEW j \in Jobs, NEW c \in Jobs,
         NEW p \in ProjectChoice, NEW q \in Positions
  PROVE  LET e == CloneJob(SetProject(d, j, p), j, c, q)
         IN  /\ Prepares(d, e)
             /\ Prepares(d, UpdateStatus(UpdateStatus(e, j, "queued"), c, "queued"))
<1>. DEFINE f == SetProject(d, j, p)
            e == CloneJob(f, j, c, q)
            g == UpdateStatus(e, j, "queued")
<1>1. Prepares(d, f)
  BY SetProjectPrepares
<1>. HIDE DEF f
<1>2. q \in Nat
  BY DEF Positions
<1>3. Prepares(f, e)
  BY <1>1, <1>2, CloneJobPrepares DEF Prepares
<1>. HIDE DEF e
<1>4. Prepares(e, g)
  BY <1>3, UpdateStatusPrepares DEF Prepares, Status, RowStatus
<1>. HIDE DEF g
<1>5. Prepares(g, UpdateStatus(g, c, "queued"))
  BY <1>4, UpdateStatusPrepares DEF Prepares, Status, RowStatus
<1>6. Prepares(d, e) /\ Prepares(d, g)
  BY <1>1, <1>3, <1>4, PreparesTransitive
<1>7. Prepares(d, UpdateStatus(g, c, "queued"))
  BY <1>5, <1>6, PreparesTransitive
<1>8. QED
  BY <1>6, <1>7 DEF e, f, g

-----------------------------------------------------------------------------
(* One step per action: it prepares a database and stores or dispatches it. *)

Stores(e) == Prepares(db, e) /\ (db' = e \/ db' = DispatchNext(e))

StepPrepares == \E e : Stores(e)

LEMMA QueueActionsPrepare ==
  ASSUME Sound(db), NEW j \in Jobs,
         \/ Upload(j) \/ ConfirmBegin(j) \/ ConfirmRejected(j)
         \/ \E p \in ProjectChoice : ConfirmApply(j, p)
         \/ \E p \in ProjectChoice, c \in Jobs :
              ConfirmFanOut(j, c, p) \/ ConfirmFanOutFails(j, c, p)
         \/ Retry(j) \/ RetryRefused(j) \/ Delete(j)
         \/ AbortBegin(j) \/ AbortSettles(j) \/ AbortEjectThrows(j)
  PROVE  StepPrepares
<1>1. CASE UNCHANGED db
  BY <1>1, PreparesReflexive DEF StepPrepares, Stores
<1>2. CASE Upload(j)
  <2>1. PICK p \in Positions : db' = CreateJob(db, j, p)
    BY <1>2 DEF Upload
  <2>2. p \in Nat
    BY DEF Positions
  <2>3. QED
    BY <2>1, <2>2, CreateJobPrepares DEF StepPrepares, Stores
<1>3. ASSUME NEW p \in ProjectChoice, ConfirmApply(j, p)
      PROVE  StepPrepares
  BY <1>3, ConfirmedPrepares DEF ConfirmApply, Advance, StepPrepares, Stores
<1>4. ASSUME NEW p \in ProjectChoice, NEW c \in Jobs, ConfirmFanOut(j, c, p)
      PROVE  StepPrepares
  <2>. DEFINE cloned(q) == CloneJob(SetProject(db, j, p), j, c, q)
              both(q) == UpdateStatus(UpdateStatus(cloned(q), j, "queued"), c, "queued")
  <2>1. PICK q \in Positions : db' = DispatchNext(both(q))
    BY <1>4 DEF ConfirmFanOut, Advance
  <2>2. Prepares(db, both(q))
    BY ClonedPrepares
  <2>. HIDE DEF both
  <2>3. QED
    BY <2>1, <2>2 DEF StepPrepares, Stores
<1>5. ASSUME NEW p \in ProjectChoice, NEW c \in Jobs, ConfirmFanOutFails(j, c, p)
      PROVE  StepPrepares
  <2>. DEFINE cloned(q) == CloneJob(SetProject(db, j, p), j, c, q)
  <2>1. PICK q \in Positions : db' = cloned(q)
    BY <1>5 DEF ConfirmFanOutFails
  <2>2. Prepares(db, cloned(q))
    BY ClonedPrepares
  <2>. HIDE DEF cloned
  <2>3. QED
    BY <2>1, <2>2 DEF StepPrepares, Stores
<1>6. CASE Retry(j)
  BY <1>6, RequeuedPrepares DEF Retry, Advance, StepPrepares, Stores
<1>7. CASE RetryRefused(j)
  BY <1>7, MechanicalCheckPrepares DEF RetryRefused, StepPrepares, Stores
<1>8. CASE Delete(j)
  BY <1>8, DeletePrepares DEF Delete, StepPrepares, Stores
<1>9. CASE AbortSettles(j)
  <2>1. CASE AbortThrows(db) /\ db' = MarkAborted(db, j)
    BY <2>1, AbortedPrepares DEF StepPrepares, Stores
  <2>2. CASE ~AbortThrows(db) /\ db' = DispatchNext(Aborted(db, j))
    BY <2>2, AbortedPrepares DEF StepPrepares, Stores
  <2>3. QED
    BY <1>9, <2>1, <2>2 DEF AbortSettles, Advance
<1>10. CASE ConfirmBegin(j) \/ ConfirmRejected(j) \/ AbortBegin(j) \/ AbortEjectThrows(j)
  BY <1>1, <1>10 DEF ConfirmBegin, ConfirmRejected, AbortBegin, AbortEjectThrows
<1>11. QED
  BY <1>2, <1>3, <1>4, <1>5, <1>6, <1>7, <1>8, <1>9, <1>10

LEMMA OtherOperationsPrepare ==
  ASSUME Sound(db),
         \/ \E p \in Projects, pol \in Policy : SetPolicy(p, pol)
         \/ StockerOps
         \/ \E rank \in Rankings : Reorder(rank)
         \/ UiRefill
         \/ Resolve
  PROVE  StepPrepares
<1>1. ASSUME NEW p \in Projects, NEW pol \in Policy, SetPolicy(p, pol)
      PROVE  StepPrepares
  BY <1>1, SetPolicyPrepares DEF SetPolicy, StepPrepares, Stores
<1>2. ASSUME NEW cap \in Capacities, NEW rem \in 0 .. cap, PostStocker(cap, rem)
      PROVE  StepPrepares
  <2>1. cap \in Nat /\ rem \in Nat /\ rem <= cap
    BY BoundsAssumption
  <2>2. QED
    BY <1>2, <2>1, FillPrepares DEF PostStocker, Advance, StepPrepares, Stores
<1>3. CASE Refill
  BY <1>3, RefillPrepares DEF Refill, Advance, StepPrepares, Stores
<1>4. CASE UiRefill
  BY <1>4, RefillPrepares DEF UiRefill, StepPrepares, Stores
<1>5. ASSUME NEW rank \in Rankings, Reorder(rank)
      PROVE  StepPrepares
  <2>1. \A j \in DOMAIN rank : rank[j] \in Nat
    BY DEF Rankings
  <2>2. QED
    BY <1>5, <2>1, ReorderPrepares DEF Reorder, StepPrepares, Stores
<1>6. CASE Resolve
  <2>1. Prepares(db, db')
    BY <1>6 DEF Resolve, Prepares, StartsNothing, Sound, StockerOK, DB
  <2>2. QED
    BY <2>1 DEF StepPrepares, Stores
<1>7. QED
  BY <1>1, <1>2, <1>3, <1>4, <1>5, <1>6 DEF StockerOps

LEMMA ContinuationsPrepare ==
  ASSUME Sound(db), TypeOK,
         \/ \E j \in Jobs : StartSettles(j) \/ StartThrows(j)
         \/ MonitorEjectSettles \/ MonitorEjectThrows
         \/ MonitorStartSettles \/ MonitorStartThrows
         \/ \E b \in BOOLEAN : BootReconcile(b)
         \/ Restart
         \/ Printer
         \/ UNCHANGED vars
  PROVE  StepPrepares
<1>1. CASE UNCHANGED db
  BY <1>1, PreparesReflexive DEF StepPrepares, Stores
<1>2. ASSUME NEW j \in Jobs, StartThrows(j)
      PROVE  StepPrepares
  BY <1>2, UpdateStatusPrepares
  DEF StartThrows, RevertStart, StepPrepares, Stores, Status, RowStatus
<1>3. CASE MonitorEjectSettles
  <2>1. monitor.job \in Jobs
    BY <1>3 DEF MonitorEjectSettles, TypeOK, Idle, Ejecting, Starting
  <2>2. QED
    BY <1>3, <2>1, FailEndPrepares DEF MonitorEjectSettles, StepPrepares, Stores
<1>4. CASE MonitorStartThrows
  <2>1. monitor.job \in Jobs
    BY <1>4 DEF MonitorStartThrows, TypeOK, Idle, Ejecting, Starting
  <2>2. QED
    BY <1>4, <2>1, UpdateStatusPrepares
    DEF MonitorStartThrows, RevertStart, StepPrepares, Stores, Status, RowStatus
<1>5. ASSUME NEW b \in BOOLEAN, BootReconcile(b)
      PROVE  StepPrepares
  BY <1>5, PreparesReflexive, RequeuePrepares
  DEF BootReconcile, Advance, StepPrepares, Stores
<1>6. CASE Restart
  BY <1>1, <1>6, PreparesReflexive DEF Restart, StepPrepares, Stores
<1>7. ASSUME NEW j \in Jobs, MonitorFinish(j)
      PROVE  StepPrepares
  BY <1>7, FinishedPrepares, UpdateStatusPrepares
  DEF MonitorFinish, MarkSuccess, StepPrepares, Stores, Status, RowStatus
<1>8. ASSUME NEW j \in Jobs, MonitorFail(j)
      PROVE  StepPrepares
  BY <1>8, FailBeginPrepares DEF MonitorFail, StepPrepares, Stores
<1>9. ASSUME NEW j \in Jobs, RunoutSubstituted(j)
      PROVE  StepPrepares
  BY <1>9, SetSubstitutionPrepares DEF RunoutSubstituted, StepPrepares, Stores
<1>10. CASE \/ \E j \in Jobs : StartSettles(j)
            \/ MonitorEjectThrows \/ MonitorStartSettles \/ UNCHANGED vars
  BY <1>1, <1>10 DEF StartSettles, MonitorEjectThrows, MonitorStartSettles, vars
<1>11. QED
  BY <1>2, <1>3, <1>4, <1>5, <1>6, <1>7, <1>8, <1>9, <1>10 DEF Printer

LEMMA NextPrepares ==
  ASSUME Sound(db), TypeOK, [Next]_vars
  PROVE  StepPrepares
<1>1. CASE Operator
  BY <1>1, QueueActionsPrepare, OtherOperationsPrepare DEF Operator, QueueOps
<1>2. CASE \E j \in Jobs : Retry(j)
  BY <1>2, QueueActionsPrepare
<1>3. CASE Continuation
  BY <1>3, QueueActionsPrepare, ContinuationsPrepare
  DEF Continuation, Settles, Throws
<1>4. CASE Printer \/ Restart \/ UNCHANGED vars
  BY <1>4, ContinuationsPrepare
<1>5. QED
  BY <1>1, <1>2, <1>3, <1>4 DEF Next

-----------------------------------------------------------------------------
(* The variables beside the database                                        *)

RequestsTyped ==
  /\ starts \in [Jobs -> Nat]
  /\ aborts \in [Jobs -> Nat]
  /\ confirms \in [Jobs -> Nat]

OtherTyped ==
  /\ monitor \in {Idle} \union {Ejecting(j) : j \in Jobs} \union {Starting(j) : j \in Jobs}
  /\ booting \in BOOLEAN
  /\ snapshot \subseteq Jobs

LEMMA AdvanceTyped ==
  ASSUME starts \in [Jobs -> Nat], NEW d, Advance(d)
  PROVE  starts' \in [Jobs -> Nat]
BY DEF Advance

LEMMA NoneTyped == None \in [Jobs -> Nat]
BY DEF None

LEMMA RequestsStayTyped ==
  ASSUME RequestsTyped, [Next]_vars
  PROVE  RequestsTyped'
<1>1. CASE Operator
  BY <1>1, AdvanceTyped
  DEF Operator, QueueOps, StockerOps, Upload, ConfirmBegin, AbortBegin, RetryRefused,
      Delete, SetPolicy, PostStocker, Refill, Reorder, UiRefill, Resolve, requests,
      RequestsTyped
<1>2. CASE \E j \in Jobs : Retry(j)
  BY <1>2, AdvanceTyped DEF Retry, requests, RequestsTyped
<1>3. CASE Settles
  BY <1>3, AdvanceTyped
  DEF Settles, ConfirmRejected, ConfirmApply, ConfirmFanOut, AbortSettles, StartSettles,
      MonitorEjectSettles, MonitorStartSettles, requests, RequestsTyped
<1>4. CASE Throws
  BY <1>4
  DEF Throws, ConfirmFanOutFails, AbortEjectThrows, StartThrows, MonitorEjectThrows,
      MonitorStartThrows, requests, RequestsTyped
<1>5. CASE \E b \in BOOLEAN : BootReconcile(b)
  BY <1>5, AdvanceTyped DEF BootReconcile, requests, RequestsTyped
<1>6. CASE Printer
  BY <1>6 DEF Printer, MonitorFinish, MonitorFail, RunoutSubstituted, requests, RequestsTyped
<1>7. CASE Restart
  BY <1>7, NoneTyped DEF Restart, RequestsTyped
<1>8. CASE UNCHANGED vars
  BY <1>8 DEF vars, RequestsTyped
<1>9. QED
  BY <1>1, <1>2, <1>3, <1>4, <1>5, <1>6, <1>7, <1>8 DEF Next, Continuation

LEMMA OthersStayTyped ==
  ASSUME OtherTyped, [Next]_vars
  PROVE  OtherTyped'
<1>1. CASE Operator \/ \E j \in Jobs : Retry(j)
  BY <1>1
  DEF Operator, QueueOps, StockerOps, Upload, ConfirmBegin, AbortBegin, RetryRefused,
      Delete, SetPolicy, PostStocker, Refill, Reorder, UiRefill, Resolve, Retry, bootVars,
      OtherTyped
<1>2. CASE Settles
  BY <1>2
  DEF Settles, ConfirmRejected, ConfirmApply, ConfirmFanOut, AbortSettles, StartSettles,
      MonitorEjectSettles, MonitorStartSettles, bootVars, OtherTyped
<1>3. CASE Throws
  BY <1>3
  DEF Throws, ConfirmFanOutFails, AbortEjectThrows, StartThrows, MonitorEjectThrows,
      MonitorStartThrows, bootVars, OtherTyped
<1>4. CASE \E b \in BOOLEAN : BootReconcile(b)
  BY <1>4 DEF BootReconcile, OtherTyped
<1>5. CASE Printer
  BY <1>5, StartedInJobs
  DEF Printer, MonitorFinish, MonitorFail, RunoutSubstituted, bootVars, OtherTyped
<1>6. CASE Restart
  BY <1>6 DEF Restart, OtherTyped, ByStatus
<1>7. CASE UNCHANGED vars
  BY <1>7 DEF vars, OtherTyped
<1>8. QED
  BY <1>1, <1>2, <1>3, <1>4, <1>5, <1>6, <1>7 DEF Next, Continuation

-----------------------------------------------------------------------------
(* The inductive invariant and the theorems                                 *)

IInv == TypeOK /\ RefillOnlyWhenEmpty /\ AtMostOnePrinting

LEMMA IInvInitially == Init => IInv
<1>. SUFFICES ASSUME Init PROVE IInv
  OBVIOUS
<1>1. PICK c \in Capacities : db = FreshDB(c)
  BY DEF Init
<1>2. c \in Nat
  BY BoundsAssumption
<1>3. db \in DB /\ RefillOnlyWhenEmpty
  BY <1>1, <1>2 DEF FreshDB, DB, Status, RowStatus, Policy, RefillOnlyWhenEmpty
<1>4. AtMostOnePrinting
  BY <1>1 DEF FreshDB, AtMostOnePrinting, ByStatus
<1>5. QED
  BY <1>3, <1>4 DEF Init, IInv, TypeOK, None

LEMMA IInvInductive == IInv /\ [Next]_vars => IInv'
<1>. SUFFICES ASSUME IInv, [Next]_vars PROVE IInv'
  OBVIOUS
<1>1. Sound(db) /\ OnePrinting(db)
  BY DEF IInv, TypeOK, RefillOnlyWhenEmpty, AtMostOnePrinting, Sound, StockerOK, OnePrinting
<1>2. PICK e : Stores(e)
  BY <1>1, NextPrepares DEF IInv, StepPrepares
<1>3. Sound(e) /\ OnePrinting(e)
  BY <1>1, <1>2 DEF Stores, Prepares, StartsNothing, OnePrinting, ByStatus
<1>4. Sound(db') /\ OnePrinting(db')
  BY <1>2, <1>3, DispatchNextSound, DispatchNextKeepsOnePrinting DEF Stores, Sound
<1>5. RequestsTyped' /\ OtherTyped'
  BY RequestsStayTyped, OthersStayTyped DEF IInv, TypeOK, RequestsTyped, OtherTyped
<1>6. QED
  BY <1>4, <1>5
  DEF IInv, TypeOK, RefillOnlyWhenEmpty, AtMostOnePrinting, Sound, StockerOK, OnePrinting,
      RequestsTyped, OtherTyped

LEMMA IInvAlways == Spec => []IInv
BY IInvInitially, IInvInductive, PTL DEF Spec

(* The database stays within its schema and the suspended continuations     *)
(* within their kinds, whatever interleaves.                                *)
THEOREM TypeCorrect == Spec => []TypeOK
BY IInvAlways, PTL DEF IInv

(* INV-DISPATCH-03 for any number of jobs: because dispatchNext tests and   *)
(* flips in one synchronous stretch, and is the only code that makes a row  *)
(* 'printing', no interleaving gives two.                                   *)
THEOREM SingleMachine == Spec => []AtMostOnePrinting
BY IInvAlways, PTL DEF IInv

(* A refill is outstanding only over an empty stocker: every write that     *)
(* fills it resolves the refill first, and the CHECK stops every decrement  *)
(* of an empty one.                                                         *)
THEOREM RefillMeansEmpty == Spec => []RefillOnlyWhenEmpty
BY IInvAlways, PTL DEF IInv

LEMMA StepStartsLegally == IInv /\ [Next]_vars => StartIsLegal
<1>. SUFFICES ASSUME IInv, [Next]_vars, NEW j \in NewlyPrinting
              PROVE  /\ db'.refill = 0
                     /\ db'.remaining > 0
                     /\ ~ProjectPaused(db', j)
                     /\ \A k \in Candidates(db') : Precedes(db', j, k)
  BY DEF StartIsLegal
<1>1. Sound(db)
  BY DEF IInv, TypeOK, RefillOnlyWhenEmpty, Sound, StockerOK
<1>2. PICK e : Stores(e)
  BY <1>1, NextPrepares DEF IInv, StepPrepares
<1>3. j \in Jobs /\ Sound(e) /\ e.status[j] # "printing"
  BY <1>2 DEF Stores, Prepares, StartsNothing, NewlyPrinting
<1>4. db' = DispatchNext(e) /\ db'.status[j] = "printing"
  BY <1>2, <1>3 DEF Stores, NewlyPrinting
<1>5. QED
  BY <1>3, <1>4, DispatchNextStartsLegally

(* INV-DISPATCH-01/02/04, INV-STOCKER-04, INV-CONSISTENCY-02 for every      *)
(* queue: whichever handler starts a job leaves a database in which that    *)
(* start was the right one.                                                 *)
THEOREM EveryStartIsLegal == Spec => StartsAreLegal
BY IInvAlways, StepStartsLegally, PTL DEF Spec, StartsAreLegal

=============================================================================
