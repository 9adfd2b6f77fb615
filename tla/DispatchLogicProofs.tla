------------------------- MODULE DispatchLogicProofs ------------------------
(***************************************************************************)
(* Lemmas about the operators of QueueStore and DispatchLogic, for every   *)
(* set of jobs and projects.  Each module that puts the awaits around them *)
(* is proved correct with these.                                           *)
(*                                                                         *)
(* A write of the Repo prepares a database: it keeps the stocker's         *)
(* accounting and makes no row 'printing'.  Only dispatchNext does that,   *)
(* to one row, and only when it may.                                       *)
(***************************************************************************)
EXTENDS DispatchLogic, TLAPS

StockerOK(d) ==
  /\ d.refill > 0 => d.remaining = 0
  /\ d.refill <= 1
  /\ d.remaining <= d.capacity

Sound(d) == d \in DB /\ StockerOK(d)

StartsNothing(d, e) ==
  \A j \in Jobs : e.status[j] = "printing" => d.status[j] = "printing"

(* e is what some writes, and no dispatch, can make of d.                   *)
Prepares(d, e) == Sound(e) /\ StartsNothing(d, e)

-----------------------------------------------------------------------------
(* The Repo's writes                                                        *)

LEMMA PreparesReflexive ==
  ASSUME NEW d, Sound(d)
  PROVE  Prepares(d, d)
BY DEF Prepares, StartsNothing

LEMMA PreparesTransitive ==
  ASSUME NEW d, NEW e, NEW f, Prepares(d, e), Prepares(e, f)
  PROVE  Prepares(d, f)
BY DEF Prepares, StartsNothing

LEMMA CreateJobPrepares ==
  ASSUME NEW d, Sound(d), NEW j \in Jobs, NEW p \in Nat
  PROVE  Prepares(d, CreateJob(d, j, p))
BY DEF CreateJob, DB, Status, RowStatus, Prepares, StartsNothing, Sound, StockerOK

LEMMA CloneJobPrepares ==
  ASSUME NEW d, Sound(d), NEW s \in Jobs, NEW j \in Jobs, NEW p \in Nat
  PROVE  Prepares(d, CloneJob(d, s, j, p))
BY DEF CloneJob, DB, Status, RowStatus, Prepares, StartsNothing, Sound, StockerOK

LEMMA UpdateStatusPrepares ==
  ASSUME NEW d, Sound(d), NEW j \in Jobs, NEW s \in Status \ {"printing"}
  PROVE  Prepares(d, UpdateStatus(d, j, s))
BY DEF UpdateStatus, DB, Prepares, StartsNothing, Sound, StockerOK

LEMMA IncrementAttemptsPrepares ==
  ASSUME NEW d, Sound(d), NEW j \in Jobs
  PROVE  Prepares(d, IncrementAttempts(d, j))
BY SMTT(30) DEF IncrementAttempts, DB, Prepares, StartsNothing, Sound, StockerOK

LEMMA SetSubstitutionPrepares ==
  ASSUME NEW d, Sound(d), NEW js
  PROVE  Prepares(d, SetSubstitution(d, js))
BY DEF SetSubstitution, DB, Prepares, StartsNothing, Sound, StockerOK

LEMMA SetPolicyPrepares ==
  ASSUME NEW d, Sound(d), NEW p \in Projects, NEW pol \in Policy
  PROVE  Prepares(d, SetProjectPolicy(d, p, pol))
BY DEF SetProjectPolicy, DB, Prepares, StartsNothing, Sound, StockerOK

LEMMA ReorderPrepares ==
  ASSUME NEW d, Sound(d), NEW rank, \A j \in DOMAIN rank : rank[j] \in Nat
  PROVE  Prepares(d, ReorderJobs(d, rank))
BY DEF ReorderJobs, DB, Prepares, StartsNothing, Sound, StockerOK

LEMMA DeletePrepares ==
  ASSUME NEW d, Sound(d), NEW j \in Jobs
  PROVE  Prepares(d, DeleteJob(d, j))
BY DEF DeleteJob, DB, Status, RowStatus, Prepares, StartsNothing, Sound, StockerOK

(* The CHECK of stocker_state makes the decrement legal only on a non-empty *)
(* stocker, and there no refill is outstanding.                             *)
LEMMA DecrementPrepares ==
  ASSUME NEW d, Sound(d), DecrementPermitted(d)
  PROVE  Prepares(d, DecrementStocker(d))
BY DEF DecrementStocker, DecrementPermitted, DB, Prepares, StartsNothing, Sound, StockerOK

LEMMA FillPrepares ==
  ASSUME NEW d, Sound(d), NEW cap \in Nat, NEW rem \in Nat, rem <= cap
  PROVE  Prepares(d, ResolveStockerRefills(SetStocker(d, cap, rem)))
<1>1. ResolveStockerRefills(SetStocker(d, cap, rem))
        = [d EXCEPT !.capacity = cap, !.remaining = rem, !.refill = 0]
  BY DEF SetStocker, ResolveStockerRefills, Sound, DB
<1>. DEFINE e == [d EXCEPT !.capacity = cap, !.remaining = rem, !.refill = 0]
<1>2. e \in DB /\ e.status = d.status
  BY DEF Sound, DB
<1>3. e.refill = 0 /\ e.remaining = rem /\ e.capacity = cap
  BY DEF Sound, DB
<1>. HIDE DEF e
<1>4. QED
  BY <1>1, <1>2, <1>3 DEF Prepares, StartsNothing, Sound, StockerOK, e

LEMMA RefillPrepares ==
  ASSUME NEW d, Sound(d)
  PROVE  Prepares(d, ResolveStockerRefills(RefillStocker(d)))
<1>1. ResolveStockerRefills(RefillStocker(d))
        = [d EXCEPT !.remaining = d.capacity, !.refill = 0]
  BY DEF RefillStocker, ResolveStockerRefills, Sound, DB
<1>. DEFINE e == [d EXCEPT !.remaining = d.capacity, !.refill = 0]
<1>2. e \in DB /\ e.status = d.status
  BY DEF Sound, DB
<1>3. e.refill = 0 /\ e.remaining = d.capacity /\ e.capacity = d.capacity
  BY DEF Sound, DB
<1>. HIDE DEF e
<1>4. QED
  BY <1>1, <1>2, <1>3 DEF DB, Prepares, StartsNothing, Sound, StockerOK, e

LEMMA ColorDecisionPrepares ==
  ASSUME NEW d, Sound(d), NEW j \in Jobs, d.project[j] # NoProject
  PROVE  Prepares(d, CreateColorDecision(d, j))
<1>. DEFINE count == [d.colorDecision EXCEPT ![d.project[j]] = @ + 1]
            refs  == d.referenced \union {j}
<1>1. d.project[j] \in Projects
  BY DEF Sound, DB
<1>2. count \in [Projects -> Nat] /\ refs \in SUBSET Jobs
  BY <1>1 DEF Sound, DB
<1>3. CreateColorDecision(d, j) = [d EXCEPT !.colorDecision = count, !.referenced = refs]
  BY DEF CreateColorDecision, Sound, DB
<1>. HIDE DEF count, refs
<1>4. QED
  BY <1>2, <1>3 DEF DB, Prepares, StartsNothing, Sound, StockerOK

LEMMA RetryDecisionPrepares ==
  ASSUME NEW d, Sound(d), NEW j \in Jobs
  PROVE  Prepares(d, CreateRetryDecision(d, j))
<1>. DEFINE count == [d.retryDecision EXCEPT ![j] = @ + 1]
            refs  == d.referenced \union {j}
<1>1. count \in [Jobs -> Nat] /\ refs \in SUBSET Jobs
  BY DEF Sound, DB
<1>2. CreateRetryDecision(d, j) = [d EXCEPT !.retryDecision = count, !.referenced = refs]
  BY DEF CreateRetryDecision, Sound, DB
<1>. HIDE DEF count, refs
<1>3. QED
  BY <1>1, <1>2 DEF DB, Prepares, StartsNothing, Sound, StockerOK

LEMMA MechanicalCheckPrepares ==
  ASSUME NEW d, Sound(d), NEW j \in Jobs
  PROVE  Prepares(d, CreateMechanicalCheck(d, j))
<1>. DEFINE refs == d.referenced \union {j}
<1>1. refs \in SUBSET Jobs
  BY DEF Sound, DB
<1>2. CreateMechanicalCheck(d, j) = [d EXCEPT !.referenced = refs]
  BY DEF CreateMechanicalCheck, Sound, DB
<1>. HIDE DEF refs
<1>3. QED
  BY <1>1, <1>2 DEF DB, Prepares, StartsNothing, Sound, StockerOK

LEMMA ResolveRetriesPrepares ==
  ASSUME NEW d, Sound(d), NEW j \in Jobs
  PROVE  Prepares(d, ResolveRetryDecisions(d, j))
BY DEF ResolveRetryDecisions, DB, Prepares, StartsNothing, Sound, StockerOK

-----------------------------------------------------------------------------
(* dispatchNext                                                             *)

(* The scan of dispatchNext stops at one job: positions and ids order any   *)
(* two rows.                                                                *)
LEMMA FirstCandidateUnique ==
  ASSUME NEW d \in DB, NEW i \in FirstCandidate(d), NEW j \in FirstCandidate(d)
  PROVE  i = j
<1>1. i \in Jobs /\ j \in Jobs /\ i \in Nat /\ j \in Nat
  BY JobsAssumption DEF FirstCandidate, Candidates, ByStatus
<1>2. d.position[i] \in Nat /\ d.position[j] \in Nat
  BY <1>1 DEF DB
<1>3. i # j => Precedes(d, i, j) /\ Precedes(d, j, i)
  BY DEF FirstCandidate
<1>4. QED
  BY <1>1, <1>2, <1>3 DEF Precedes

LEMMA StartedInJobs ==
  ASSUME NEW d
  PROVE  Started(d) \subseteq Jobs
BY DEF Started, FirstCandidate, Candidates, ByStatus

LEMMA DispatchNextSound ==
  ASSUME NEW d, Sound(d)
  PROVE  Sound(DispatchNext(d))
<1>1. CASE ~Busy(d) /\ ~QueueBlocked(d) /\ StockerEmpty(d)
  BY <1>1 DEF DispatchNext, EnsureStockerRefillPending, CreateStockerRefill,
              StockerEmpty, Sound, StockerOK, DB
<1>2. CASE ~(~Busy(d) /\ ~QueueBlocked(d) /\ StockerEmpty(d))
  BY <1>2 DEF DispatchNext, MarkPrinting, Sound, StockerOK, DB, Status, RowStatus
<1>3. QED
  BY <1>1, <1>2

OnePrinting(d) == \A i, j \in ByStatus(d, "printing") : i = j

LEMMA DispatchNextKeepsOnePrinting ==
  ASSUME NEW d \in DB, OnePrinting(d)
  PROVE  OnePrinting(DispatchNext(d))
<1>1. CASE ~Busy(d) /\ ~QueueBlocked(d) /\ StockerEmpty(d)
  <2>1. DispatchNext(d).status = d.status
    BY <1>1 DEF DispatchNext, EnsureStockerRefillPending, CreateStockerRefill, DB
  <2>2. QED
    BY <2>1 DEF OnePrinting, ByStatus
<1>2. CASE ~(~Busy(d) /\ ~QueueBlocked(d) /\ StockerEmpty(d))
  <2>1. DispatchNext(d).status
          = [j \in Jobs |-> IF j \in Started(d) THEN "printing" ELSE d.status[j]]
    BY <1>2 DEF DispatchNext, MarkPrinting, DB
  <2>2. CASE Started(d) = {}
    BY <2>1, <2>2 DEF OnePrinting, ByStatus
  <2>3. CASE Started(d) # {}
    <3>1. MayStart(d) /\ Started(d) = FirstCandidate(d)
      BY <2>3 DEF Started
    <3>2. \A j \in Jobs : d.status[j] # "printing"
      BY <3>1 DEF MayStart, Busy, ByStatus
    <3>3. \A i, j \in Started(d) : i = j
      BY <3>1, FirstCandidateUnique
    <3>4. QED
      BY <2>1, <3>2, <3>3 DEF OnePrinting, ByStatus
  <2>4. QED
    BY <2>2, <2>3
<1>3. QED
  BY <1>1, <1>2

(* What StartIsLegal asks, of a dispatch on its own.                        *)
LEMMA DispatchNextStartsLegally ==
  ASSUME NEW d, Sound(d), NEW j \in Jobs,
         d.status[j] # "printing", DispatchNext(d).status[j] = "printing"
  PROVE  LET n == DispatchNext(d)
         IN  /\ n.refill = 0
             /\ n.remaining > 0
             /\ ~ProjectPaused(n, j)
             /\ \A k \in Candidates(n) : Precedes(n, j, k)
<1>1. ~(~Busy(d) /\ ~QueueBlocked(d) /\ StockerEmpty(d))
  BY DEF DispatchNext, EnsureStockerRefillPending, CreateStockerRefill, Sound, DB
<1>2. DispatchNext(d) = MarkPrinting(d, Started(d))
  BY <1>1 DEF DispatchNext
<1>. DEFINE n == MarkPrinting(d, Started(d))
<1>3. /\ n.status = [k \in Jobs |-> IF k \in Started(d) THEN "printing" ELSE d.status[k]]
      /\ n.refill = d.refill
      /\ n.remaining = d.remaining
      /\ n.position = d.position
      /\ n.project = d.project
      /\ n.colorDecision = d.colorDecision
  BY DEF MarkPrinting, Sound, DB
<1>. HIDE DEF n
<1>4. j \in Started(d)
  BY <1>2, <1>3 DEF n
<1>5. MayStart(d) /\ j \in FirstCandidate(d)
  BY <1>4 DEF Started
<1>6. n.refill = 0 /\ n.remaining > 0
  BY <1>3, <1>5 DEF MayStart, QueueBlocked, StockerEmpty, Sound, DB
<1>7. ~ProjectPaused(n, j)
  BY <1>3, <1>5 DEF FirstCandidate, Candidates, ProjectPaused
<1>8. ASSUME NEW k \in Candidates(n)
      PROVE  Precedes(n, j, k)
  <2>1. k \in Candidates(d) /\ k # j
    BY <1>3, <1>4 DEF Candidates, ProjectPaused, ByStatus
  <2>2. Precedes(d, j, k)
    BY <1>5, <2>1 DEF FirstCandidate
  <2>3. QED
    BY <1>3, <2>2 DEF Precedes
<1>9. QED
  BY <1>2, <1>6, <1>7, <1>8 DEF n

-----------------------------------------------------------------------------
(* The synchronous stretches of onFinished, onFailed, abort and retry       *)

LEMMA FinishedPrepares ==
  ASSUME NEW d, Sound(d), NEW j \in Jobs, ~FinishThrows(d)
  PROVE  Prepares(d, Finished(d, j))
<1>. DEFINE s == MarkSuccess(d, j)
            e == DecrementStocker(s)
<1>1. Prepares(d, s)
  BY UpdateStatusPrepares DEF MarkSuccess, Status, RowStatus
<1>2. DecrementPermitted(s)
  BY DEF FinishThrows, DecrementPermitted, MarkSuccess, UpdateStatus, Sound, DB
<1>. HIDE DEF s
<1>3. Prepares(s, e)
  BY <1>1, <1>2, DecrementPrepares DEF Prepares
<1>. HIDE DEF e
<1>4. Prepares(e, ApplyColorConsistency(e, j))
  <2>1. Sound(e)
    BY <1>3 DEF Prepares
  <2>2. CASE ~ColorConsistencyApplies(e, j)
    BY <2>1, <2>2, PreparesReflexive DEF ApplyColorConsistency
  <2>3. CASE ColorConsistencyApplies(e, j) /\ e.policy[e.project[j]] = "propagate"
    BY <2>1, <2>3, SetSubstitutionPrepares DEF ApplyColorConsistency
  <2>4. CASE ColorConsistencyApplies(e, j) /\ e.policy[e.project[j]] # "propagate"
    BY <2>1, <2>4, ColorDecisionPrepares
    DEF ApplyColorConsistency, ColorConsistencyApplies
  <2>5. QED
    BY <2>2, <2>3, <2>4
<1>5. Prepares(d, ApplyColorConsistency(e, j))
  BY <1>1, <1>3, <1>4, PreparesTransitive
<1>6. QED
  BY <1>5 DEF Finished, e, s

LEMMA FailBeginPrepares ==
  ASSUME NEW d, Sound(d), NEW j \in Jobs
  PROVE  Prepares(d, FailBegin(d, j))
<1>. DEFINE e == UpdateStatus(d, j, "failed")
<1>1. Prepares(d, e)
  BY UpdateStatusPrepares DEF Status, RowStatus
<1>. HIDE DEF e
<1>2. Prepares(e, IncrementAttempts(e, j))
  BY <1>1, IncrementAttemptsPrepares DEF Prepares
<1>3. Prepares(d, IncrementAttempts(e, j))
  BY <1>1, <1>2, PreparesTransitive
<1>4. QED
  BY <1>3 DEF FailBegin, e

LEMMA FailEndPrepares ==
  ASSUME NEW d, Sound(d), NEW j \in Jobs
  PROVE  Prepares(d, FailEnd(d, j))
<1>. DEFINE e == DecrementStocker(d)
<1>1. CASE ~DecrementPermitted(d)
  BY <1>1, PreparesReflexive DEF FailEnd
<1>2. CASE DecrementPermitted(d)
  <2>1. Prepares(d, e)
    BY <1>2, DecrementPrepares
  <2>. HIDE DEF e
  <2>2. Prepares(e, CreateRetryDecision(e, j))
    BY <2>1, RetryDecisionPrepares DEF Prepares
  <2>3. Prepares(d, CreateRetryDecision(e, j))
    BY <2>1, <2>2, PreparesTransitive
  <2>4. QED
    BY <1>2, <2>1, <2>3 DEF FailEnd, e
<1>3. QED
  BY <1>1, <1>2

LEMMA AbortedPrepares ==
  ASSUME NEW d, Sound(d), NEW j \in Jobs
  PROVE  /\ Prepares(d, MarkAborted(d, j))
         /\ ~AbortThrows(d) => Prepares(d, Aborted(d, j))
<1>. DEFINE e == MarkAborted(d, j)
<1>1. Prepares(d, e)
  BY UpdateStatusPrepares DEF MarkAborted, Status, RowStatus
<1>2. ~AbortThrows(d) => DecrementPermitted(e)
  BY DEF AbortThrows, DecrementPermitted, MarkAborted, UpdateStatus, Sound, DB
<1>. HIDE DEF e
<1>3. ~AbortThrows(d) => Prepares(e, DecrementStocker(e))
  BY <1>1, <1>2, DecrementPrepares DEF Prepares
<1>4. ~AbortThrows(d) => Prepares(d, DecrementStocker(e))
  BY <1>1, <1>3, PreparesTransitive
<1>5. QED
  BY <1>1, <1>4 DEF Aborted, e

LEMMA RequeuedPrepares ==
  ASSUME NEW d, Sound(d), NEW j \in Jobs
  PROVE  Prepares(d, Requeued(d, j))
<1>. DEFINE e == UpdateStatus(d, j, "queued")
<1>1. Prepares(d, e)
  BY UpdateStatusPrepares DEF Status, RowStatus
<1>. HIDE DEF e
<1>2. Prepares(e, ResolveRetryDecisions(e, j))
  BY <1>1, ResolveRetriesPrepares DEF Prepares
<1>3. Prepares(d, ResolveRetryDecisions(e, j))
  BY <1>1, <1>2, PreparesTransitive
<1>4. QED
  BY <1>3 DEF Requeued, e

-----------------------------------------------------------------------------
(* dispatchNext, row by row                                                 *)

LEMMA DispatchStatus ==
  ASSUME NEW d \in DB, NEW j \in Jobs
  PROVE  /\ j \in Started(d) => DispatchNext(d).status[j] = "printing" /\ d.status[j] = "queued"
         /\ j \notin Started(d) => DispatchNext(d).status[j] = d.status[j]
<1>1. j \in Started(d) => MayStart(d) /\ d.status[j] = "queued"
  BY DEF Started, FirstCandidate, Candidates, ByStatus
<1>2. CASE ~Busy(d) /\ ~QueueBlocked(d) /\ StockerEmpty(d)
  <2>1. DispatchNext(d).status = d.status
    BY <1>2 DEF DispatchNext, EnsureStockerRefillPending, CreateStockerRefill, DB
  <2>2. j \notin Started(d)
    BY <1>1, <1>2 DEF MayStart
  <2>3. QED
    BY <2>1, <2>2
<1>3. CASE ~(~Busy(d) /\ ~QueueBlocked(d) /\ StockerEmpty(d))
  <2>1. DispatchNext(d).status
          = [k \in Jobs |-> IF k \in Started(d) THEN "printing" ELSE d.status[k]]
    BY <1>3 DEF DispatchNext, MarkPrinting, DB
  <2>2. QED
    BY <1>1, <2>1
<1>4. QED
  BY <1>2, <1>3

-----------------------------------------------------------------------------
(* What the Repo's writes make of the statuses                              *)

LEMMA UpdatedStatus ==
  ASSUME NEW d \in DB, NEW j \in Jobs, NEW s, NEW k \in Jobs
  PROVE  UpdateStatus(d, j, s).status[k] = IF k = j /\ j \in Rows(d) THEN s ELSE d.status[k]
BY DEF UpdateStatus, DB

LEMMA UpdatedRows ==
  ASSUME NEW d, Sound(d), NEW j \in Jobs
  PROVE  /\ UpdateStatus(d, j, "queued") \in DB
         /\ MarkSuccess(d, j) \in DB
         /\ MarkAborted(d, j) \in DB
         /\ UpdateStatus(d, j, "failed") \in DB
BY UpdateStatusPrepares DEF Prepares, Sound, MarkSuccess, MarkAborted, Status, RowStatus

LEMMA StatusUntouched ==
  ASSUME NEW d \in DB, NEW j \in Jobs
  PROVE  /\ DecrementStocker(d).status = d.status
         /\ IncrementAttempts(d, j).status = d.status
         /\ CreateRetryDecision(d, j).status = d.status
         /\ CreateMechanicalCheck(d, j).status = d.status
         /\ ResolveRetryDecisions(d, j).status = d.status
         /\ CreateColorDecision(d, j).status = d.status
         /\ \A js : SetSubstitution(d, js).status = d.status
         /\ \A p : SetProject(d, j, p).status = d.status
BY DEF DecrementStocker, IncrementAttempts, CreateRetryDecision, CreateMechanicalCheck,
       ResolveRetryDecisions, CreateColorDecision, SetSubstitution, SetProject, DB

LEMMA QueueUntouched ==
  ASSUME NEW d \in DB
  PROVE  /\ \A p, pol : SetProjectPolicy(d, p, pol).status = d.status
         /\ \A rank : ReorderJobs(d, rank).status = d.status
         /\ \A cap, rem : ResolveStockerRefills(SetStocker(d, cap, rem)).status = d.status
         /\ ResolveStockerRefills(RefillStocker(d)).status = d.status
BY DEF SetProjectPolicy, ReorderJobs, SetStocker, RefillStocker, ResolveStockerRefills, DB

LEMMA FinishedStatus ==
  ASSUME NEW d, Sound(d), NEW j \in Jobs
  PROVE  Finished(d, j).status = MarkSuccess(d, j).status
<1>. DEFINE s == MarkSuccess(d, j)
            e == DecrementStocker(s)
<1>1. s \in DB
  BY UpdatedRows
<1>. HIDE DEF s
<1>2. e.status = s.status
  BY <1>1, StatusUntouched
<1>3. ApplyColorConsistency(e, j).status = e.status
  BY <1>1 DEF ApplyColorConsistency, e, DecrementStocker, SetSubstitution, CreateColorDecision, DB
<1>4. QED
  BY <1>2, <1>3 DEF Finished, s

LEMMA EndedStatus ==
  ASSUME NEW d, Sound(d), NEW j \in Jobs
  PROVE  /\ Aborted(d, j).status = MarkAborted(d, j).status
         /\ FailBegin(d, j).status = UpdateStatus(d, j, "failed").status
         /\ Requeued(d, j).status = UpdateStatus(d, j, "queued").status
BY UpdatedRows, StatusUntouched DEF Aborted, FailBegin, Requeued

LEMMA FailEndStatus ==
  ASSUME NEW d, Sound(d), NEW j \in Jobs
  PROVE  FailEnd(d, j).status = d.status
<1>1. CASE ~DecrementPermitted(d)
  BY <1>1 DEF FailEnd
<1>2. CASE DecrementPermitted(d)
  <2>1. DecrementStocker(d) \in DB
    BY <1>2, DecrementPrepares DEF Prepares, Sound
  <2>2. QED
    BY <1>2, <2>1, StatusUntouched DEF FailEnd, Sound
<1>3. QED
  BY <1>1, <1>2

-----------------------------------------------------------------------------
(* What leaves the outcome of every job alone: no row becomes 'success',    *)
(* no attempt is counted.                                                   *)

Quiet(d, e) ==
  /\ e.attempts = d.attempts
  /\ \A j \in Jobs : e.status[j] = "success" => d.status[j] = "success"

LEMMA AttemptsUntouched ==
  ASSUME NEW d \in DB, NEW j \in Jobs
  PROVE  /\ DecrementStocker(d).attempts = d.attempts
         /\ CreateRetryDecision(d, j).attempts = d.attempts
         /\ ResolveRetryDecisions(d, j).attempts = d.attempts
         /\ CreateColorDecision(d, j).attempts = d.attempts
         /\ \A js : SetSubstitution(d, js).attempts = d.attempts
         /\ \A s : UpdateStatus(d, j, s).attempts = d.attempts
         /\ ResolveStockerRefills(RefillStocker(d)).attempts = d.attempts
         /\ DispatchNext(d).attempts = d.attempts
BY DEF DecrementStocker, CreateRetryDecision, ResolveRetryDecisions, CreateColorDecision,
       SetSubstitution, UpdateStatus, RefillStocker, ResolveStockerRefills, DispatchNext,
       EnsureStockerRefillPending, CreateStockerRefill, MarkPrinting, DB

LEMMA DispatchIsQuiet ==
  ASSUME NEW d \in DB
  PROVE  Quiet(d, DispatchNext(d))
<1>1. Jobs = {} => DispatchNext(d).attempts = d.attempts
  BY DEF DispatchNext, EnsureStockerRefillPending, CreateStockerRefill, MarkPrinting, DB
<1>2. QED
  BY <1>1, AttemptsUntouched, DispatchStatus DEF Quiet

LEMMA RevertsAreQuiet ==
  ASSUME NEW d, Sound(d), NEW j \in Jobs, NEW s \in {"queued", "aborted", "failed"}
  PROVE  Quiet(d, UpdateStatus(d, j, s))
BY UpdatedStatus, AttemptsUntouched DEF Quiet, Sound

LEMMA EndingsAreQuiet ==
  ASSUME NEW d, Sound(d), NEW j \in Jobs
  PROVE  /\ Quiet(d, FailEnd(d, j))
         /\ Quiet(d, MarkAborted(d, j))
         /\ Quiet(d, Aborted(d, j))
         /\ Quiet(d, Requeued(d, j))
         /\ Quiet(d, ResolveStockerRefills(RefillStocker(d)))
<1>1. Quiet(d, MarkAborted(d, j)) /\ Quiet(d, UpdateStatus(d, j, "queued"))
  BY RevertsAreQuiet DEF MarkAborted
<1>2. MarkAborted(d, j) \in DB /\ UpdateStatus(d, j, "queued") \in DB
  BY UpdatedRows
<1>3. Quiet(d, Aborted(d, j))
  BY <1>1, <1>2, EndedStatus, AttemptsUntouched DEF Aborted, Quiet
<1>4. Quiet(d, Requeued(d, j))
  BY <1>1, <1>2, EndedStatus, AttemptsUntouched DEF Requeued, Quiet
<1>5. FailEnd(d, j).attempts = d.attempts
  <2>1. CASE ~DecrementPermitted(d)
    BY <2>1 DEF FailEnd
  <2>2. CASE DecrementPermitted(d)
    <3>1. DecrementStocker(d) \in DB
      BY <2>2, DecrementPrepares DEF Prepares, Sound
    <3>2. QED
      BY <2>2, <3>1, AttemptsUntouched DEF FailEnd, Sound
  <2>3. QED
    BY <2>1, <2>2
<1>6. QED
  BY <1>1, <1>3, <1>4, <1>5, FailEndStatus, QueueUntouched, AttemptsUntouched DEF Quiet, Sound

(* A plate that succeeds ends one row ...                                   *)
LEMMA FinishedEndsOne ==
  ASSUME NEW d, Sound(d), NEW j \in Jobs, NEW e \in {MarkSuccess(d, j), Finished(d, j)}
  PROVE  /\ e.attempts = d.attempts
         /\ \A k \in Jobs : e.status[k] = "success" => d.status[k] = "success" \/ k = j
<1>. DEFINE s == MarkSuccess(d, j)
<1>1. s \in DB /\ s.attempts = d.attempts
  BY UpdatedRows, AttemptsUntouched DEF MarkSuccess, Sound
<1>2. \A k \in Jobs : s.status[k] = "success" => d.status[k] = "success" \/ k = j
  BY UpdatedStatus DEF MarkSuccess, Sound
<1>3. Finished(d, j).status = s.status
  BY FinishedStatus
<1>. HIDE DEF s
<1>4. DecrementStocker(s).attempts = s.attempts
  BY <1>1, AttemptsUntouched
<1>5. ApplyColorConsistency(DecrementStocker(s), j).attempts = DecrementStocker(s).attempts
  BY <1>1 DEF ApplyColorConsistency, DecrementStocker, SetSubstitution, CreateColorDecision, DB
<1>6. Finished(d, j).attempts = d.attempts
  BY <1>1, <1>4, <1>5 DEF Finished, s
<1>7. QED
  BY <1>1, <1>2, <1>3, <1>6 DEF s

(* ... and one that fails counts one attempt.                               *)
LEMMA FailureCountsOne ==
  ASSUME NEW d, Sound(d), NEW j \in Jobs
  PROVE  /\ \A k \in Jobs : FailBegin(d, j).attempts[k]
                              \in {d.attempts[k], IF k = j THEN d.attempts[k] + 1 ELSE d.attempts[k]}
         /\ \A k \in Jobs : FailBegin(d, j).status[k] = "success" => d.status[k] = "success"
<1>. DEFINE e == UpdateStatus(d, j, "failed")
<1>1. e \in DB /\ Quiet(d, e)
  BY UpdatedRows, RevertsAreQuiet
<1>2. FailBegin(d, j).status = e.status
  BY EndedStatus
<1>. HIDE DEF e
<1>3. \A k \in Jobs : IncrementAttempts(e, j).attempts[k]
                        \in {e.attempts[k], IF k = j THEN e.attempts[k] + 1 ELSE e.attempts[k]}
  BY <1>1 DEF IncrementAttempts, DB
<1>4. QED
  BY <1>1, <1>2, <1>3 DEF FailBegin, Quiet, e

-----------------------------------------------------------------------------
(* The stocker's count goes down by one for each plate that is reported, by *)
(* one for each eject, and no job starts on an empty stocker.               *)

LEMMA StockerUntouched ==
  ASSUME NEW d \in DB, NEW j \in Jobs
  PROVE  /\ DispatchNext(d).remaining = d.remaining
         /\ \A s : UpdateStatus(d, j, s).remaining = d.remaining
         /\ IncrementAttempts(d, j).remaining = d.remaining
         /\ CreateRetryDecision(d, j).remaining = d.remaining
         /\ ApplyColorConsistency(d, j).remaining = d.remaining
BY DEF DispatchNext, EnsureStockerRefillPending, CreateStockerRefill, MarkPrinting, UpdateStatus,
       IncrementAttempts, CreateRetryDecision, ApplyColorConsistency, SetSubstitution,
       CreateColorDecision, DB

LEMMA StartsOnAPlate ==
  ASSUME NEW d \in DB, Started(d) # {}
  PROVE  d.remaining > 0
<1>1. d.remaining \in Nat /\ d.remaining # 0
  BY DEF Started, MayStart, StockerEmpty, DB
<1>2. QED
  BY <1>1

LEMMA FailBeginTakesNone ==
  ASSUME NEW d, Sound(d), NEW j \in Jobs
  PROVE  FailBegin(d, j).remaining = d.remaining
<1>1. d \in DB /\ UpdateStatus(d, j, "failed") \in DB
  BY UpdatedRows DEF Sound
<1>2. QED
  BY <1>1, StockerUntouched DEF FailBegin

LEMMA PlatesAreTaken ==
  ASSUME NEW d, Sound(d), NEW j \in Jobs, d.remaining > 0
  PROVE  /\ Finished(d, j).remaining = d.remaining - 1
         /\ FailEnd(d, j).remaining = d.remaining - 1
<1>. DEFINE s == MarkSuccess(d, j)
<1>1. d \in DB /\ s \in DB /\ s.remaining = d.remaining
  BY UpdatedRows, StockerUntouched DEF MarkSuccess, Sound
<1>2. ASSUME NEW e \in DB, e.remaining > 0
      PROVE  DecrementStocker(e).remaining = e.remaining - 1 /\ DecrementStocker(e) \in DB
  BY <1>2 DEF DecrementStocker, DB
<1>. HIDE DEF s
<1>3. Finished(d, j).remaining = d.remaining - 1
  BY <1>1, <1>2, StockerUntouched DEF Finished, s
<1>4. FailEnd(d, j).remaining = d.remaining - 1
  BY <1>1, <1>2, StockerUntouched DEF FailEnd, DecrementPermitted
<1>5. QED
  BY <1>3, <1>4

=============================================================================
