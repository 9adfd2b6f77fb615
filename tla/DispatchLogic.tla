--------------------------- MODULE DispatchLogic ----------------------------
(***************************************************************************)
(* The decisions of core/dispatcher.ts, as operators on one database       *)
(* value: what each synchronous stretch of a Dispatcher method - the code  *)
(* between two awaits - writes.  Dispatcher and PrintFarm put the awaits   *)
(* and the interleavings around them.                                      *)
(***************************************************************************)
EXTENDS QueueStore

CONSTANT
  RetryLimit   \* DispatcherOptions.retryLimit

ASSUME RetryLimitAssumption == RetryLimit \in Nat

-----------------------------------------------------------------------------
(* dispatchNext                                                             *)

(* Mutant: dispatchNext without its first early return.                    *)
NeverBusy(d) == FALSE

Busy(d) == ByStatus(d, "printing") # {}

(* stocker_refill is the only type created with severity blocking_queue.    *)
QueueBlocked(d) == d.refill > 0

StockerEmpty(d) == d.remaining = 0

ProjectPaused(d, j) ==
  d.project[j] # NoProject /\ d.colorDecision[d.project[j]] > 0

(* Mutant: the scan takes jobs of paused projects too.                      *)
EveryQueued(d) == ByStatus(d, "queued")

Candidates(d) == {j \in ByStatus(d, "queued") : ~ProjectPaused(d, j)}

(* The job the scan of dispatchNext stops at: none or one.                  *)
FirstCandidate(d) ==
  {j \in Candidates(d) : \A k \in Candidates(d) : k # j => Precedes(d, j, k)}

MayStart(d) == ~Busy(d) /\ ~QueueBlocked(d) /\ ~StockerEmpty(d)

(* The job dispatchNext hands to PrinterPort.startPrint: none or one.       *)
Started(d) == IF MayStart(d) THEN FirstCandidate(d) ELSE {}

MarkPrinting(d, js) ==
  [d EXCEPT !.status = [j \in Jobs |-> IF j \in js THEN "printing" ELSE d.status[j]]]

(* Mutant: an empty stocker stops the queue and nobody is told.             *)
ForgetRefill(d) == d

EnsureStockerRefillPending(d) ==
  IF d.refill = 0 THEN CreateStockerRefill(d) ELSE d

(* The job is flipped to 'printing' before the await of startPrint.         *)
DispatchNext(d) ==
  IF ~Busy(d) /\ ~QueueBlocked(d) /\ StockerEmpty(d)
  THEN EnsureStockerRefillPending(d)
  ELSE MarkPrinting(d, Started(d))

(* startPrint threw: nothing is printing, so back to the queue - whatever   *)
(* the row has become during the await.                                     *)
RevertStart(d, j) == UpdateStatus(d, j, "queued")

-----------------------------------------------------------------------------
(* onFinished, up to its call of dispatchNext                               *)

ColorConsistencyApplies(d, j) ==
  /\ d.substituted[j]
  /\ d.project[j] # NoProject

Siblings(d, j) == {k \in ByStatus(d, "queued") : d.project[k] = d.project[j]}

ApplyColorConsistency(d, j) ==
  IF ~ColorConsistencyApplies(d, j) THEN d
  ELSE IF d.policy[d.project[j]] = "propagate"
       THEN SetSubstitution(d, Siblings(d, j))
       ELSE CreateColorDecision(d, j)

MarkSuccess(d, j) == UpdateStatus(d, j, "success")

(* The decrement throws at zero: the handler dies with the row already      *)
(* 'success' and without the colour decision and the next dispatch.         *)
FinishThrows(d) == ~DecrementPermitted(d)

Finished(d, j) ==
  ApplyColorConsistency(DecrementStocker(MarkSuccess(d, j)), j)

-----------------------------------------------------------------------------
(* onFailed before and after its await of ejectAndReset                     *)

FailBegin(d, j) == IncrementAttempts(UpdateStatus(d, j, "failed"), j)

(* Mutant: the eject's plate is not counted.                                *)
FailEndUncounted(d, j) ==
  IF j \in Rows(d) THEN CreateRetryDecision(d, j) ELSE d

(* Mutant: the last plate counts as none.                                   *)
FailEndAtLast(d, j) ==
  IF d.remaining <= 1 \/ j \notin Rows(d) THEN DecrementStocker(d)
  ELSE CreateRetryDecision(DecrementStocker(d), j)

(* After the eject: the decrement may throw, and so may the INSERT of the   *)
(* retry_decision when the row was deleted during the await.                *)
FailEnd(d, j) ==
  IF ~DecrementPermitted(d) THEN d
  ELSE IF j \notin Rows(d) THEN DecrementStocker(d)
       ELSE CreateRetryDecision(DecrementStocker(d), j)

-----------------------------------------------------------------------------
(* abort                                                                    *)

Abortable(d, j) == d.status[j] = "printing"

(* After the eject, up to the call of dispatchNext; the row's status is     *)
(* overwritten without being read again.                                    *)
MarkAborted(d, j) == UpdateStatus(d, j, "aborted")

AbortThrows(d) == ~DecrementPermitted(d)

Aborted(d, j) == DecrementStocker(MarkAborted(d, j))

-----------------------------------------------------------------------------
(* retry, with the route's resolution of the job's retry_decision rows      *)

RetryExhausted(d, j) == d.attempts[j] > RetryLimit

Requeued(d, j) == ResolveRetryDecisions(UpdateStatus(d, j, "queued"), j)

=============================================================================
