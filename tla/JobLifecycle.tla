---------------------------- MODULE JobLifecycle ----------------------------
(***************************************************************************)
(* What the rows of a confirmed queue may do, seen from outside: INV-QUEUE *)
(* and INV-DISPATCH-03 of invariants.yaml as a specification, and beside   *)
(* the documented arrows each departure with what must have come about for *)
(* it.  A handler moves one row and may start one; a job that starts       *)
(* passes through 'queued'.                                                *)
(***************************************************************************)
EXTENDS Naturals

CONSTANT Jobs

VARIABLES
  status,   \* the status of each row
  spent     \* how often each event has happened

Happens(e) == spent'[e] > spent[e]

(* One of the events has happened by now.                                   *)
Happened(es) == \E e \in es : spent'[e] > 0

Begun == {j \in Jobs : status[j] # "printing" /\ status'[j] = "printing"}

(* Where a row stands just before the start, if any, that ends the step.    *)
Before(j) == IF j \in Begun THEN "queued" ELSE status'[j]

Moves(j, from, to) ==
  /\ status[j] \in from
  /\ Before(j) = to
  /\ \A k \in Jobs \ {j} : Before(k) = status[k]

-----------------------------------------------------------------------------
(* The documented arrows                                                    *)

Waits == \A j \in Jobs : Before(j) = status[j]

Ends(j) == Moves(j, {"printing"}, "success") \/ Moves(j, {"printing"}, "failed")

Aborts(j) == Happened({"abort"}) /\ Moves(j, {"printing"}, "aborted")

Retries(j) == Happens("retry") /\ Moves(j, {"failed", "aborted"}, "queued")

-----------------------------------------------------------------------------
(* The departures                                                           *)

(* Something has parted a row from its plate.                               *)
Parted == Happened({"timeout", "abort", "crash", "rerun"})

(* A start that fails reverts its row; one that is not 'printing' any more  *)
(* only when it has been parted from its plate.                             *)
Reverts(j) ==
  /\ Happens("ftps") \/ Happens("timeout")
  /\ \/ Moves(j, {"printing"}, "queued")
     \/ Parted /\ Moves(j, {"success", "failed", "aborted"}, "queued")

(* An abort overwrites what became of the row while it ejected: the end its *)
(* own stop caused, or the place in the queue it was given back.            *)
AbortsLate(j) ==
  /\ Happened({"abort"})
  /\ \/ Moves(j, {"failed", "success"}, "aborted")
     \/ Happened({"ftps", "timeout", "retry", "rerun"}) /\ Moves(j, {"queued"}, "aborted")

(* A retry of a row that prints or was printed.                             *)
Reruns(j) == Happens("rerun") /\ Moves(j, {"printing", "success"}, "queued")

(* After a restart the rows that were 'printing' are queued again, also     *)
(* those that ended while the boot waited.                                  *)
Reconciles ==
  /\ Happened({"crash"})
  /\ \A j \in Jobs :
       \/ Before(j) = status[j]
       \/ status[j] \in {"printing", "success", "failed"} /\ Before(j) = "queued"

-----------------------------------------------------------------------------

Init ==
  /\ status \in [Jobs -> {"queued", "printing"}]
  /\ \A i, j \in Jobs : status[i] = "printing" /\ status[j] = "printing" => i = j

Next ==
  /\ \/ Waits
     \/ \E j \in Jobs : Ends(j) \/ Aborts(j) \/ Retries(j)
     \/ \E j \in Jobs : Reverts(j) \/ AbortsLate(j) \/ Reruns(j)
     \/ Reconciles
  /\ \A i, j \in Begun : i = j
  /\ Begun # {} => \A j \in Jobs : Before(j) # "printing"

Spec == Init /\ [][Next]_<<status, spent>>

=============================================================================
