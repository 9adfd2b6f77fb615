---------------------------- MODULE MCDispatcher ----------------------------
(* Instances of Dispatcher for TLC.                                         *)
EXTENDS Dispatcher

LOCAL INSTANCE Functions

CONSTANT p1   \* the one project

(* Bound: requests and starts suspended at once; the Monitor's call and the *)
(* boot snapshot come on top.  Two while no print failed, or one that did   *)
(* is being ejected.                                                        *)
MaxSuspended == 2

Total(f) == FoldFunction(LAMBDA x, y : x + y, 0, f)

Suspended == Total(starts) + Total(aborts) + Total(confirms)

Unassigned ==
  /\ \A j \in Jobs : db.project[j] = NoProject
  /\ \A p \in Projects : db.policy[p] = "strict"

(* What a project adds is the database's: colour decisions, and rows that   *)
(* wait for them.  Once a job is in it, one call is suspended at a time, no *)
(* print fails, nothing is aborted, deleted or restarted, and the stocker   *)
(* holds one plate.                                                         *)
LittleElse ==
  /\ Suspended <= 1
  /\ \A j \in Jobs : db.attempts[j] = 0 /\ db.status[j] \notin {"aborted", "deleted"}
  /\ ~booting
  /\ db.remaining <= 1

Undisturbed == monitor.task = "eject" \/ Total(db.attempts) = 0

FewSuspended ==
  /\ Suspended <= MaxSuspended
  /\ Suspended = MaxSuspended => Undisturbed
  /\ Unassigned \/ LittleElse

=============================================================================
