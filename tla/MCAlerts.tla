------------------------------ MODULE MCAlerts ------------------------------
(* An instance of Alerts for TLC.                                           *)
EXTENDS Alerts

LOCAL INSTANCE Functions

(* Bound: requests and starts suspended at once.                            *)
MaxSuspended == 1

Total(f) == FoldFunction(LAMBDA x, y : x + y, 0, f)

Suspended == Total(starts) + Total(aborts) + Total(confirms)

(* Bound: failures, aborted rows and deleted rows.                          *)
MaxTrouble == 1

Trouble ==
  Total(db.attempts) + Cardinality({j \in Jobs : db.status[j] \in {"aborted", "deleted"}})

Watched == tabs \cup Registered # {}

(* With a tab open, one of the two at a time.                               *)
LittleTrouble ==
  /\ Suspended <= MaxSuspended /\ Trouble <= MaxTrouble
  /\ Watched => Suspended + Trouble <= 1

(* A tab that missed something, or fell behind while it was not connected,  *)
(* is followed no further: from its next fetch on it is where a new tab is. *)
InTouch ==
  \A b \in tabs : b \notin missed /\ (Connected(b) \/ shows[b] = View(db))

(* The escalation's clock is followed with no tab open; with one, only a    *)
(* row that was just filed, or one whose next tick tells of it again.       *)
JustFiled == age = 0 /\ quiet = 0

DueNow == timer = 0 /\ age >= Interval

Unhurried == Watched => reboots = 0 /\ (reboots = 0 /\ (JustFiled \/ DueNow))

Bounded == LittleTrouble /\ InTouch /\ Unhurried

=============================================================================
