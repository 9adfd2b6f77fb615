----------------------------- MODULE QueueStore -----------------------------
(***************************************************************************)
(* The persistent state of the orchestrator, as the SQLite schema          *)
(* (src/src/db/migrations.ts) and the Repo (src/src/db/repo.ts) keep it,   *)
(* and the Repo's writes as operators from one database value to the next. *)
(*                                                                         *)
(* bun:sqlite is synchronous, so one write - and every run of writes       *)
(* between two awaits - is atomic.  The modules that EXTEND this one build *)
(* each handler's effect by composing these operators.                     *)
(***************************************************************************)
EXTENDS Naturals, FiniteSets

CONSTANTS
  Jobs,        \* ids of the rows of table jobs, in AUTOINCREMENT order
  Projects,    \* rows of table projects
  NoProject    \* jobs.project_id IS NULL

ASSUME JobsAssumption == Jobs \subseteq Nat \ {0} /\ IsFiniteSet(Jobs)
ASSUME ProjectsAssumption == NoProject \notin Projects

-----------------------------------------------------------------------------
(* Rows. "unborn" and "deleted" are the two ways of not being a row: ids    *)
(* are AUTOINCREMENT, so a deleted id never comes back.                     *)

RowStatus == {"processing", "queued", "printing", "success", "failed", "aborted"}

Status == RowStatus \union {"unborn", "deleted"}

Policy == {"strict", "propagate"}

Positions == 1 .. Cardinality(Jobs)

(* pending_actions is kept as what the code asks of it: how many rows of    *)
(* each blocking type are unresolved, and which jobs any row - resolved or  *)
(* not, advisory ones included - still references (the foreign key).        *)
DB == [ status        : [Jobs -> Status],
        position      : [Jobs -> Nat],
        attempts      : [Jobs -> Nat],
        project       : [Jobs -> Projects \union {NoProject}],
        substituted   : [Jobs -> BOOLEAN],
        policy        : [Projects -> Policy],
        remaining     : Nat,
        capacity      : Nat,
        refill        : Nat,
        retryDecision : [Jobs -> Nat],
        colorDecision : [Projects -> Nat],
        referenced    : SUBSET Jobs ]

(* A fresh database after the first boot's stocker initialisation.          *)
FreshDB(plates) ==
  [ status        |-> [j \in Jobs |-> "unborn"],
    position      |-> [j \in Jobs |-> 0],
    attempts      |-> [j \in Jobs |-> 0],
    project       |-> [j \in Jobs |-> NoProject],
    substituted   |-> [j \in Jobs |-> FALSE],
    policy        |-> [p \in Projects |-> "strict"],
    remaining     |-> plates,
    capacity      |-> plates,
    refill        |-> 0,
    retryDecision |-> [j \in Jobs |-> 0],
    colorDecision |-> [p \in Projects |-> 0],
    referenced    |-> {} ]

Rows(d) == {j \in Jobs : d.status[j] \in RowStatus}

ByStatus(d, s) == {j \in Jobs : d.status[j] = s}

(* ORDER BY position ASC, id ASC.                                           *)
Precedes(d, i, j) ==
  \/ d.position[i] < d.position[j]
  \/ d.position[i] = d.position[j] /\ i < j

-----------------------------------------------------------------------------
(* jobs                                                                     *)

IsNextId(d, j) ==
  /\ d.status[j] = "unborn"
  /\ \A k \in Jobs : d.status[k] = "unborn" => j <= k

(* COALESCE(MAX(position), 0) + 1                                           *)
IsNextPosition(d, p) ==
  /\ \A k \in Rows(d) : d.position[k] < p
  /\ p = 1 \/ \E k \in Rows(d) : d.position[k] + 1 = p

CreateJob(d, j, p) ==
  [d EXCEPT !.status[j] = "processing", !.position[j] = p]

(* A clone copies the plan and the project of its source, never its         *)
(* attempts or its substitution.                                            *)
CloneJob(d, src, j, p) ==
  [d EXCEPT !.status[j]   = "processing",
            !.position[j] = p,
            !.project[j]  = d.project[src]]

(* UPDATE ... WHERE id = ?: no effect on an id that is not a row.           *)
UpdateStatus(d, j, s) ==
  IF j \in Rows(d) THEN [d EXCEPT !.status[j] = s] ELSE d

SetProject(d, j, p) ==
  IF j \in Rows(d) THEN [d EXCEPT !.project[j] = p] ELSE d

IncrementAttempts(d, j) ==
  IF j \in Rows(d) THEN [d EXCEPT !.attempts[j] = @ + 1] ELSE d

SetSubstitution(d, js) ==
  [d EXCEPT !.substituted = [j \in Jobs |-> IF j \in js THEN TRUE ELSE d.substituted[j]]]

SetProjectPolicy(d, p, pol) == [d EXCEPT !.policy[p] = pol]

(* rank is the submitted order: listed id -> its new position.              *)
ReorderJobs(d, rank) ==
  [d EXCEPT !.position =
     [j \in Jobs |-> IF j \in DOMAIN rank THEN rank[j] ELSE d.position[j]]]

(* PRAGMA foreign_keys = ON: the DELETE throws while any pending_actions    *)
(* row still names the job.                                                 *)
DeletePermitted(d, j) == j \notin d.referenced

DeleteJob(d, j) ==
  [d EXCEPT !.status[j]        = "deleted",
            !.position[j]      = 0,
            !.attempts[j]      = 0,
            !.project[j]       = NoProject,
            !.substituted[j]   = FALSE]

-----------------------------------------------------------------------------
(* stocker_state: one row, CHECK (remaining >= 0 AND remaining <= capacity) *)

(* Mutant: the table without its CHECK.                                     *)
DecrementNeverRefused(d) == TRUE

(* decrementStocker throws on the CHECK when the row is already at zero.    *)
DecrementPermitted(d) == d.remaining > 0

DecrementStocker(d) == [d EXCEPT !.remaining = @ - 1]

SetStocker(d, cap, rem) == [d EXCEPT !.capacity = cap, !.remaining = rem]

RefillStocker(d) == [d EXCEPT !.remaining = d.capacity]

-----------------------------------------------------------------------------
(* pending_actions                                                          *)

CreateStockerRefill(d) == [d EXCEPT !.refill = @ + 1]

CreateColorDecision(d, j) ==
  [d EXCEPT !.colorDecision[d.project[j]] = @ + 1,
            !.referenced = @ \union {j}]

CreateRetryDecision(d, j) ==
  [d EXCEPT !.retryDecision[j] = @ + 1,
            !.referenced = @ \union {j}]

(* Advisory: nothing reads the row again but the foreign key.               *)
CreateMechanicalCheck(d, j) == [d EXCEPT !.referenced = @ \union {j}]

(* Mutant: a refill that leaves its request open.                           *)
LeaveStockerRefills(d) == d

ResolveStockerRefills(d) == [d EXCEPT !.refill = 0]

ResolveRetryDecisions(d, j) == [d EXCEPT !.retryDecision[j] = 0]

=============================================================================
