--------------------------- MODULE PrintFarmClaims ---------------------------
(***************************************************************************)
(* What the repository says of the orchestrator and its printer, and       *)
(* PrintFarm shows otherwise.                                              *)
(***************************************************************************)
EXTENDS PrintFarm

(* INV-QUEUE-01, invariants.yaml:81: success is the end of "processing ->   *)
(* queued->printing->{success|failed|aborted}".                             *)
SuccessIsFinal ==
  [][\A j \in Jobs : db.status[j] = "success" => db'.status[j] = "success"]_vars

(* mqtt-ftps-printer.ts:73-74: a printer that rejects the print makes       *)
(* startPrint "throw so the dispatcher reverts the job to 'queued' instead  *)
(* of stranding it in a phantom 'printing'".                                *)
NoPhantomPrinting ==
  AtRest => \A j \in ByStatus(db, "printing") : Running(j)

(* INV-STOCKER-02, invariants.yaml:32: "on swap_executed (success finish OR *)
(* forced eject), remaining decreases by exactly 1", so never by more than  *)
(* the mechanism has taken.                                                 *)
OnlySwapsAreCounted ==
  AtRest /\ printer.state # "RUNNING" => Plates - db.remaining <= swaps

=============================================================================
