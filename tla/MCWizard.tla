------------------------------- MODULE MCWizard --------------------------------
(* A printer that answers everything, and one that sends no report.         *)
EXTENDS Wizard

AllWell == [f \in {"mqtt_reachable", "ftps_reachable", "mqtt_auth_ok", "report_received",
                   "ftps_auth_ok"} |-> TRUE]

TwoResults == {AllWell, [AllWell EXCEPT !.report_received = FALSE]}

=============================================================================
