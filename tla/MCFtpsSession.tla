--------------------------- MODULE MCFtpsSession ----------------------------
(* An upload, the diagnostics probe and a retried session.                  *)
EXTENDS FtpsSession

CONSTANTS upload, check, retried   \* the calls

Kinds == [c \in Calls |-> CASE c = upload -> "curl" [] c = check -> "session"
                            [] c = retried -> "retry"]

Stub == [codeOk |-> TRUE, prots |-> {"P", "C"}, size |-> 2]

(* The stub; a printer that grants PROT C only; a wrong access code; a file *)
(* over the server's cap.                                                   *)
FourSettings ==
  {Stub, [Stub EXCEPT !.prots = {"C"}], [Stub EXCEPT !.codeOk = FALSE],
   [Stub EXCEPT !.size = 4]}

=============================================================================
