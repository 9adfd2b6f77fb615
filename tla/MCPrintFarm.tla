---------------------------- MODULE MCPrintFarm -----------------------------
(* Instances of PrintFarm for TLC: which disturbances happen, and how often *)
(* each; in the widest, at most MaxEvents of them in one behaviour.         *)
EXTENDS PrintFarmClaims, Functions

Once(es) == [e \in Events |-> IF e \in es THEN 1 ELSE 0]

(* Two failures: of a print, and of its second attempt or its eject.        *)
Lossy == [Once({"drop", "ftps", "retry", "refill"}) EXCEPT !["fail"] = 2]
AllKinds == Once(Events)

(* One kind of trouble each.                                                *)
Crashing == Once({"crash"})
Refusing == Once({"refuse"})
Aborting == Once({"abort"})

(* The operator refills where nothing but prints failed.                    *)
Restocked == spent["refill"] = 0 \/ spent["drop"] + spent["ftps"] + spent["retry"] = 0

(* An event of the wizard, a refill and a retry of a row that did not fail  *)
(* count twice: they are possible at any moment, and cost the most states.  *)
MaxEvents == 3
Twice == {"rehearse", "eject", "refill", "rerun"}
Weight(e) == IF e \in Twice THEN 2 * spent[e] ELSE spent[e]
FewEvents == FoldFunction(+, 0, [e \in Events |-> Weight(e)]) <= MaxEvents

=============================================================================
