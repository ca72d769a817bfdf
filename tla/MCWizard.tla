----------------------------- MODULE MCWizard -----------------------------
(* Instances of Wizard for TLC. *)
EXTENDS Wizard, TLC

CONSTANTS c1, c2, b1, b2, w1, w2

(* Two batches of the first product, in two warehouses, none of the second. *)
MC_CodeOf == [b \in {b1, b2} |-> c1]
MC_PlaceOf == (b1 :> w1) @@ (b2 :> w2)
=============================================================================
