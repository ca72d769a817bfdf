------------------------------ MODULE MCStock ------------------------------
(* Small instances of Stock: one or two threads, products with and without *)
(* a history older than batches.                                           *)
EXTENDS Stock, TLC

CONSTANTS p1, p2, w0, w1, b1, b2, b3, lp1, lp2, s0, s1, s2, s3, s4, t1, t2, none, r1, r2

TwoProducts == {p1, p2}
TwoWarehouses == {w0, w1}
OneWarehouse == {w0}
LegacyIds == (p1 :> lp1) @@ (p2 :> lp2)

Old(type, x, n, s) ==
    [id |-> none, type |-> type, product |-> x, qty |-> n, batch |-> none, sale |-> s]

(* p1 has stock left from before batches, p2 was sold out. *)
SoldOut == <<Old("receipt", p1, 2, none), Old("sale", p1, -1, s0),
             Old("receipt", p2, 1, none), Old("sale", p2, -1, s1)>>
(* p2 was oversold before batches. *)
Oversold == <<Old("sale", p2, -1, s1)>>

(* Another device received a batch of p2 and sold one from it. *)
PushedRows ==
    {[id |-> r1, type |-> "receipt", product |-> p2, qty |-> 2, batch |-> b3, sale |-> none],
     [id |-> r2, type |-> "sale", product |-> p2, qty |-> -1, batch |-> b3, sale |-> s2]}
PushedBatches ==
    b3 :> [product |-> p2, warehouse |-> w0, legacy |-> FALSE, quantity |-> 0]

(* Another device pushes rows it wrote before batches: they bring none.    *)
PushedOldRows ==
    {[id |-> r1, type |-> "receipt", product |-> p2, qty |-> 2, batch |-> None, sale |-> none],
     [id |-> r2, type |-> "sale", product |-> p2, qty |-> -1, batch |-> None, sale |-> s2]}
NoBatches == << >>
=============================================================================
