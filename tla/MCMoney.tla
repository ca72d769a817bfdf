------------------------------ MODULE MCMoney ------------------------------
(* One product in a rouble warehouse and a euro one, sold once before      *)
(* batches and business dates existed.                                     *)
EXTENDS Money, TLC

CONSTANTS p1, w1, w2, b1, b2, b3, b4, s0, s1, s2, t1, t2, none

Threads == Permutations({t1, t2})

Start == (w1 :> "RUB") @@ (w2 :> "EUR")

Cards == p1 :> ("RUB" :> [cost |-> 1, min |-> 3] @@ "EUR" :> [cost |-> none, min |-> none])

On(row, local, utc) == [row EXCEPT !.local = local, !.utc = utc]
Received(n, cost, b) == On(Op("receipt", p1, n, none, cost, b, none, 1), 1, 1)
Ledger0 == <<On(Op("sale", p1, -1, 2, none, none, s0, none), 1, 0),
             Received(2, 2, b1), Received(2, none, b2)>>
Cash0 == <<On(Move("sale", 2, "RUB", s0, none), 1, 0)>>
Batches0 ==
    (b1 :> [NewBatch(p1, w1, 2, FALSE) EXCEPT !.quantity = 2]) @@
    (b2 :> [NewBatch(p1, w2, none, FALSE) EXCEPT !.quantity = 2])

Line(b, n, price) == [batch |-> b, qty |-> n, price |-> price]
Baskets == {<<Line(b1, 1, 3), Line(b1, 1, 0)>>, <<Line(b2, 2, 1)>>}
Haul1(b, w, cost) == [batch |-> b, to |-> w, qty |-> 1, cost |-> cost]
Hauls == {Haul1(b1, w1, none), Haul1(b1, w2, 1)}
Deliveries == {[product |-> p1, warehouse |-> w2, qty |-> 1, cost |-> 1]}
=============================================================================
