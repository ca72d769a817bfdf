------------------------------- MODULE MCPush -------------------------------
(***************************************************************************)
(* Instances of Push.  Two clients; the first makes a receipt and a sale   *)
(* with its cash movement, the second sells from a batch of the same       *)
(* product.                                                                *)
(***************************************************************************)
EXTENDS Push

CONSTANTS
    d1, d2,                    \* clients
    receipt, sold, cash, other,\* ledger rows
    product, batch, sale, customer

MCDevice == {d1, d2}
OneDevice == {d1}

MCParents ==
    [x \in {receipt, sold, cash, other, product, batch, sale, customer} |->
        CASE x = receipt -> {product, batch}
          [] x = sold -> {product, batch, sale}
          [] x = cash -> {sale}
          [] x = other -> {product, batch}
          [] x = batch -> {product}
          [] x = sale -> {customer}
          [] OTHER -> {}]

(* operations.sale_id and operations.batch_id are bare columns. *)
MCEnforced ==
    [x \in {receipt, sold, cash, other, product, batch, sale, customer} |->
        IF x \in {receipt, sold, other} THEN {product} ELSE MCParents[x]]

(* Two clients *)
PairRow == {receipt, cash, other}
PairRef == {product, batch, sale}
PairHome == [r \in PairRow |-> IF r = other THEN d2 ELSE d1]
PairParents == [x \in PairRow \cup PairRef |-> MCParents[x] \cap PairRef]
PairEnforced == [x \in PairRow \cup PairRef |-> MCEnforced[x] \cap PairRef]
OneCash == {cash}

(* One client *)
SoloRow == {receipt, sold}
SoloRef == {product, sale, customer}
SoloHome == [r \in SoloRow |-> d1]
SoloParents == [x \in SoloRow \cup SoloRef |-> MCParents[x] \cap SoloRef]
SoloEnforced == [x \in SoloRow \cup SoloRef |-> MCEnforced[x] \cap SoloRef]
NoCash == {}
=============================================================================
