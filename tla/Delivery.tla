------------------------------ MODULE Delivery ------------------------------
(***************************************************************************)
(* What the push half of the synchronisation promises, without devices,    *)
(* requests or transactions: a ledger row is written once with the columns *)
(* of the schema that wrote it, reaches the central ledger at most once,   *)
(* unchanged, and is acknowledged only after it has been stored there.     *)
(*                                                                         *)
(* A row's content is the schema version whose columns it carries; 0 says  *)
(* that the row does not exist.                                            *)
(***************************************************************************)
EXTENDS Naturals

CONSTANT Row

VARIABLES
    written,   \* content of each row as its author wrote it
    stored,    \* content of each row in the central ledger
    acked      \* rows some device has marked as synced

vars == <<written, stored, acked>>

Init ==
    /\ written = [r \in Row |-> 0]
    /\ stored = [r \in Row |-> 0]
    /\ acked = {}

(* A row is written once; its content never changes afterwards. *)
Write(r) ==
    /\ written[r] = 0
    /\ written'[r] \in Nat \ {0}
    /\ written' = [written EXCEPT ![r] = written'[r]]
    /\ UNCHANGED <<stored, acked>>

(* A group of rows is stored in one transaction, each exactly as written;  *)
(* rows stored before keep the copy they have.                             *)
Store(S) ==
    /\ \A r \in S : written[r] # 0
    /\ stored' = [r \in Row |-> IF r \in S THEN written[r] ELSE stored[r]]
    /\ UNCHANGED <<written, acked>>

(* Only stored rows are acknowledged. *)
Ack(S) ==
    /\ \A r \in S : stored[r] # 0
    /\ acked' = acked \cup S
    /\ UNCHANGED <<written, stored>>

(* A device put back to an old backup may forget acknowledgements. *)
Forget(S) ==
    /\ acked' = acked \ S
    /\ UNCHANGED <<written, stored>>

Next ==
    \/ \E r \in Row : Write(r)
    \/ \E S \in SUBSET Row : Store(S) \/ Ack(S) \/ Forget(S)

Spec == Init /\ [][Next]_vars
=============================================================================
