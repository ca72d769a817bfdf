---------------------------- MODULE MCCatalogue ----------------------------
(* Small instances of Catalogue: cards 1 and 2 and a batch of the first card. *)
EXTENDS Catalogue, TLC

TwoCards == {1, 2}
OneBatch == {4}
NoBatch == {}
OfFirst == [b \in OneBatch |-> 1]
OfNone == [b \in NoBatch |-> 1]

(* Neither clients nor codes are told apart (safety properties only).      *)
Symmetric == Permutations(Client) \cup Permutations(Code)
=============================================================================
