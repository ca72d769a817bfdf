------------------------------ MODULE MCAccess ------------------------------
(* Small instances of Access. *)
EXTENDS Access, TLC

(* The administrators, the warehouses and the threads are interchangeable. *)
Symmetry ==
    Permutations(Admin) \cup Permutations(Warehouse) \cup Permutations(Thread)
=============================================================================
