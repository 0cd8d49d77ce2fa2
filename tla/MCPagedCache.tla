---------------------------- MODULE MCPagedCache ----------------------------
(* Small instances of PagedCache for TLC. *)
EXTENDS PagedCache

(* The same budget in every layer: budget_policy "uniform". *)
One  == [l \in 0 .. NumLayers - 1 |-> 1]
Two  == [l \in 0 .. NumLayers - 1 |-> 2]
=============================================================================
