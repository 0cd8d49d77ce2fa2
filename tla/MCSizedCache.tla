---------------------------- MODULE MCSizedCache ----------------------------
(* A small instance of SizedCache for TLC, with the correction kernels. *)
EXTENDS SizedCache, SlotCorrection

(* Uneven sensitivities; layer 0 has none. *)
Rising(L, l) == l

(* A third of the candidates, K and V together, all of it in layer 1: the   *)
(* arenas hold five slots of a kind, less than the pages may ask for.       *)
OneThird ==
  [L |-> 2, budget_policy |-> "sensitivity", store_policy |-> "joint", kind |-> "both",
   mode |-> "ratio", abs_k |-> 0, abs_v |-> 0, ratio |-> 1, ratio_k |-> -1,
   ratio_v |-> -1, k_frac |-> 3, v_frac |-> 3, min_per_kind |-> 1,
   vdom_optimized |-> FALSE]

(* Layer 0 gets nothing but the floor of the joint budget.                  *)
OneKind == [l \in 0 .. 1 |-> l]
Both    == [l \in 0 .. 1 |-> 1 + l]

ASSUME AsTheCodeSizesIt == Sized
=============================================================================
