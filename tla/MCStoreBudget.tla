---------------------------- MODULE MCStoreBudget ----------------------------
(* Small instances of StoreBudget for TLC. *)
EXTENDS StoreBudget

(* Uneven sensitivities; layer 0 has none. *)
Rising(L, l) == l

Base == [L |-> 3, budget_policy |-> "uniform", store_policy |-> "per_kind", kind |-> "both",
         mode |-> "absolute", abs_k |-> 1, abs_v |-> 1, ratio |-> 0, ratio_k |-> None,
         ratio_v |-> None, k_frac |-> Den, v_frac |-> Den, min_per_kind |-> 1,
         vdom_optimized |-> FALSE]

(* Absolute budgets under every layer policy and every store policy. *)
LayerPolicies == {<<1, "uniform">>, <<2, "sensitivity">>, <<3, "u_shaped">>,
                  <<3, "sensitivity">>}
StorePolicies == {<<"joint", "both">>, <<"per_kind", "both">>,
                  <<"residual_kind_aware", "k">>, <<"residual_kind_aware", "v">>}

AbsoluteConfigs ==
  {[Base EXCEPT !.L = b[1], !.budget_policy = b[2], !.store_policy = s[1], !.kind = s[2],
                !.abs_k = a[1], !.abs_v = a[2]] :
     b \in LayerPolicies, s \in StorePolicies,
     a \in {<<0, 1>>, <<1, 0>>, <<1, 1>>, <<2, 0>>}}

(* A share of one half, a fraction of the whole, and a share so small that  *)
(* the floor lifts it.                                                      *)
RatioConfigs ==
  {[Base EXCEPT !.mode = "ratio", !.abs_k = 0, !.abs_v = 0, !.L = b[1],
                !.budget_policy = b[2], !.store_policy = s[1], !.kind = s[2],
                !.ratio = r[1], !.k_frac = r[2]] :
     b \in {<<1, "uniform">>, <<2, "sensitivity">>, <<3, "u_shaped">>},
     s \in StorePolicies, r \in {<<1, Den>>, <<5, Den>>, <<10, 5>>}}

(* Without a K arena. *)
VdomConfigs ==
  {[Base EXCEPT !.vdom_optimized = TRUE, !.store_policy = s[1], !.kind = s[2],
                !.abs_k = x] : s \in StorePolicies, x \in 0 .. 1}

AllConfigs == AbsoluteConfigs \cup RatioConfigs \cup VdomConfigs
=============================================================================
