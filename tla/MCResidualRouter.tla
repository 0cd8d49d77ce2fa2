-------------------------- MODULE MCResidualRouter --------------------------
(* Small instances of ResidualRouter for TLC: families of configurations.  *)
EXTENDS ResidualRouter

(* The paper's defaults: absolute budgets, no thresholds, no pre-filter. *)
Base == [policy |-> "separate", mode |-> "absolute", kind |-> "both", impl |-> "cached",
         ratio |-> 0, ratio_k |-> None, ratio_v |-> None, abs_k |-> 1, abs_v |-> 1,
         lm |-> Den, rel |-> 0, thr |-> 0, keep |-> 0, pre |-> 0]

(* Every policy, kind and absolute budget; decode needs a positive ratio. *)
PolicyConfigs ==
  {[Base EXCEPT !.policy = p, !.kind = k, !.abs_k = a, !.abs_v = b, !.ratio = 1] :
     p \in {"joint", "separate", "k_first", "adaptive"}, k \in {"k", "v", "both"},
     a \in 0 .. 2, b \in 0 .. 2}

(* adaptive_score: the thresholds and the floor. *)
ThresholdConfigs ==
  {[Base EXCEPT !.mode = "adaptive_score", !.policy = p, !.abs_k = a, !.abs_v = 2,
                !.rel = r, !.thr = t, !.keep = m, !.ratio = 1] :
     p \in {"joint", "k_first", "separate"}, a \in {0, 2},
     r \in {0, 1}, t \in 0 .. 1, m \in {0, 2}}

(* Ratio budgets with overrides and uneven layers. *)
RatioConfigs ==
  {[Base EXCEPT !.mode = "ratio", !.ratio = r, !.ratio_k = k, !.ratio_v = v, !.lm = m,
                !.impl = i] :
     r \in {0, 1, 4}, k \in {None, 0, 2}, v \in {None, 3}, m \in {2, 6},
     i \in {"cached", "vectorized"}}

(* A pre-filter that keeps one K slot. *)
PrefilterConfigs ==
  {[Base EXCEPT !.mode = "ratio", !.ratio = r, !.pre = 1, !.impl = i] :
     r \in {1, 4}, i \in {"cached", "vectorized"}}

(* The batched path with fixed budgets. *)
BatchedConfigs ==
  {[Base EXCEPT !.impl = "vectorized", !.policy = p, !.kind = k, !.abs_k = a, !.abs_v = b] :
     p \in {"separate", "joint"}, k \in {"k", "both"}, a \in {0, 1, 3}, b \in 0 .. 2}

AllConfigs == PolicyConfigs \cup ThresholdConfigs \cup RatioConfigs
                \cup PrefilterConfigs \cup BatchedConfigs
=============================================================================
