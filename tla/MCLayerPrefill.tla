---------------------------- MODULE MCLayerPrefill ----------------------------
(* Small instances of LayerPrefill for TLC. *)
EXTENDS LayerPrefill

Base == [mode |-> "carekv_stored", quantizer |-> "uniform", calibrated |-> TRUE, roped |-> TRUE,
         pre_rope |-> FALSE, hi |-> 0, recent_first |-> FALSE,
         rank |-> 0, rank_kind |-> "both", ratio |-> 2, min_residuals |-> 1,
         keep |-> Den, policy |-> "h2o", recent |-> Unset, sink |-> 4,
         impl |-> "vectorized", any_read_budget |-> TRUE, chunk |-> 0]

Modes == {"fp", "base_quant", "quant", "carekv", "carekv_stored", "stored"}

(* Every mode, quantizer and store mode, with and without mixed precision. *)
BaseSettings ==
  {[Base EXCEPT !.mode = m, !.quantizer = q[1], !.calibrated = q[2], !.roped = r,
                !.pre_rope = p, !.hi = x, !.recent_first = f,
                !.rank = l[1], !.rank_kind = l[2]] :
     m \in Modes,
     q \in (({"uniform"} \cup SideBuffered) \X {TRUE}) \cup {<<"blockgtq_style", FALSE>>},
     r \in BOOLEAN, p \in BOOLEAN, x \in {0, 2, Den}, f \in BOOLEAN,
     l \in {<<0, "both">>, <<2, "k">>, <<2, "v">>, <<2, "both">>}}

(* Small and large shares, with and without sink tokens and recent window. *)
EvictSettings ==
  {[Base EXCEPT !.mode = m, !.keep = k, !.policy = p, !.recent = r, !.sink = s,
                !.any_read_budget = FALSE] :
     m \in {"base_quant", "carekv_stored"}, k \in 0 .. Den, p \in {"h2o", "recent_only"},
     r \in {Unset, 0, 2}, s \in {0, 1, 4}}

(* Every implementation, chunks that divide the batch and that do not. *)
LoopSettings ==
  {[Base EXCEPT !.mode = m, !.impl = i, !.any_read_budget = b, !.chunk = c] :
     m \in {"carekv_stored"}, i \in {"python", "cached", "vectorized"},
     b \in BOOLEAN, c \in 0 .. 5}
  \cup {[Base EXCEPT !.mode = "carekv_eval", !.ratio = r, !.min_residuals = n] :
          r \in 0 .. Den, n \in 0 .. 2}

AllSettings == BaseSettings \cup EvictSettings \cup LoopSettings
=============================================================================
