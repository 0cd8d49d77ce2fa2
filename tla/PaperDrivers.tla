---------------------------- MODULE PaperDrivers ----------------------------
\* The drivers behind the paper's tables: the commands of tools/paper_eval.py,
\* the checks on grouped-query models and on long contexts, and the LongBench
\* generation runs.  Most build the CacheConfig from arguments, so that the
\* environment reaches them through the variables the kernels read.
EXTENDS SweepDrivers

\* paper_eval.py: no exception is caught, one CSV at the end.
_set_env(mode, k, k_scale, normalize) ==
  [PREFILL_MODE |-> mode, K_CORRECTION_SCALE |-> k_scale, V_SCORE |-> "output_aware",
   SCORE_NORMALIZE |-> normalize] @@ kind(k)
_write_csv == [catch |-> "raise", header |-> "exact"]

cmd_core_ppl ==
  Driver(<<Plain("fp", FP16Adapter)>> \o
         [i \in 1..7 |->
            LET quantized == literal(_set_env("base_quant", "both", "0.1", "0")) IN
            <<Plain("base_quant_int4", quantized), Plain("base_quant_int3", quantized), Plain("base_quant_int2", quantized),
              Plain("eval_int3_v", literal(_set_env("carekv_eval", "v", "0.1", "0"))),
              Plain("stored_int3_v", literal(_set_env("carekv_stored", "v", "0.1", "0"))),
              Plain("stored_int2_v", literal(_set_env("carekv_stored", "v", "0.1", "0"))),
              Plain("stored_int3_both", literal(_set_env("carekv_stored", "both", "0.05", "1")))>>[i]],
         _write_csv)

\* At each width the two halves of one row.
cmd_invariant ==
  Driver([i \in 1..4 |->
            LET mode == <<"base_quant", "carekv_stored">>[1 + ((i - 1) % 2)]
                bits == <<"3", "2">>[1 + ((i - 1) \div 2)] IN
            Plain(mode \o bits, literal(_set_env(mode, "both", "0.1", "0")))],
         _write_csv)

\* Three store ratios by three read ratios at two widths; no read ratio is above
\* its store ratio.
cmd_budget_sweep ==
  Driver([i \in 1..18 |-> Plain("cell" \o ToString(i), literal(_set_env("carekv_stored", "v", "0.1", "0")))],
         _write_csv)

_run_one(k, k_scale) == Plain(k \o k_scale, literal(_set_env("carekv_stored", k, k_scale, "1")))
cmd_vk_ablation ==
  Driver([i \in 1..7 |-> _run_one(<<"v", "k", "k", "k", "both", "both", "both">>[i],
                                  <<"0.0", "0.01", "0.02", "0.05", "0.01", "0.02", "0.05">>[i])],
         _write_csv)

\* The model loads outside the try.
cmd_memory_pareto ==
  Driver([i \in 1..9 |->
            Plain(<<"baseline", "vblock_8", "vblock_16", "kgroup_16", "kgroup_64", "sketch_8", "sketch_32",
                    "page_8", "page_32">>[i],
                  literal(_set_env("carekv_stored", "v", "0.1", "0")))],
         [catch |-> "eval"] @@ _write_csv)

-----------------------------------------------------------------------------
\* eval_gqa_carekv_validation.py: only the first forward pass is caught.
\* base_logits and care_read0 are compared, and give one row.
eval_gqa_carekv_validation ==
  Driver(<<Plain("care", care(NoEnv)), Plain("base_logits", base("3")),
           Plain("care_read0", care([rk |-> "0", rv |-> "0"])),
           Plain("fp16", FP16Adapter), Plain("base4", base("4")), Plain("base3", base("3"))>>,
         [catch |-> "raise", catches |-> [care |-> "eval"]])

\* eval_long_context_kv_memory.py: one model, the quantized arms through hooks
\* on its projections, then rows with projected memory only.
install_kv_quant_hooks(bits) == Adapter("hf", NoEnv, bits)
eval_long_context_kv_memory ==
  Driver(<<Plain("fp16", FP16Adapter), Plain("base4", install_kv_quant_hooks("4")),
           Plain("base3", install_kv_quant_hooks("3")), Plain("uniform3_care", Unsupported),
           Plain("kivi3_care", Unsupported), Plain("kvquant3_care", Unsupported)>>,
         [catch |-> "raise"])

\* eval_long_context_vectorized_feasibility.py: the first model's arms are caught.
run_qwen(bits) == IF bits = "16" THEN FP16Adapter ELSE Adapter("hf", NoEnv, bits)
eval_long_context_vectorized_feasibility ==
  Driver(<<Plain("qwen_fp16", run_qwen("16")), Plain("qwen_base3", run_qwen("3")),
           Plain("base3_512", base("3")), Plain("care_512", vectorized(NoEnv)),
           Plain("base3_1024", base("3")), Plain("care_1024", vectorized(NoEnv))>>,
         [catch |-> "raise", catches |-> [qwen_fp16 |-> "row", qwen_base3 |-> "row"]])

\* eval_longbench_real.py: a model that does not load gives a row that waits for
\* the next measured arm; an answer that fails is counted in the arm's row.
make_model(mode) ==
  literal([PREFILL_MODE |-> IF mode = "base_quant" THEN mode ELSE "carekv_stored",
           PREFILL_RESIDUAL_KIND |-> "both", ROUTE_POLICY |-> "joint", SCORE_NORMALIZE |-> "1",
           CORRECTION_IMPL |-> "cached",
           K_CORRECTION_MODE |-> IF mode = "carekv" THEN "exact" ELSE "linear"])
eval_longbench_real ==
  Driver(<<Plain("fp16", FP16Adapter), Plain("base_quant_int3", make_model("base_quant")),
           Plain("carekv_exact", make_model("carekv"))>>,
         [save |-> "measured", before |-> {"KSCORE_LIVE"}])

\* eval_longbench_subset.py: the same with the model of the retrieval run; an
\* answer that fails scores nothing and leaves no trace in the arm's row.
eval_longbench_subset ==
  Driver(<<Plain("fp16", FP16Adapter), Plain("base_quant", _make_model("base_quant", "both")),
           Plain("carekv", _make_model("carekv_stored", "both"))>>,
         [save |-> "measured"])
=============================================================================
