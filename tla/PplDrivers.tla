----------------------------- MODULE PplDrivers -----------------------------
\* The perplexity comparisons of tools/ that measure method adapters: each is a
\* list of arms and the loop around them, as data for EvalArms.
EXTENDS EvalArms

base(bits) == BaseQuantAdapter(bits)
turbo == TurboQuantStyleAdapter
kivi == KIVIStyleAdapter
care(opts) == CAREKVAdapter(opts)
vectorized(opts) == CAREKVAdapter(opts @@ [correction_impl |-> "vectorized"])
on(quantizer, mode) == [base_quantizer |-> quantizer, k_store_mode |-> mode]
budgets(sk, sv, rk, rv) ==
  [sk |-> ToString(sk), sv |-> ToString(sv), rk |-> ToString(rk), rv |-> ToString(rv)]
granularity(kcg, vtb) == [k_channel_group |-> ToString(kcg), v_token_block |-> ToString(vtb)]

-----------------------------------------------------------------------------
\* Drivers over run_one of eval_base_quantizer_expansion, one table at the end.
run_one == [catch |-> "row"]

build_adapters ==
  <<Plain("fp16", FP16Adapter), Plain("base4", base("4")), Plain("base3", base("3")),
    Plain("uniform_care", care(NoEnv)),
    Plain("kivi3", kivi), Plain("kivi3_care", care(on("kivi_style", "post_rope"))),
    Plain("kvquant3", KVQuantStyleAdapter("pre_rope")), Plain("kvquant3_care", Unsupported),
    Plain("rotatekv3", RotateKVStyleAdapter), Plain("rotatekv3_care", care(on("rotatekv_style", "post_rope"))),
    Plain("turbo3", Unsupported), Plain("turbo3_care", Unsupported)>>
eval_base_quantizer_expansion == Driver(build_adapters, run_one @@ [refs |-> {"fp16", "base3"}])

sota_run_one == [catch |-> "row"]
sota_build_adapters ==
  <<Plain("fp16", FP16Adapter), Plain("base4", base("4")), Plain("base3", base("3")), Plain("base2", base("2")),
    Plain("kivi4", kivi), Plain("kivi3", kivi), Plain("kivi2", kivi),
    Plain("care_fixed", care(NoEnv)), Plain("care_adaptive", care([mode |-> "adaptive", rel |-> "0.05"])),
    Plain("kvquant", Unsupported), Plain("mikv", Unsupported), Plain("zipcache", Unsupported)>>
eval_sota_direct_comparison == Driver(sota_build_adapters, sota_run_one @@ [refs |-> {"fp16", "base3"}])

stacked_run_one == [catch |-> "row"]
stacked_build_adapters ==
  <<Plain("fp16", FP16Adapter), Plain("base4", base("4")), Plain("base3", base("3")),
    Plain("uniform_care", care(NoEnv)),
    Plain("kivi3", kivi), Plain("kivi3_care", care(on("kivi_style", "post_rope"))),
    Plain("kivi2", kivi), Plain("kivi2_care", care(on("kivi_style", "post_rope") @@ [bits |-> "2"]))>>
eval_carekv_on_base_quantizers == Driver(stacked_build_adapters, stacked_run_one @@ [refs |-> {"fp16", "base3"}])

\* torch.cuda.OutOfMemoryError: up to six attempts
turbo_run_one == [catch |-> "row", again |-> TRUE]
turbo_build_adapters ==
  <<Plain("fp16", FP16Adapter), Plain("base4", base("4")), Plain("base3", base("3")), Plain("base2", base("2")),
    Plain("turbo4", turbo), Plain("turbo4_noqjl", turbo), Plain("turbo3", turbo), Plain("turbo3_noqjl", turbo),
    Plain("turbo2", turbo), Plain("turbo2_noqjl", turbo),
    Plain("turbo4_care", Unsupported), Plain("turbo3_care", Unsupported), Plain("turbo2_care", Unsupported),
    Plain("uniform_care", care(NoEnv)), Plain("kivi3_care", care(on("kivi_style", "post_rope"))),
    Plain("kvquant3_care", care(on("kvquant_style", "pre_rope")))>>
eval_turboquant_bit_sweep ==
  Driver(turbo_build_adapters, turbo_run_one @@ [refs |-> {"fp16", "base3"}])

kvquant_run_one == [catch |-> "row", again |-> TRUE]
kvquant_build_adapters ==
  <<Plain("fp16", FP16Adapter), Plain("base3", base("3")), Plain("kvquant3", KVQuantStyleAdapter("pre_rope")),
    Plain("kvquant3_care", care(on("kvquant_style", "pre_rope"))),
    Plain("kivi3_care", care(on("kivi_style", "post_rope"))), Plain("uniform_care", care(NoEnv))>>
eval_kvquant_carekv_unblock ==
  Driver(kvquant_build_adapters, kvquant_run_one @@ [refs |-> {"fp16", "base3"}])

\* the run of all arms in one process, with the sketch size of an attribution run
eval_7b_validation ==
  Driver(<<Plain("fp16", FP16Adapter), Plain("base", base("3")), Plain("care", vectorized(NoEnv))>>,
         run_one @@ [start |-> [SKETCH_DIM |-> "32"]])

\* every candidate stored and read: heads of 64 channels, pages of 16 rows
cover(q, kcg, vtb) ==
  care(q @@ budgets(64 \div kcg, 16 \div vtb, 64 \div kcg, 16 \div vtb) @@ granularity(kcg, vtb))
_bar_adapter == care(budgets(2, 4, 2, 2) @@ granularity(32, 4))
coverage_cells ==
  <<Plain("fp16", FP16Adapter), Plain("base_int3", base("3")), Plain("uni_bar", _bar_adapter),
    Plain("rot_g32v4", cover(on("rotatekv_style", "pre_rope"), 32, 4)),
    Plain("rot_g16v2", cover(on("rotatekv_style", "pre_rope"), 16, 2)),
    Plain("uni_g32v4", cover(on("uniform", "post_rope"), 32, 4)),
    Plain("uni_g16v2", cover(on("uniform", "post_rope"), 16, 2))>>
eval_rotation_coverage_ablation == Driver(coverage_cells, run_one)

standalone(q) == care(q @@ budgets(0, 0, 0, 0))
screening_arms ==
  <<Plain("fp16", FP16Adapter), Plain("base_int3", base("3")), Plain("uniform_carekv", care(NoEnv)),
    Plain("rot_post_carekv", care(on("rotatekv_style", "post_rope"))),
    Plain("rot_pre_carekv", care(on("rotatekv_style", "pre_rope"))),
    Plain("rand_pre_carekv", care(on("randrot_style", "pre_rope"))),
    Plain("rand_pre_base", standalone(on("randrot_style", "pre_rope"))),
    Plain("rot_pre_base", standalone(on("rotatekv_style", "pre_rope")))>>
eval_rotation_carekv_screening == Driver(screening_arms, run_one @@ [refs |-> {"fp16", "uniform_carekv"}])

\* run_cell has no try: the first arm that fails ends the driver
decode_run_cell == [catch |-> "raise"]
eval_vectorized_carekv_decode ==
  Driver(<<Plain("base3", base("3")), Plain("loop", care(NoEnv)), Plain("vectorized", vectorized(NoEnv)),
           Plain("kivi", vectorized(on("kivi_style", "post_rope"))),
           Plain("kvquant", vectorized(on("kvquant_style", "pre_rope")))>>, decode_run_cell)

-----------------------------------------------------------------------------
\* Drivers that resume: the CSV is read first, its arms are skipped, and it is
\* rewritten after each arm and once more with the deltas of a point.
Resuming == [resume |-> TRUE, save |-> "each"]
KNOBS == {"KSCORE_LIVE", "K_CORRECTION_MODE"}
linear == [K_CORRECTION_MODE |-> "linear"]
exact == [K_CORRECTION_MODE |-> "exact"]
live == [KSCORE_LIVE |-> "1"]

kcorr_arms ==
  <<Plain("fp16", FP16Adapter), Plain("base_int3", base("3")), Plain("turbo_int3", turbo),
    Arm("carekv_current", linear, vectorized(NoEnv)), Arm("carekv_current_exact", exact, vectorized(NoEnv)),
    Arm("carekv_combined", live @@ linear, vectorized(NoEnv)),
    Arm("carekv_combined_exact", live @@ exact, vectorized(NoEnv))>>
eval_exact_kcorr ==
  Driver(kcorr_arms, Resuming @@ [points |-> 2, before |-> KNOBS, after |-> KNOBS,
                                  refs |-> {"fp16", "turbo_int3", "carekv_current"}])

\* The flush that ends a point follows deltas that look for text points only.
combined_arms ==
  <<Plain("fp16", FP16Adapter), Plain("base_int3", base("3")), Plain("turbo_int3", turbo),
    Plain("carekv_current", vectorized(NoEnv)), Arm("carekv_combined", live, vectorized(NoEnv))>>
eval_combined_vs_turbo ==
  Driver(combined_arms, Resuming @@ [points |-> 2, before |-> {"KSCORE_LIVE"}, after |-> {"KSCORE_LIVE"},
                                     refs |-> {"fp16", "turbo_int3", "carekv_current"}, keys |-> "raw"])

stack_arms ==
  <<Plain("fp16", FP16Adapter), Plain("turbo", turbo),
    Arm("bar", live @@ exact, vectorized(NoEnv)),
    Arm("uni_rv4", live @@ exact, vectorized([rv |-> "4"])),
    Arm("rot_rv4", live @@ exact, vectorized(on("rotatekv_style", "pre_rope") @@ [rv |-> "4"]))>>
eval_rotation_stack_screen ==
  Driver(stack_arms, Resuming @@ [points |-> 2, before |-> KNOBS, after |-> KNOBS, refs |-> {"fp16", "turbo", "bar"}])

\* No variable is popped between the arms.
confirm_arms ==
  <<Plain("fp16", FP16Adapter), Plain("base_int3", base("3")), Plain("uniform_carekv", care(NoEnv)),
    Plain("rot_pre_carekv", care(on("rotatekv_style", "pre_rope"))), Plain("turbo", turbo)>>
eval_rotation_confirm ==
  Driver(confirm_arms, Resuming @@ [start |-> [VECTORIZED_RESIDUAL |-> "1", VECTORIZE_VDOM_ONLY |-> "1"],
                                    points |-> 2, refs |-> {"fp16", "base_int3", "uniform_carekv", "turbo"},
                                    keys |-> "cell"])

CAREKV_ARMS ==
  [carekv_stored_int3 |-> "current", carekv_qaware |-> "current", carekv_random |-> "random",
   carekv_magnitude |-> "oracle_residual_magnitude"]
make_adapter(mode) ==
  IF mode \in DOMAIN CAREKV_ARMS
    THEN Arm(mode, [SELECTOR_VARIANT |-> CAREKV_ARMS[mode], CHUNKED_CORRECTION |-> "1", CHUNK_SIZE |-> "256"],
             vectorized(NoEnv))
    ELSE Plain(mode, CASE mode = "fp16" -> FP16Adapter [] mode = "base_quant_int3" -> base("3")
                       [] mode = "turboquant_int3" -> turbo)
eval_longctx_ppl ==
  Driver([i \in 1..7 |-> make_adapter(<<"fp16", "base_quant_int3", "carekv_stored_int3", "turboquant_int3",
                                        "carekv_qaware", "carekv_random", "carekv_magnitude">>[i])],
         Resuming @@ [points |-> 2, before |-> {"SELECTOR_VARIANT", "CHUNKED_CORRECTION", "CHUNK_SIZE"},
                      after |-> {"BASELINE_SCORE"}])

_EVICT_ENV == {"EVICT_KEEP_RATIO", "EVICT_POLICY", "EVICT_RECENT", "EVICT_SINK"}
set_evict == [EVICT_KEEP_RATIO |-> "0.5", EVICT_POLICY |-> "h2o", EVICT_SINK |-> "4"]
evict_arms ==
  <<Plain("fp16", FP16Adapter), Plain("base_noevict", standalone(NoEnv)), Plain("carekv_noevict", care(NoEnv)),
    Arm("base_evict", set_evict, standalone(NoEnv)), Arm("carekv_evict", set_evict, care(NoEnv))>>
eval_eviction_additivity ==
  Driver(evict_arms, Resuming @@ [start |-> [VECTORIZED_RESIDUAL |-> "1", VECTORIZE_VDOM_ONLY |-> "1"],
                                  points |-> 2, before |-> _EVICT_ENV, after |-> _EVICT_ENV])

_MP_ENV == {"MIXEDPREC_HI_FRAC", "MIXEDPREC_BITS_HI", "MIXEDPREC_BITS_LO", "MIXEDPREC_SALIENCY"}
set_mp ==
  [MIXEDPREC_HI_FRAC |-> "0.5", MIXEDPREC_BITS_HI |-> "4", MIXEDPREC_BITS_LO |-> "2", MIXEDPREC_SALIENCY |-> "vnorm"]
mixed(opts) == vectorized(opts @@ on("kivi_style", "post_rope"))
mixedprec_arms ==
  <<Plain("fp16", FP16Adapter),
    Plain("base_uniform", mixed(budgets(0, 0, 0, 0))), Plain("carekv_uniform", mixed(NoEnv)),
    Arm("base_mixedprec", set_mp, mixed(budgets(0, 0, 0, 0))), Arm("carekv_mixedprec", set_mp, mixed(NoEnv))>>
eval_mixedprec_additivity ==
  Driver(mixedprec_arms, Resuming @@ [points |-> 2, before |-> _MP_ENV, after |-> _MP_ENV])

gqa_arms ==
  <<Plain("fp16", FP16Adapter), Plain("base_int3", base("3")), Plain("carekv_SK2SV4", vectorized(NoEnv)),
    Plain("turbo_int3", turbo)>>
eval_gqa_scaling == Driver(gqa_arms, Resuming @@ [points |-> 2, refs |-> {"base_int3", "turbo_int3"}])
=============================================================================
