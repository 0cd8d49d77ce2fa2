---------------------------- MODULE SweepDrivers ----------------------------
\* The drivers of tools/ and scripts/ that configure CARE-KV themselves: sweeps
\* that write a whole environment per cell, and runs with a CacheConfig built
\* from arguments.
EXTENDS PplDrivers

\* _build_model: the paper's settings, the cell's, the base width.
_build_model(paper, overrides) == Adapter("care", [BASE_BITS |-> "3"] @@ overrides @@ paper, "")

\* Common to the three copies of PAPER_BEST_ENV.
paper_best ==
  [PACKED_BASE |-> "1", SCALE_QUANT |-> "int8", PREFILL_MODE |-> "carekv_stored",
   PREFILL_RESIDUAL_KIND |-> "both", ROUTE_POLICY |-> "joint", SCORE_NORMALIZE |-> "1",
   CORRECTION_IMPL |-> "cached", BUDGET_POLICY |-> "uniform"]

-----------------------------------------------------------------------------
\* eval_budget_experiments.py: one CSV per experiment.
budget_cell(label, overrides) == Plain(label, _build_model(paper_best, overrides))
grid_cells(name, grid, overrides(_)) ==
  [i \in DOMAIN grid |-> budget_cell(name \o ToString(grid[i]), overrides(grid[i]))]

_ratio_env(g) ==
  [STORE_BUDGET_MODE |-> "ratio", READ_BUDGET_MODE |-> "ratio", STORE_BUDGET |-> g[1], READ_BUDGET |-> g[2],
   STORE_ABS_K |-> "0", STORE_ABS_V |-> "0", READ_ABS_K |-> "0", READ_ABS_V |-> "0"]
cells_A1_ratio ==
  LET sr == <<"0.02", "0.05", "0.1", "0.2">>  rr == <<"0.01", "0.03", "0.1">> IN
  grid_cells("ratio", [i \in 1..12 |-> <<sr[1 + ((i - 1) \div 3)], rr[1 + ((i - 1) % 3)]>>], _ratio_env)

_abs_env(g) ==
  [STORE_BUDGET_MODE |-> "absolute", READ_BUDGET_MODE |-> "absolute",
   STORE_ABS_K |-> ToString(g[1]), STORE_ABS_V |-> ToString(g[2]),
   READ_ABS_K |-> ToString(g[3]), READ_ABS_V |-> ToString(g[4]),
   STORE_BUDGET |-> "0", READ_BUDGET |-> "0"]
cells_A2_absolute ==
  grid_cells("abs", <<<<0,0,0,0>>, <<1,1,1,1>>, <<2,2,1,1>>, <<2,4,1,1>>, <<2,4,2,2>>, <<2,4,3,3>>,
                      <<2,4,4,4>>, <<4,4,2,2>>, <<8,4,2,2>>, <<4,8,2,2>>>>, _abs_env)
cells_B_store ==
  LET sweep(s) == _abs_env(<<s[1], s[2], 2, 2>>) IN
  grid_cells("store", <<<<0,0>>, <<1,1>>, <<1,2>>, <<2,2>>, <<2,4>>, <<4,4>>, <<8,4>>, <<4,8>>>>, sweep)
cells_C_read ==
  LET sweep(r) == _abs_env(<<2, 4, r[1], r[2]>>) IN
  grid_cells("read", <<<<0,0>>, <<1,1>>, <<1,2>>, <<2,1>>, <<2,2>>, <<2,3>>, <<3,2>>, <<3,3>>, <<4,4>>>>, sweep)
kind(k) == [PREFILL_RESIDUAL_KIND |-> k]
cells_D_balance ==
  LET both(g) == kind("both") @@ _abs_env(g) IN
  grid_cells("balance", <<<<2,1,2,1>>, <<2,2,3,1>>, <<1,4,1,2>>, <<2,4,1,3>>, <<2,4,2,2>>>>, both)
  \o <<budget_cell("K_only", kind("k") @@ _abs_env(<<2,0,2,0>>)),
       budget_cell("V_only", kind("v") @@ _abs_env(<<0,4,0,2>>))>>

run_cell == [catch |-> "row"]
eval_budget_experiments(cells) == Driver(cells, run_cell)

\* K_CHANNEL_GROUPS x V_TOKEN_BLOCKS, over run_cell of eval_budget_experiments
gran_env(g) ==
  LET kcap == 64 \div g[1]  vcap == 16 \div g[2] IN
  [K_CHANNEL_GROUP |-> ToString(g[1]), V_TOKEN_BLOCK |-> ToString(g[2])]
  @@ _abs_env(<<kcap, vcap, IF kcap < 2 THEN kcap ELSE 2, IF vcap < 2 THEN vcap ELSE 2>>)
gran_cells ==
  LET kcg == <<64, 32, 16>>  vtb == <<8, 4, 2>> IN
  grid_cells("gran", [i \in 1..9 |-> <<kcg[1 + ((i - 1) \div 3)], vtb[1 + ((i - 1) % 3)]>>], gran_env)
eval_budget_granularity_sweep == Driver(gran_cells, run_cell)

\* eval_adaptive_read_budget.py
adaptive_paper == [STORE_BUDGET_MODE |-> "absolute", STORE_ABS_K |-> "2", STORE_ABS_V |-> "4"] @@ paper_best
reads(mode, k, v, rel) ==
  [READ_BUDGET_MODE |-> mode, READ_ABS_K |-> k, READ_ABS_V |-> v, READ_RELATIVE_THRESHOLD |-> rel,
   READ_ABSOLUTE_THRESHOLD |-> "0.0", READ_MIN_KEEP |-> "0"]
adaptive_model(overrides) == _build_model(adaptive_paper, overrides)
_cell_fixed(r) == Plain("fixed" \o r, adaptive_model(reads("absolute", r, r, "0.0")))
_cell_adaptive(rel) == Plain("adaptive" \o rel, adaptive_model(reads("adaptive_score", "4", "4", rel)))
_cell_base_quant ==
  Plain("base_quant", adaptive_model([PREFILL_MODE |-> "base_quant"] @@ reads("absolute", "0", "0", "0.0")))
adaptive_run_cell == [catch |-> "row"]
synthetic_full ==
  <<_cell_fixed("1"), _cell_fixed("2"), _cell_fixed("3"), _cell_fixed("4"), _cell_adaptive("0.0"),
    _cell_adaptive("0.05"), _cell_adaptive("0.1"), _cell_adaptive("0.2"), _cell_adaptive("0.3")>>
wikitext2_n4 ==
  <<_cell_base_quant, _cell_fixed("2"), _cell_fixed("4"), _cell_adaptive("0.05"),
    _cell_adaptive("0.1"), _cell_adaptive("0.2"), _cell_adaptive("0.3")>>
eval_adaptive_read_budget(preset) == Driver(preset, adaptive_run_cell)

\* eval_routing_baselines.py
routing_paper ==
  [STORE_BUDGET_MODE |-> "absolute", READ_BUDGET_MODE |-> "absolute", STORE_ABS_K |-> "2", STORE_ABS_V |-> "4",
   READ_ABS_K |-> "2", READ_ABS_V |-> "2"] @@ paper_best
routing_model(overrides) == _build_model(routing_paper, overrides)
scored(score) == Plain(score, routing_model([BASELINE_SCORE |-> score]))
BASELINES ==
  <<Plain("base_quant", routing_model([PREFILL_MODE |-> "base_quant", READ_ABS_K |-> "0",
                                       READ_ABS_V |-> "0", BASELINE_SCORE |-> "carekv"])),
    scored("random"), scored("magnitude_only"), scored("attention_only"), scored("carekv"), scored("oracle_proxy")>>
routing_run_cell == [catch |-> "row"]
eval_routing_baselines == Driver(BASELINES, routing_run_cell)

-----------------------------------------------------------------------------
absolute(sk, sv, rk, rv) ==
  [STORE_BUDGET_MODE |-> "absolute", READ_BUDGET_MODE |-> "absolute", STORE_ABS_K |-> ToString(sk),
   STORE_ABS_V |-> ToString(sv), READ_ABS_K |-> ToString(rk), READ_ABS_V |-> ToString(rv)]

\* eval_reconstruction_pareto_ppl_validation.py
setup_carekv(kcg, vtb, g) ==
  Adapter("care",
    [BASE_BITS |-> "3", GROUP_SIZE |-> "32", K_CHANNEL_GROUP |-> kcg, V_TOKEN_BLOCK |-> vtb,
     READ_RELATIVE_THRESHOLD |-> "0.0", READ_ABSOLUTE_THRESHOLD |-> "0.0", READ_MIN_KEEP |-> "0",
     BASE_QUANTIZER |-> "uniform", MAX_PAGES |-> "16"] @@ g @@ paper_best, "")
CANDIDATES ==
  <<Plain("base_quant_INT3", setup_carekv("32", "4", absolute(2, 4, 0, 0))),
    Plain("per_page_current", setup_carekv("32", "4", absolute(2, 4, 2, 2))),
    Plain("mag_SK1_SV4", setup_carekv("32", "4", absolute(1, 4, 2, 2))),
    Plain("global_mag_s12.5", setup_carekv("16", "4", absolute(1, 2, 2, 2))),
    Plain("global_mag_s18.8", setup_carekv("16", "4", absolute(2, 2, 2, 2))),
    Plain("high_recon", setup_carekv("32", "4", absolute(4, 4, 2, 2)))>>
eval_reconstruction_pareto_ppl_validation ==
  Driver(CANDIDATES, [refs |-> {"base_quant_INT3", "per_page_current"}])

\* eval_lowrank_dense.py
lowrank_build(rank) ==
  Adapter("care", [PREFILL_MODE |-> "base_quant", BASE_BITS |-> "3", PACKED_BASE |-> "1", SCALE_QUANT |-> "int8",
                   GROUP_SIZE |-> "32", LOWRANK_RANK |-> rank, LOWRANK_KIND |-> "both"] @@ absolute(0, 0, 0, 0), "")
eval_lowrank_dense ==
  Driver([i \in 1..5 |-> LET r == <<"0", "1", "2", "4", "8">>[i] IN Plain(r, lowrank_build(r))], [catch |-> "row"])

\* diag_router_bottleneck.py and the sweep over its build
bottleneck_build(mode, sketch, impl) ==
  Adapter("care", [PREFILL_MODE |-> mode, CORRECTION_IMPL |-> impl, BASE_BITS |-> "3", GROUP_SIZE |-> "32",
                   SKETCH_DIM |-> sketch] @@ absolute(2, 4, 2, 2) @@ paper_best, "")
bottleneck_arms ==
  <<Plain("fp16", bottleneck_build("fp", "16", "vectorized")),
    Plain("base_int3", bottleneck_build("base_quant", "16", "vectorized")),
    Plain("vec_sk16", bottleneck_build("carekv_stored", "16", "vectorized")),
    Plain("vec_sk32", bottleneck_build("carekv_stored", "32", "vectorized")),
    Plain("vec_sk64", bottleneck_build("carekv_stored", "64", "vectorized")),
    Plain("cached_sk16", bottleneck_build("carekv_stored", "16", "cached"))>>
diag_router_bottleneck == Driver(bottleneck_arms, [before |-> {"PREFILL_RESIDUAL_RATIO"}])
eval_router_prefilter_sweep ==
  Driver([i \in 1..6 |-> LET c == <<"0", "4", "8", "16", "32", "64">>[i] IN
            Arm(c, [ROUTER_PREFILTER_C |-> c], bottleneck_build("carekv_stored", "32", "vectorized"))],
         [start |-> [ROUTER_SIGN_PREFILTER_B |-> "0"], before |-> {"PREFILL_RESIDUAL_RATIO"}])

-----------------------------------------------------------------------------
\* A CacheConfig from arguments: the environment reaches the run through the
\* variables the kernels read.
literal(writes) == Adapter("literal", writes, "")
stored(policy, impl) ==
  [PREFILL_MODE |-> "carekv_stored", PREFILL_RESIDUAL_KIND |-> "both", K_CORRECTION_SCALE |-> "0.05",
   SCORE_NORMALIZE |-> "1", ROUTE_POLICY |-> policy, CORRECTION_IMPL |-> impl,
   STORE_BUDGET_MODE |-> "absolute", READ_BUDGET_MODE |-> "absolute"]

absolute_run_cell == literal(stored("joint", "cached"))
eval_absolute_budget_sweep ==
  Driver([i \in 1..8 |-> Plain(<<"invariant_zero", "balanced_1", "k_heavy_2_1", "v_heavy_1_2", "balanced_2",
                                 "k_heavy_4_2", "v_heavy_2_4", "balanced_4">>[i], absolute_run_cell)], [catch |-> "row"])

\* LAYER_SENSITIVITY is written or popped first
layer_run_one(policy, sensitivity) ==
  literal(sensitivity @@ [BUDGET_POLICY |-> policy] @@ stored("joint", "cached"))
eval_layer_budget_policies ==
  Driver(<<Plain("uniform_baseline", layer_run_one("uniform", NoEnv)),
           Plain("u_shaped_builtin", layer_run_one("u_shaped", NoEnv)),
           Plain("sensitivity_sharp_u", layer_run_one("sensitivity", [LAYER_SENSITIVITY |-> "sharp_u"])),
           Plain("sensitivity_default_uni", layer_run_one("sensitivity", NoEnv))>>,
         [before |-> {"LAYER_SENSITIVITY"}, catch |-> "raise"])

_ppl_run(k, policy, impl) ==
  literal(kind(k) @@ [SCORE_NORMALIZE |-> IF policy = "joint" THEN "1" ELSE "0"]
          @@ absolute(4, 4, 2, 2) @@ stored(policy, impl))
route_arms ==
  [i \in 1..24 |->
     LET k == <<"v", "k", "both">>[1 + ((i - 1) \div 8)]
         policy == <<"separate", "joint", "k_first", "adaptive">>[1 + (((i - 1) \div 2) % 4)]
         impl == <<"python", "cached">>[1 + ((i - 1) % 2)] IN
     Plain(k \o policy \o impl, _ppl_run(k, policy, impl))]
eval_route_policies == Driver(route_arms, [catch |-> "raise"])

vectorization_run_one(impl) == literal([BUDGET_POLICY |-> "uniform"] @@ stored("separate", impl))
eval_prefill_vectorization ==
  Driver([i \in 1..3 |-> LET impl == <<"python", "cached", "vectorized">>[i] IN Plain(impl, vectorization_run_one(impl))],
         [points |-> 2])

\* bench_latency.py: fp16, then base and CARE-KV at two widths, per prompt length
latency_base == literal([PREFILL_MODE |-> "base_quant"])
latency_stored ==
  literal([PREFILL_MODE |-> "carekv_stored", PREFILL_RESIDUAL_KIND |-> "both", ROUTE_POLICY |-> "joint",
           SCORE_NORMALIZE |-> "1", CORRECTION_IMPL |-> "cached"])
bench_latency ==
  Driver(<<Plain("fp16", FP16Adapter), Plain("base_quant_int3", latency_base), Plain("carekv_stored_int3", latency_stored),
           Plain("base_quant_int2", latency_base), Plain("carekv_stored_int2", latency_stored)>>,
         [points |-> 2, header |-> "first"])

\* scripts/run_long_context_retrieval.py: three tasks
_make_model(mode, k) ==
  literal([PREFILL_MODE |-> mode, PREFILL_RESIDUAL_KIND |-> k, ROUTE_POLICY |-> "joint", SCORE_NORMALIZE |-> "1",
           CORRECTION_IMPL |-> "cached", K_CORRECTION_SCALE |-> "0.05"])
retrieval_run_cell == [catch |-> "row"]
run_long_context_retrieval ==
  Driver(<<Plain("fp16", FP16Adapter), Plain("base_quant_int3", _make_model("base_quant", "both")),
           Plain("carekv_int3_both", _make_model("carekv_stored", "both")),
           Plain("carekv_int3_v_only", _make_model("carekv_stored", "v")),
           Plain("carekv_int3_k_only", _make_model("carekv_stored", "k"))>>,
         [points |-> 3] @@ retrieval_run_cell)

\* sweep_bgtq_config.py: configurations over one calibrated Block-GTQ; B is a column
\* of the other rows.  run_one gives a failed arm the perplexity 0; of B that ends
\* the process when the first delta is divided by it.
bgtq_run_cfg(name, kcg, vtb, g, kmode, rb) ==
  Arm(name, [K_CORRECTION_MODE |-> kmode, RESIDUAL_BITS |-> rb],
      vectorized(granularity(kcg, vtb) @@ budgets(g[1], g[2], g[3], g[4])
                 @@ on("blockgtq_style", "post_rope")))
CONFIGS ==
  <<bgtq_run_cfg("B", 32, 4, <<0, 0, 0, 0>>, "linear", "4"),
    bgtq_run_cfg("cur", 32, 4, <<2, 4, 2, 2>>, "linear", "4"),
    bgtq_run_cfg("cur_rb8", 32, 4, <<2, 4, 2, 2>>, "linear", "8"),
    bgtq_run_cfg("finer_rb4", 8, 1, <<16, 16, 16, 16>>, "exact", "4"),
    bgtq_run_cfg("finer_rb8", 8, 1, <<16, 16, 16, 16>>, "exact", "8"),
    bgtq_run_cfg("fine_rb8", 16, 2, <<8, 8, 8, 8>>, "exact", "8")>>
sweep_bgtq_config ==
  Driver(CONFIGS, [catches |-> [B |-> "raise"], after |-> {"K_CORRECTION_MODE"}, refs |-> {"B"}])
=============================================================================
