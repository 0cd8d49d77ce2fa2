----------------------------- MODULE MCEvalArms -----------------------------
\* The drivers to check.  eval_rotation_confirm, which leaves its settings in
\* the environment, has a run of its own.
EXTENDS PaperDrivers

Clean ==
  [expansion |-> eval_base_quantizer_expansion, sota |-> eval_sota_direct_comparison,
   stacked |-> eval_carekv_on_base_quantizers, turbo |-> eval_turboquant_bit_sweep,
   kvquant |-> eval_kvquant_carekv_unblock, validation7b |-> eval_7b_validation,
   coverage |-> eval_rotation_coverage_ablation, screening |-> eval_rotation_carekv_screening,
   decode |-> eval_vectorized_carekv_decode, kcorr |-> eval_exact_kcorr,
   combined |-> eval_combined_vs_turbo, stack |-> eval_rotation_stack_screen,
   longctx |-> eval_longctx_ppl, eviction |-> eval_eviction_additivity,
   mixedprec |-> eval_mixedprec_additivity, gqa |-> eval_gqa_scaling,
   budget_ratio |-> eval_budget_experiments(cells_A1_ratio),
   budget_absolute |-> eval_budget_experiments(cells_A2_absolute),
   store_budget |-> eval_budget_experiments(cells_B_store),
   read_budget |-> eval_budget_experiments(cells_C_read),
   kv_balance |-> eval_budget_experiments(cells_D_balance),
   granularity |-> eval_budget_granularity_sweep,
   adaptive_full |-> eval_adaptive_read_budget(synthetic_full),
   adaptive_n4 |-> eval_adaptive_read_budget(wikitext2_n4),
   routing |-> eval_routing_baselines, pareto |-> eval_reconstruction_pareto_ppl_validation,
   lowrank |-> eval_lowrank_dense, bottleneck |-> diag_router_bottleneck,
   prefilter |-> eval_router_prefilter_sweep, absolute |-> eval_absolute_budget_sweep,
   layers |-> eval_layer_budget_policies, routes |-> eval_route_policies,
   vectorization |-> eval_prefill_vectorization, latency |-> bench_latency,
   retrieval |-> run_long_context_retrieval,
   core_ppl |-> cmd_core_ppl, invariant |-> cmd_invariant, budget_sweep |-> cmd_budget_sweep,
   vk_ablation |-> cmd_vk_ablation, memory_pareto |-> cmd_memory_pareto,
   gqa_validation |-> eval_gqa_carekv_validation, kv_memory |-> eval_long_context_kv_memory,
   feasibility |-> eval_long_context_vectorized_feasibility, longbench |-> eval_longbench_real,
   longbench_subset |-> eval_longbench_subset, bgtq |-> sweep_bgtq_config]
Confirm == [confirm |-> eval_rotation_confirm]

\* Every driver but eval_rotation_confirm keeps its arms apart by its table alone.
ASSUME CleanIsolated == \A n \in DOMAIN Clean : Isolated(Clean[n])
ASSUME ConfirmNotIsolated == ~Isolated(eval_rotation_confirm)
=============================================================================
