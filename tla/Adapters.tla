------------------------------ MODULE Adapters ------------------------------
\* The method adapters of the evaluation harness (baselines/*.py).  An adapter
\* configures CARE-KV through the process environment: setup_model writes
\* variables and nothing removes them again.  The cache freezes some of them in
\* its CacheConfig, the kernels read the others at every forward pass.
\* An environment is a function from the variables that are set, named without
\* the prefix CAREKV_, to their texts.
EXTENDS Sequences, TLC

\* CacheConfig fields that apply_carekv_env_overrides takes from the environment.
ConfigKnobs ==
  {"PAGE_SIZE", "V_TOKEN_BLOCK", "K_CHANNEL_GROUP", "SKETCH_DIM", "GROUP_SIZE", "MAX_PAGES",
   "BASE_BITS", "RESIDUAL_BITS", "STORE_BUDGET", "READ_BUDGET", "PACKED_BASE", "SCALE_DTYPE",
   "SCALE_QUANT", "ROUTE_POLICY", "STORE_BUDGET_MODE", "READ_BUDGET_MODE", "STORE_BUDGET_K",
   "STORE_BUDGET_V", "READ_BUDGET_K", "READ_BUDGET_V", "STORE_ABS_K", "STORE_ABS_V", "READ_ABS_K",
   "READ_ABS_V", "CORRECTION_IMPL", "PACK_IMPL", "BUDGET_POLICY", "VDOM_OPTIMIZED",
   "READ_RELATIVE_THRESHOLD", "READ_ABSOLUTE_THRESHOLD", "READ_MIN_KEEP",
   "READ_SCORE_TEMPERATURE", "CORRECTION_NORM_CLIP", "BASE_QUANTIZER", "K_BITS", "V_BITS",
   "K_STORE_MODE", "BASELINE_SCORE", "LAYER_SENSITIVITY"}

\* Variables the layers, the attention, the router and the store read as they run.
LiveKnobs ==
  {"PREFILL_MODE", "PREFILL_RESIDUAL_KIND", "PREFILL_RESIDUAL_RATIO", "K_CORRECTION_SCALE",
   "SCORE_NORMALIZE", "V_SCORE", "LOWRANK_RANK", "LOWRANK_KIND",
   "MIXEDPREC_HI_FRAC", "MIXEDPREC_BITS_HI", "MIXEDPREC_BITS_LO", "MIXEDPREC_SALIENCY",
   "EVICT_KEEP_RATIO", "EVICT_POLICY", "EVICT_RECENT", "EVICT_SINK",
   "K_CORRECTION_MODE", "CHUNKED_CORRECTION", "CHUNK_SIZE", "KSCORE_LIVE",
   "ROUTER_PREFILTER_C", "ROUTER_SIGN_PREFILTER_B", "SELECTOR_VARIANT", "POSITION_POLICY",
   "STORE_POLICY", "VECTORIZED_RESIDUAL", "VECTORIZE_VDOM_ONLY"}

\* What an unset variable means, where some driver also writes that value.
Defaults ==
  [BASE_QUANTIZER |-> "uniform", K_STORE_MODE |-> "post_rope", BUDGET_POLICY |-> "uniform",
   BASELINE_SCORE |-> "carekv", READ_RELATIVE_THRESHOLD |-> "0.0",
   READ_ABSOLUTE_THRESHOLD |-> "0.0", READ_MIN_KEEP |-> "0", READ_SCORE_TEMPERATURE |-> "1.0",
   CORRECTION_NORM_CLIP |-> "0.0", K_CHANNEL_GROUP |-> "32", V_TOKEN_BLOCK |-> "4",
   K_CORRECTION_MODE |-> "linear", KSCORE_LIVE |-> "0", SELECTOR_VARIANT |-> "current",
   CHUNKED_CORRECTION |-> "0", ROUTER_PREFILTER_C |-> "0", ROUTER_SIGN_PREFILTER_B |-> "0",
   LOWRANK_RANK |-> "0", LOWRANK_KIND |-> "both", EVICT_KEEP_RATIO |-> "1.0",
   MIXEDPREC_HI_FRAC |-> "0"]

\* An empty text counts as unset.
Empty == ""
Value(env, k) ==
  IF k \in DOMAIN env /\ env[k] # Empty THEN env[k]
  ELSE IF k \in DOMAIN Defaults THEN Defaults[k] ELSE "unset"

NoEnv == <<>>
Without(env, ks) == [k \in DOMAIN env \ ks |-> env[k]]
Updated(env, writes) ==
  [k \in DOMAIN env \union DOMAIN writes |-> IF k \in DOMAIN writes THEN writes[k] ELSE env[k]]

-----------------------------------------------------------------------------
\* An adapter: how it measures, what setup_model writes to the environment, and
\* whether it replaces modeling_llama.apply_rotary_pos_emb until teardown.
\*   hf       the unmodified or monkey-patched HF model, no CARE-KV cache
\*   care     CAREKVLayer with a CacheConfig after apply_carekv_env_overrides
\*   literal  CAREKVLayer with a CacheConfig built from arguments alone
\*   stub     an unsupported method: a row is written, nothing is measured
Adapter(how, writes, patch) == [how |-> how, writes |-> writes, rope |-> patch]

FP16Adapter == Adapter("hf", NoEnv, "")
KIVIStyleAdapter == Adapter("hf", NoEnv, "kivi_style")
RotateKVStyleAdapter == Adapter("hf", NoEnv, "rotatekv_style")
KVQuantStyleAdapter(k_store_mode) ==
  Adapter("hf", NoEnv, IF k_store_mode = "post_rope" THEN "kvquant_style" ELSE "")
\* patches the forward of its own attention modules only
TurboQuantStyleAdapter == Adapter("hf", NoEnv, "")
Unsupported == Adapter("stub", NoEnv, "")

BaseQuantAdapter(bits) ==
  Adapter("care",
    [PREFILL_MODE |-> "base_quant", BASE_BITS |-> bits, GROUP_SIZE |-> "32", PACKED_BASE |-> "1",
     SCALE_QUANT |-> "int8", STORE_BUDGET_MODE |-> "absolute", READ_BUDGET_MODE |-> "absolute",
     STORE_ABS_K |-> "0", STORE_ABS_V |-> "0", READ_ABS_K |-> "0", READ_ABS_V |-> "0"], "")

CAREKVDefaults ==
  [mode |-> "fixed", rel |-> "0.0", sk |-> "2", sv |-> "4", rk |-> "2", rv |-> "2",
   max_rk |-> "4", max_rv |-> "4", bits |-> "3", base_quantizer |-> "uniform",
   k_store_mode |-> "post_rope", correction_impl |-> "cached",
   k_channel_group |-> "32", v_token_block |-> "4"]

ReadWrites(c) ==
  IF c.mode = "adaptive"
    THEN [READ_BUDGET_MODE |-> "adaptive_score", READ_ABS_K |-> c.max_rk, READ_ABS_V |-> c.max_rv,
          READ_RELATIVE_THRESHOLD |-> c.rel]
    ELSE [READ_BUDGET_MODE |-> "absolute", READ_ABS_K |-> c.rk, READ_ABS_V |-> c.rv,
          READ_RELATIVE_THRESHOLD |-> "0.0"]

\* opts: the keyword arguments that differ from the constructor's defaults.
CAREKVAdapter(opts) ==
  LET c == opts @@ CAREKVDefaults IN
  Adapter("care",
    [PREFILL_MODE |-> "carekv_stored", PREFILL_RESIDUAL_KIND |-> "both", ROUTE_POLICY |-> "joint",
     SCORE_NORMALIZE |-> "1", CORRECTION_IMPL |-> c.correction_impl, BUDGET_POLICY |-> "uniform",
     PACKED_BASE |-> "1", SCALE_QUANT |-> "int8", BASE_BITS |-> c.bits, GROUP_SIZE |-> "32",
     STORE_BUDGET_MODE |-> "absolute", STORE_ABS_K |-> c.sk, STORE_ABS_V |-> c.sv,
     BASE_QUANTIZER |-> c.base_quantizer, K_BITS |-> c.bits, V_BITS |-> c.bits,
     K_STORE_MODE |-> c.k_store_mode, K_CHANNEL_GROUP |-> c.k_channel_group,
     V_TOKEN_BLOCK |-> c.v_token_block,
     READ_ABSOLUTE_THRESHOLD |-> "0.0", READ_MIN_KEEP |-> "0"] @@ ReadWrites(c), "")

-----------------------------------------------------------------------------
\* What a measurement depends on.

\* CacheConfig(**kw): the knobs frozen when the model is built.
Frozen(adapter, env) ==
  IF adapter.how = "care" THEN [k \in ConfigKnobs |-> Value(env, k)] ELSE NoEnv

Group(live, switch, off, ks) == IF Value(live, switch) = off THEN {switch} ELSE {switch} \union ks

\* base_quant prefill never selects or reads a residual.
BaseLive(live) ==
  {"PREFILL_MODE"} \union Group(live, "LOWRANK_RANK", "0", {"LOWRANK_KIND"})
  \union Group(live, "MIXEDPREC_HI_FRAC", "0", {"MIXEDPREC_BITS_HI", "MIXEDPREC_BITS_LO", "MIXEDPREC_SALIENCY"})
  \union Group(live, "EVICT_KEEP_RATIO", "1.0", {"EVICT_POLICY", "EVICT_RECENT", "EVICT_SINK"})
BaseConfig(config) ==
  {"BASE_BITS", "GROUP_SIZE", "SCALE_DTYPE", "SCALE_QUANT", "PAGE_SIZE", "BASE_QUANTIZER"}
  \union IF config["BASE_QUANTIZER"] = "uniform" THEN {} ELSE {"K_BITS", "V_BITS", "K_STORE_MODE"}

Relevant(config, env) ==
  LET live == [k \in LiveKnobs |-> Value(env, k)]
      fixed == DOMAIN config = {} IN
  IF Value(env, "PREFILL_MODE") = "base_quant"
    THEN [live |-> BaseLive(env), config |-> IF fixed THEN {} ELSE BaseConfig(config)]
    ELSE [live |-> (LiveKnobs \ {"LOWRANK_KIND", "MIXEDPREC_BITS_HI", "MIXEDPREC_BITS_LO",
                                 "MIXEDPREC_SALIENCY", "EVICT_POLICY", "EVICT_RECENT", "EVICT_SINK"})
                   \union BaseLive(env),
          config |-> IF fixed THEN {}
                     ELSE (ConfigKnobs \ {"K_BITS", "V_BITS", "K_STORE_MODE"}) \union BaseConfig(config)]

\* rope: the replacements of apply_rotary_pos_emb that are in force, outermost last.
Effective(adapter, config, env, rope) ==
  IF adapter.how = "hf" THEN [rope |-> rope]
  ELSE LET r == Relevant(config, env) IN
       [rope |-> rope,
        live |-> [k \in r.live |-> Value(env, k)],
        config |-> [k \in r.config |-> config[k]]]
=============================================================================
