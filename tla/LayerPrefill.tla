----------------------------- MODULE LayerPrefill -----------------------------
(***************************************************************************)
(* One layer's prefill (layer.py): which quantized base is stored, which   *)
(* base the prompt attends over and which one the residuals are taken      *)
(* against; token eviction; and the loops that give each query of each     *)
(* head its correction.                                                    *)
(*                                                                         *)
(* A base is a name, not a tensor: <<"uniform">>, <<"per_channel">>,       *)
(* <<"rotated", rotation>> or <<"blockgtq_style", head>> for what the page *)
(* loop quantizes itself, <<"pre_rope", base>> and                         *)
(* <<"mixed", tokens kept at bits_hi>> for what the caller precomputes,    *)
(* <<"lowrank", rank, base>>, and <<"exact">>.  A correction is named by   *)
(* the query it was computed for.                                          *)
(***************************************************************************)
EXTENDS Integers, FiniteSets, Rounding

CONSTANTS
  Settings,              \* CacheConfig and the environment, see SettingShape
  Den,                   \* hi_frac, keep_ratio and the ratio are in units of 1/Den
  NumHeads, NumKvHeads,  \* query heads, KV heads
  MaxTokens              \* bound on the length of the prompt

SideBuffered == {"kivi_style", "rotatekv_style", "randrot_style", "kvquant_style",
                 "blockgtq_style"}
Rotations    == {"rotatekv_style", "randrot_style"}
Unset        == -1       \* an environment variable that is not set

SettingShape ==
  [mode : STRING,                       \* CAREKV_PREFILL_MODE
   quantizer : {"uniform"} \cup SideBuffered,
   calibrated : BOOLEAN,                \* Block-GTQ has been calibrated
   roped : BOOLEAN,                     \* RoPE is applied to the whole head
   pre_rope : BOOLEAN,                  \* k_store_mode
   hi : Nat, recent_first : BOOLEAN,    \* CAREKV_MIXEDPREC_*
   rank : Nat, rank_kind : {"k", "v", "both"},    \* CAREKV_LOWRANK_*
   ratio : Nat, min_residuals : Nat,    \* CAREKV_PREFILL_*, for carekv_eval
   keep : Nat, policy : {"h2o", "recent_only"},
   recent : Nat \cup {Unset}, sink : Nat,    \* CAREKV_EVICT_*
   impl : {"python", "cached", "vectorized"},
   any_read_budget : BOOLEAN,
   chunk : Nat]                         \* CAREKV_CHUNK_SIZE, 0 when not chunked

ASSUME PrefillAssumption ==
  /\ Settings \subseteq SettingShape
  /\ {Den, NumHeads, NumKvHeads, MaxTokens} \subseteq Nat \ {0}
  /\ NumHeads % NumKvHeads = 0

VARIABLES
  cfg, T,      \* the setting and the number of tokens
  pc,          \* "write", "attend", "evict", "correct", "done", or "raised"
  head,        \* the KV head or, slot by slot, the query head in progress
  c0,          \* first query of the next chunk
  override,    \* base precomputed for the page loop, <<>> if none
  stored,      \* per KV head written: the base its pages hold
  residuals,   \* per KV head written: the base its residuals are taken against
  base,        \* per query head: the bases of K and V it attends over
  attended,    \* per query position: keys with a positive weight
  delta,       \* per row of the batch: the query its correction was computed for
  out          \* per head and position: the query whose correction was added

vars == <<cfg, T, pc, head, c0, override, stored, residuals, base, attended, delta, out>>

KvHeads  == 0 .. NumKvHeads - 1
QHeads   == 0 .. NumHeads - 1
kv_group == NumHeads \div NumKvHeads
Tokens   == 0 .. T - 1
None     == <<>>

\* The members of S of size n that a topk may return when any score is possible.
AnyOf(S, n) == {U \in SUBSET S : Cardinality(U) = n}
\* ... and when the score is the position.
Latest(S, n) == {x \in S : Cardinality({y \in S : y > x}) < n}

(* Old names of the modes; an unknown one is noticed at the end.            *)
_resolve_prefill_mode(raw) ==
  CASE raw = "carekv" -> "carekv_eval"
    [] raw \in {"quant", "int"} -> "base_quant"
    [] OTHER -> raw

-------------------------------------------------------------------------------
(* Base quantizers: kivi_helpers.py, blockgtq_base.py *)

(* Two of the data-free quantizers are the same function, two rotate the    *)
(* channels first: by a Hadamard matrix, or by one drawn from a fixed seed. *)
Rotation(name) == IF name = "rotatekv_style" THEN "hadamard" ELSE "seeded"

(* calibrate fills the registry with a quantizer for every KV head; before  *)
(* it the registry is empty.                                                *)
calibrate == [h \in KvHeads |-> <<"blockgtq_style", h>>]

_REG(s) == IF s.calibrated THEN calibrate ELSE None

is_calibrated(s) == _REG(s) # None

(* The base of KV head h. *)
dispatch_base_kv_quant(s, h) ==
  CASE s.quantizer \in {"kivi_style", "kvquant_style"} -> <<"per_channel">>
    [] s.quantizer \in Rotations -> <<"rotated", Rotation(s.quantizer)>>
    [] s.quantizer = "blockgtq_style" -> _REG(s)[h]

-------------------------------------------------------------------------------
(* The override of the base *)

prerope_ok(s) == s.pre_rope /\ s.roped /\ s.quantizer \in {"kvquant_style"} \cup Rotations

K_hat_pre_override(s) ==
  IF prerope_ok(s) THEN <<"pre_rope", dispatch_base_kv_quant(s, 0)>> ELSE None

n_hi(s, n) == Most(1, Least(n, Round(s.hi * n, Den)))

(* The bases _mixed_precision_base may return; none when it is off. *)
_mixed_precision_base(s, n) ==
  IF s.hi = 0 \/ s.hi >= Den THEN {}
  ELSE IF s.recent_first THEN {<<"mixed", Latest(0 .. n - 1, n_hi(s, n))>>}
  ELSE {<<"mixed", U>> : U \in AnyOf(0 .. n - 1, n_hi(s, n))}

Init ==
  /\ cfg \in {[s EXCEPT !.mode = _resolve_prefill_mode(@)] : s \in Settings}
  /\ T \in 1 .. MaxTokens
  /\ pc = "write" /\ head = 0 /\ c0 = 0
  /\ override \in IF cfg.roped /\ _mixed_precision_base(cfg, T) # {}
                    THEN _mixed_precision_base(cfg, T) ELSE {K_hat_pre_override(cfg)}
  /\ stored = [h \in KvHeads |-> None] /\ residuals = [h \in KvHeads |-> None]
  /\ base = [q \in QHeads |-> None]
  /\ attended = [i \in Tokens |-> {}]
  /\ delta = [q \in 0 .. kv_group * T - 1 |-> None]
  /\ out = [h \in QHeads |-> [t \in Tokens |-> None]]

-------------------------------------------------------------------------------
(* _write_pages_for_kv_head *)

Quantized(s, h) ==
  IF s.quantizer \in SideBuffered THEN dispatch_base_kv_quant(s, h) ELSE <<"uniform">>

(* Mutant: uniform pages too take the override as their base. *)
Written_override(s, h) == IF override # None THEN override ELSE Quantized(s, h)

(* The base of the pages of head h; it is also what process_page subtracts  *)
(* and what the call returns.  Uniform pages ignore the override.           *)
Written(s, h) ==
  IF s.quantizer \in SideBuffered /\ override # None THEN override ELSE Quantized(s, h)

(* kv_hat: a Block-GTQ that was never calibrated has no base to give. *)
Uncalibrated == cfg.quantizer = "blockgtq_style" /\ override = None /\ ~ is_calibrated(cfg)

WriteHead ==
  /\ pc = "write" /\ ~ Uncalibrated
  /\ stored' = [stored EXCEPT ![head] =
                  IF cfg.quantizer \in SideBuffered THEN Written(cfg, head) ELSE <<"uniform">>]
  /\ residuals' = [residuals EXCEPT ![head] = Written(cfg, head)]
  /\ IF head = NumKvHeads - 1 THEN pc' = "attend" /\ head' = 0
                              ELSE head' = head + 1 /\ UNCHANGED pc
  /\ UNCHANGED <<cfg, T, c0, override, base, attended, delta, out>>

WriteRaises ==
  /\ pc = "write" /\ Uncalibrated
  /\ pc' = "raised"
  /\ UNCHANGED <<cfg, T, head, c0, override, stored, residuals, base, attended, delta, out>>

-------------------------------------------------------------------------------
(* Base attention and eviction *)

(* The dense correction of rank r: of K, of V or of both. *)
_lowrank_correct_eval(s, h) ==
  LET Correct(kind) == IF s.rank_kind \in {kind, "both"} THEN <<"lowrank", s.rank, Written(s, h)>>
                       ELSE Written(s, h)
  IN [k |-> Correct("k"), v |-> Correct("v")]

(* The bases of KV head h as the prompt attends over them. *)
Attended(s, h) ==
  IF s.mode = "fp" THEN [k |-> <<"exact">>, v |-> <<"exact">>]
  ELSE IF s.mode = "base_quant" /\ s.rank > 0 THEN _lowrank_correct_eval(s, h)
  ELSE [k |-> Written(s, h), v |-> Written(s, h)]

(* Everything up to a query has weight, everything after it has none. *)
_causal_attention_pure(n) == [i \in 0 .. n - 1 |-> 0 .. i]

(* Every query head attends over the base of the KV head of its group. *)
Attend ==
  /\ pc = "attend"
  /\ base' = [q \in QHeads |-> Attended(cfg, q \div kv_group)]
  /\ attended' = _causal_attention_pure(T)
  /\ pc' = IF cfg.mode = "fp" THEN "done" ELSE "evict"
  /\ UNCHANGED <<cfg, T, head, c0, override, stored, residuals, delta, out>>

keep_n(s, n) == Most(1, Round(s.keep * n, Den))
RecentWindow(s, n) == IF s.recent = Unset THEN Most(1, n \div 10) ELSE s.recent

(* Mutant: sink tokens compete with the others for the rest. *)
Forced_window(s, n) == {j \in 0 .. n - 1 : j >= n - RecentWindow(s, n)}

(* Sink tokens and the recent window are kept whatever their score. *)
Forced(s, n) == {j \in 0 .. n - 1 : j < s.sink \/ j >= n - RecentWindow(s, n)}

(* Mutant: the forced tokens are not deducted from the budget. *)
Remaining_all(s, n) == keep_n(s, n)

Remaining(s, n) == Most(0, keep_n(s, n) - Cardinality(Forced(s, n)))

Kept(s, n) ==
  LET rest == (0 .. n - 1) \ Forced(s, n)
      more == Least(Remaining(s, n), Cardinality(rest))
  IN {Forced(s, n) \cup U :
        U \in IF s.policy = "recent_only" THEN {Latest(rest, more)} ELSE AnyOf(rest, more)}

(* Evicted keys get -inf, keys after the query only the least finite       *)
(* number: a query that has lost every key before it attends to later ones.*)
Visible(i, kept) ==
  IF (0 .. i) \cap kept # {} THEN (0 .. i) \cap kept ELSE kept

(* Where the layer goes after its base attention. *)
AfterBase(s) ==
  CASE s.mode = "base_quant" \/ (s.mode = "carekv_stored" /\ ~ s.any_read_budget) -> "done"
    [] s.mode = "carekv_eval" \/ (s.mode = "carekv_stored" /\ s.any_read_budget) -> "correct"
    [] OTHER -> "raised"

Evict ==
  /\ pc = "evict"
  /\ IF 0 < cfg.keep /\ cfg.keep < Den
     THEN \E kept \in Kept(cfg, T) :
            attended' = [i \in Tokens |-> IF kept = Tokens THEN attended[i]
                                          ELSE Visible(i, kept)]
     ELSE UNCHANGED attended
  /\ pc' = AfterBase(cfg)
  /\ UNCHANGED <<cfg, T, head, c0, override, stored, residuals, base, delta, out>>

-------------------------------------------------------------------------------
(* Corrections *)

Batched(s) == s.mode = "carekv_stored" /\ s.impl = "vectorized"

NextHead(n) == IF head = n - 1 THEN pc' = "done" /\ UNCHANGED head
                               ELSE head' = head + 1 /\ UNCHANGED pc

(* Slot by slot: head by head, query by query. *)
CorrectHead ==
  /\ pc = "correct" /\ cfg.mode = "carekv_stored" /\ ~ Batched(cfg)
  /\ out' = [out EXCEPT ![head] = [t \in Tokens |-> <<head, t>>]]
  /\ NextHead(NumHeads)
  /\ UNCHANGED <<cfg, T, c0, override, stored, residuals, base, attended, delta>>

(* How many of the n keys up to a query are corrected from residuals in     *)
(* memory; a query that gets none keeps its base output.                    *)
topk(s, n) == Least(Most(s.min_residuals, (n * s.ratio) \div Den), n)

(* _apply_sparse_prefill_correction_eval *)
CorrectEval ==
  /\ pc = "correct" /\ cfg.mode = "carekv_eval"
  /\ out' = [out EXCEPT ![head] = [t \in Tokens |-> IF topk(cfg, t + 1) > 0 THEN <<head, t>>
                                                    ELSE None]]
  /\ NextHead(NumHeads)
  /\ UNCHANGED <<cfg, T, c0, override, stored, residuals, base, attended, delta>>

(* The batch of a KV head: the queries of its heads one after the other. *)
Qn == kv_group * T

QueryAt(kvh, q) == <<kvh * kv_group + q \div T, q % T>>

(* Mutant: a last chunk that is not full is left out. *)
ChunkEnd_full(first) == IF first + cfg.chunk <= Qn THEN first + cfg.chunk ELSE first

ChunkEnd(first) ==
  IF cfg.chunk > 0 /\ Qn > cfg.chunk THEN Least(first + cfg.chunk, Qn) ELSE Qn

(* One chunk of vectorized_joint_correction; the last one of a KV head      *)
(* adds the deltas to the heads of its group.                               *)
CorrectChunk ==
  LET filled == [q \in DOMAIN delta |-> IF c0 <= q /\ q < ChunkEnd(c0)
                                        THEN QueryAt(head, q) ELSE delta[q]]
      heads  == {h \in QHeads : h \div kv_group = head}
      last   == c0 + Most(1, cfg.chunk) >= Qn \/ cfg.chunk = 0
  IN
  /\ pc = "correct" /\ Batched(cfg)
  /\ IF ~ last
     THEN /\ delta' = filled /\ c0' = c0 + cfg.chunk
          /\ UNCHANGED <<out, head, pc>>
     ELSE /\ out' = [h \in QHeads |->
                       IF h \in heads
                       THEN [t \in Tokens |-> filled[(h - head * kv_group) * T + t]]
                       ELSE out[h]]
          /\ delta' = [q \in DOMAIN delta |-> None] /\ c0' = 0
          /\ NextHead(NumKvHeads)
  /\ UNCHANGED <<cfg, T, override, stored, residuals, base, attended>>

Next == WriteHead \/ WriteRaises \/ Attend \/ Evict \/ CorrectHead \/ CorrectEval \/ CorrectChunk

Spec == Init /\ [][Next]_vars

-------------------------------------------------------------------------------
(* Properties *)

(* With corrections, every query head attends over the base the pages of   *)
(* its KV head hold, and the residuals of that head were taken against that *)
(* base, under every quantizer, calibrated per head or not, store mode and  *)
(* per-token precision: what a query adds is what is missing from what it   *)
(* attended.                                                                *)
OneBase ==
  pc \in {"evict", "correct", "done"} /\ cfg.mode \in {"carekv_eval", "carekv_stored"} =>
    \A q \in QHeads :
      LET h == q \div kv_group
      IN stored[h] = residuals[h] /\ base[q] = [k |-> stored[h], v |-> stored[h]]

(* An eviction takes the same keys from every query: a query attends to the *)
(* kept keys up to its own.  Where none of those is kept it attends to      *)
(* later keys, because the causal mask is finite: that happens only without *)
(* sink tokens, outside the recent window, and only to the first queries of *)
(* a prompt, no more than the share that is evicted.                        *)
KeptUpTo(i) == attended[T - 1] \cap (0 .. i)

FirstQuery(i) ==
  /\ 0 < cfg.keep /\ cfg.keep < Den /\ cfg.sink = 0
  /\ i + RecentWindow(cfg, T) < T /\ i + keep_n(cfg, T) < T

CausalUnlessAllEvicted ==
  pc \in {"correct", "done"} =>
    \A i \in Tokens :
      /\ attended[i] # {}
      /\ \/ attended[i] = KeptUpTo(i)
         \/ KeptUpTo(i) = {} /\ attended[i] \subseteq attended[T - 1] /\ FirstQuery(i)

(* The last query attends to as many keys as keep_ratio allows, or to the   *)
(* forced ones when these are more, the recent window among them.           *)
EvictionKeepsItsShare ==
  pc \in {"correct", "done"} /\ 0 < cfg.keep /\ cfg.keep < Den /\ cfg.mode # "fp" =>
    /\ Cardinality(attended[T - 1]) =
         Most(keep_n(cfg, T), Cardinality(attended[T - 1] \cap
           {j \in Tokens : j < cfg.sink \/ T - j <= RecentWindow(cfg, T)}))
    /\ \A j \in Tokens : j < cfg.sink \/ T - j <= RecentWindow(cfg, T) => j \in attended[T - 1]

(* At the end every query of every head has the correction computed for     *)
(* itself, or none where nothing may be read: grouped heads, chunks that    *)
(* cut through a head, and a short last chunk.                              *)
OwnCorrection ==
  pc = "done" =>
    \A h \in QHeads, t \in Tokens :
      out[h][t] = IF \/ cfg.mode = "carekv_eval" /\ topk(cfg, t + 1) > 0
                     \/ cfg.mode = "carekv_stored" /\ cfg.any_read_budget
                  THEN <<h, t>> ELSE None
=============================================================================
