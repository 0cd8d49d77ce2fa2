----------------------------- MODULE StoreBudget -----------------------------
(***************************************************************************)
(* Store-time budgets against the arenas that must hold what they admit.   *)
(*                                                                         *)
(* CAREKVCache sizes the residual arenas once, from the global budgets     *)
(* (cache.py).  process_page resolves the budget of each page from the     *)
(* same settings, the layer's multiplier and the store policy              *)
(* (residual_store.py), and takes that many slots out of arenas shared by  *)
(* all layers and heads.  Nothing gives a slot back.  The memory estimator *)
(* (utils.py) counts the slots a third time, from a sequence length alone. *)
(*                                                                         *)
(* Ratios are in units of 1/Den.  A layer's multiplier is the fraction     *)
(* L * weight / total weight: its mean over the layers is 1.               *)
(***************************************************************************)
EXTENDS Integers, Functions, Rounding

CONSTANTS
  Configs,         \* the configurations in use, see ConfigShape
  Den,             \* denominator of the ratios
  NumKvHeads, MaxPages,
  NumCG, NumVB,    \* K and V residual candidates of a page
  MinSlots         \* the least size of an arena: 64

None == -1         \* an override that is not set

ConfigShape ==
  [L : Nat \ {0},
   budget_policy : {"uniform", "u_shaped", "sensitivity"},
   store_policy : {"joint", "per_kind", "residual_kind_aware"},
   kind : {"k", "v", "both"},
   mode : {"ratio", "absolute"},
   abs_k : Nat, abs_v : Nat,
   ratio : Nat, ratio_k : Nat \cup {None}, ratio_v : Nat \cup {None},
   k_frac : Nat, v_frac : Nat, min_per_kind : Nat,   \* CAREKV_STORE_*
   vdom_optimized : BOOLEAN]                         \* no arena for K

(* layer_sensitivity of the policy "sensitivity": uneven, one layer at 0.  *)
CONSTANT Sensitivity(_, _)

ASSUME BudgetAssumption ==
  /\ \A c \in Configs : c \in ConfigShape
  /\ {Den, NumKvHeads, MaxPages} \subseteq Nat \ {0}
  /\ {NumCG, NumVB, MinSlots} \subseteq Nat
  /\ \A c \in Configs : \A l \in 0 .. c.L - 1 : Sensitivity(c.L, l) \in Nat

VARIABLES
  cfg,       \* the configuration
  pages,     \* pages stored, per layer and head
  reopened,  \* whether the page a prompt ended in has been stored again
  used_k, used_v,   \* slots taken from each arena
  phase      \* "running", or "slots_full" when an allocation failed

vars == <<cfg, pages, reopened, used_k, used_v, phase>>

Layers(c) == 0 .. c.L - 1
Lanes     == Layers(cfg) \X (0 .. NumKvHeads - 1)

Dist(a, b)  == IF a < b THEN b - a ELSE a - b

-------------------------------------------------------------------------------
(* layer_budget_multiplier *)

(* 0.5 + 1.5 * |2 l / (L - 1) - 1|, times 2 (L - 1). *)
UWeight(L, l) == (L - 1) + 3 * Dist(2 * l, L - 1)

Weight(c, l) ==
  IF c.L = 1 \/ c.budget_policy = "uniform" THEN 1
  ELSE IF c.budget_policy = "u_shaped" THEN UWeight(c.L, l)
  ELSE Sensitivity(c.L, l)

TotalWeight(c) == SumFunction([l \in Layers(c) |-> Weight(c, l)])

(* The multiplier as numerator and denominator; uniform when all weights   *)
(* are zero.                                                               *)
Multiplier(c, l) ==
  IF TotalWeight(c) = 0 THEN [num |-> 1, den |-> 1]
  ELSE [num |-> c.L * Weight(c, l), den |-> TotalWeight(c)]

-------------------------------------------------------------------------------
(* process_page *)

UsesK(c) == ~ (c.store_policy = "residual_kind_aware" /\ c.kind = "v")
UsesV(c) == ~ (c.store_policy = "residual_kind_aware" /\ c.kind = "k")

(* Mutant: int() instead of round(). *)
AbsBudget_floor(c, l, slots) ==
  LET m == Multiplier(c, l) IN (slots * m.num) \div m.den

AbsBudget(c, l, slots) == LET m == Multiplier(c, l) IN Round(slots * m.num, m.den)

(* What a ratio admits of a layer's share of total candidates. *)
Share(c, l, total, ratio, frac) ==
  LET m == Multiplier(c, l)
  IN (Most(1, total) * ratio * frac * m.num) \div (Den * Den * m.den)

RatioBudget(c, l, override, frac, total) ==
  LET ratio == IF override = None THEN c.ratio ELSE override
  IN IF ratio * frac * Multiplier(c, l).num = 0 THEN 0
     ELSE Most(c.min_per_kind, Share(c, l, total, ratio, frac))

k_budget(c, l) == IF ~ UsesK(c) THEN 0
                 ELSE IF c.mode = "absolute" THEN AbsBudget(c, l, c.abs_k)
                 ELSE RatioBudget(c, l, c.ratio_k, c.k_frac, NumCG)

v_budget(c, l) == IF ~ UsesV(c) THEN 0
                 ELSE IF c.mode = "absolute" THEN AbsBudget(c, l, c.abs_v)
                 ELSE RatioBudget(c, l, c.ratio_v, c.v_frac, NumVB)

joint_budget(c, l) ==
  IF c.mode = "absolute" THEN k_budget(c, l) + v_budget(c, l)
  ELSE LET m == Multiplier(c, l) IN
       Most(1, ((Most(1, NumCG) + Most(1, NumVB)) * c.ratio * m.num) \div (Den * m.den))

StoresNothing(c) == c.mode = "ratio" /\ c.ratio = 0 /\ c.ratio_k <= 0 /\ c.ratio_v <= 0

(* The numbers of K and V slots process_page may take for one page: as     *)
(* many as the budgets admit, fewer when residuals vanish.                 *)
Takes(c, l) ==
  IF StoresNothing(c) THEN {<<0, 0>>}
  ELSE IF c.store_policy = "joint"
    THEN LET b == joint_budget(c, l)
         IN {t \in (0 .. NumCG) \X (0 .. NumVB) : t[1] + t[2] <= b}
  ELSE (0 .. Least(k_budget(c, l), NumCG)) \X (0 .. Least(v_budget(c, l), NumVB))

-------------------------------------------------------------------------------
(* The cache *)

(* Mutant: the estimate forgets that a page may be stored twice. *)
max_slots_once(c) ==
  LET lanes == MaxPages * NumKvHeads * c.L
  IN Most(MinSlots, Most((lanes * c.ratio * 4) \div Den, lanes * (c.abs_k + c.abs_v)))

(* The size of the V arena, and of the K arena that is not left out. *)
max_slots(c) ==
  LET lanes == MaxPages * NumKvHeads * c.L
  IN Most(MinSlots, Most((lanes * c.ratio * 4) \div Den, lanes * (c.abs_k + c.abs_v) * 2))

k_slots(c) == IF c.vdom_optimized THEN 0 ELSE max_slots(c)

Init == /\ cfg \in Configs
        /\ pages = [c \in Lanes |-> 0]
        /\ reopened = [c \in Lanes |-> FALSE]
        /\ used_k = 0 /\ used_v = 0
        /\ phase = "running"

Fits(k, v) == used_k + k <= k_slots(cfg) /\ used_v + v <= max_slots(cfg)

(* What process_page admits of a page of lane c is taken from the arenas.  *)
TakeSlots(c) ==
  \E t \in Takes(cfg, c[1]) :
    /\ Fits(t[1], t[2])
    /\ used_k' = used_k + t[1] /\ used_v' = used_v + t[2]

(* A page of lane c is filled by a prefill or by decode steps. *)
NewPage(c) == pages[c] < MaxPages

(* Decode steps fill the page the prompt ended in: it is stored again, and *)
(* its first slots are not freed.                                          *)
OpenPage(c) == pages[c] > 0 /\ ~ reopened[c]

StorePage(c) == /\ phase = "running" /\ NewPage(c)
                /\ pages' = [pages EXCEPT ![c] = @ + 1]
                /\ TakeSlots(c)
                /\ UNCHANGED <<cfg, reopened, phase>>

StoreAgain(c) == /\ phase = "running" /\ OpenPage(c)
                 /\ reopened' = [reopened EXCEPT ![c] = TRUE]
                 /\ TakeSlots(c)
                 /\ UNCHANGED <<cfg, pages, phase>>

(* An arena runs dry on a page of lane c: the slots taken before the        *)
(* allocation failed stay taken, and the page has no metadata.              *)
ArenaDry(c) == /\ phase = "running" /\ (NewPage(c) \/ OpenPage(c))
               /\ phase' = "slots_full"
               /\ \E t \in Takes(cfg, c[1]) :
                    /\ ~ Fits(t[1], t[2])
                    /\ \E k \in 0 .. t[1], v \in 0 .. t[2] :
                         Fits(k, v) /\ used_k' = used_k + k /\ used_v' = used_v + v
               /\ UNCHANGED <<cfg, pages, reopened>>

(* A prompt replaces the cache.                                            *)
NewCache == /\ pages' = [c \in Lanes |-> 0]
            /\ reopened' = [c \in Lanes |-> FALSE]
            /\ used_k' = 0 /\ used_v' = 0
            /\ phase' = "running"
            /\ UNCHANGED cfg

(* estimate_memory_bytes at the sequence length that fills n pages: the     *)
(* stored slots of a kind with total candidates in a page.                  *)
(* Mutant: the heads of one layer only. *)
Estimated_layer(c, n, total) == (n * NumKvHeads * total * c.ratio) \div Den

Estimated(c, n, total) == (n * NumKvHeads * c.L * total * c.ratio) \div Den

Next == NewCache \/ \E c \in Lanes : StorePage(c) \/ StoreAgain(c) \/ ArenaDry(c)

Spec == Init /\ [][Next]_vars

-------------------------------------------------------------------------------
(* Properties *)

(* Nothing that admits K residuals may go without a K arena: neither a K    *)
(* budget nor a budget K shares with V.                                     *)
VOnly(c) == ~ UsesK(c) \/ (c.store_policy = "per_kind" /\ c.abs_k = 0)

(* Under absolute budgets the arenas hold whatever the store budgets admit  *)
(* until the pages are full, with all layers drawing on them, the page the  *)
(* prompt ended in stored twice, under every budget policy and store        *)
(* policy; a deployment that stores V only does without a K arena.  The     *)
(* arenas count every slot twice: that covers the page stored twice and the *)
(* half slot a layer's rounding may add from three pages on.  For fewer,    *)
(* only the least size of an arena helps.                                   *)
ArenaSuffices ==
  /\ MaxPages >= 3
  /\ cfg.mode = "absolute"
  /\ cfg.vdom_optimized => VOnly(cfg)
  => phase # "slots_full"

(* A layer policy moves budget between layers and keeps its sum: only the   *)
(* rounding of each layer, at most half a slot, is lost or gained.          *)
TotalPreserved ==
  cfg.mode = "absolute" /\ UsesK(cfg) =>
    LET sum == SumFunction([l \in Layers(cfg) |-> k_budget(cfg, l)])
    IN 2 * Dist(sum, cfg.L * cfg.abs_k) <= cfg.L

(* No layer's ratio budget is raised by min_per_kind, by joint's floor or   *)
(* by its counting a kind without candidates as one.                        *)
NoneLifted(c) ==
  \A l \in Layers(c) :
    IF c.store_policy = "joint"
    THEN /\ NumCG > 0 /\ NumVB > 0
         /\ (NumCG + NumVB) * c.ratio * Multiplier(c, l).num >= Den * Multiplier(c, l).den
    ELSE /\ k_budget(c, l) > 0 => Share(c, l, NumCG, c.ratio, c.k_frac) >= c.min_per_kind
         /\ v_budget(c, l) > 0 => Share(c, l, NumVB, c.ratio, c.v_frac) >= c.min_per_kind

(* In ratio mode the memory the estimator reports for a prompt covers the   *)
(* slots its pages take in all layers, whichever layers a policy favours,   *)
(* as long as no floor lifts a layer, no kind takes more than the ratio and *)
(* no page is stored again; where K and V share one budget, their sum is    *)
(* covered to within a slot.                                                *)
EstimateCoversPages ==
  LET n == CHOOSE m \in 0 .. MaxPages : (\E c \in Lanes : pages[c] = m)
                                       /\ \A c \in Lanes : pages[c] <= m
      stored_k == Estimated(cfg, n, NumCG)
      stored_v == Estimated(cfg, n, NumVB)
  IN /\ phase = "running"
     /\ cfg.mode = "ratio" /\ cfg.ratio_k = None /\ cfg.ratio_v = None
     /\ cfg.k_frac <= Den /\ cfg.v_frac <= Den /\ NoneLifted(cfg)
     /\ \A c \in Lanes : ~ reopened[c]
     =>
       IF cfg.store_policy = "joint" THEN used_k + used_v <= stored_k + stored_v + 1
       ELSE used_k <= stored_k /\ used_v <= stored_v
=============================================================================
