--------------------------- MODULE ResidualRouter ---------------------------
(***************************************************************************)
(* Read-time routing: which stored residuals of a lane one query reads.    *)
(*                                                                         *)
(* Two programs decide it.  ResidualRouter.route (residual_router.py)      *)
(* serves one query of a decode step, or of a prefill with correction_impl *)
(* python or cached.  vectorized_joint_correction (attention.py) serves    *)
(* all queries of a prefill with correction_impl vectorized and is meant   *)
(* to mirror the first.                                                    *)
(*                                                                         *)
(* Scores are small naturals that stand for the real-valued scores after   *)
(* score_normalize, which divides all scores of a kind by one number.      *)
(* Ratios, thresholds and the multiplier of a layer are in units of 1/Den. *)
(***************************************************************************)
EXTENDS Integers, FiniteSetsExt, Rounding

CONSTANTS
  Configs,      \* the configurations in use, each a record as in ConfigShape
  Den,          \* denominator of ratios, thresholds and multipliers
  Scores,       \* the scores a candidate may have
  MaxK, MaxV    \* bounds: stored K and V slots of a lane

None == -1      \* an override that is not set

ConfigShape ==
  [policy : {"joint", "separate", "k_first", "adaptive"},
   mode   : {"ratio", "absolute", "adaptive_score"},
   kind   : {"k", "v", "both"},
   impl   : {"cached", "vectorized"},
   ratio  : Nat, ratio_k : Nat \cup {None}, ratio_v : Nat \cup {None},
   abs_k  : Nat, abs_v : Nat,
   lm     : Nat,             \* layer_budget_multiplier
   rel    : Nat, thr : Nat,  \* read_relative_threshold, read_absolute_threshold
   keep   : Nat,             \* read_min_keep
   pre    : Nat]             \* CAREKV_ROUTER_PREFILTER_C

ASSUME RouterAssumption ==
  /\ Configs \subseteq ConfigShape
  /\ Den \in Nat \ {0} /\ MaxK \in Nat /\ MaxV \in Nat
  /\ Scores \subseteq Nat

VARIABLES
  query,   \* the query being served
  path,    \* the code path that serves it
  reads    \* the slots it reads

vars == <<query, path, reads>>

Candidates(nk, nv) == ({"K"} \X (1 .. nk)) \cup ({"V"} \X (1 .. nv))
IsK(c) == c[1] = "K"
IsV(c) == c[1] = "V"

(* score: of every stored slot, in the order pages and groups are walked;  *)
(* bound: the cheap proxy of the K scores that the pre-filter ranks by;    *)
(* v_frac: the normalised entropy of the attention weights.                *)
Queries ==
  UNION {[cfg : {cfg}, score : [Candidates(nk, nv) -> Scores],
          bound : IF cfg.pre = 0 THEN {[c \in Candidates(nk, 0) |-> 0]}
                  ELSE [Candidates(nk, 0) -> Scores],
          v_frac : IF cfg.policy = "adaptive" THEN 0 .. Den ELSE {0}] :
         cfg \in Configs, nk \in 0 .. MaxK, nv \in 0 .. MaxV}

Stored(q) == DOMAIN q.score
AllK(q) == {c \in Stored(q) : IsK(c)}
AllV(q) == {c \in Stored(q) : IsV(c)}

-------------------------------------------------------------------------------
(* Ranking *)

(* sort(reverse=True) is stable: equal scores keep the order of the list.  *)
(* The list has K before V, each in walk order; the pre-filter leaves its  *)
(* K shortlist in descending order of the proxy.                           *)
Earlier(q, c, d) ==
  \/ IsK(c) /\ IsV(d)
  \/ c[1] = d[1] /\ c[2] < d[2] /\ (IsK(c) => q.bound[c] >= q.bound[d])
  \/ IsK(c) /\ IsK(d) /\ q.bound[c] > q.bound[d]

Beats(q, c, d) == q.score[c] > q.score[d] \/ (q.score[c] = q.score[d] /\ Earlier(q, c, d))

(* Mutant: the reverse=True of the sort is forgotten. *)
TopN_ascending(q, S, n) == {c \in S : Cardinality({d \in S : Beats(q, c, d)}) < n}

(* The first n elements of S in descending order of score. *)
TopN(q, S, n) == {c \in S : Cardinality({d \in S : Beats(q, d, c)}) < n}

-------------------------------------------------------------------------------
(* Read budgets *)

Resolved(override, fallback) == IF override < 0 THEN fallback ELSE override

KindBudget(cfg, abs, override, total) ==
  LET ratio == Resolved(override, cfg.ratio) * cfg.lm IN
  IF cfg.mode \in {"absolute", "adaptive_score"}
    THEN Least(Round(abs * cfg.lm, Den), total)
  ELSE IF ratio > 0 /\ total > 0
    THEN Least(Most(1, (total * ratio) \div (Den * Den)), total)
  ELSE 0

BudgetK(cfg, total) ==
  IF cfg.kind = "v" THEN 0 ELSE KindBudget(cfg, cfg.abs_k, cfg.ratio_k, total)
BudgetV(cfg, total) ==
  IF cfg.kind = "k" THEN 0 ELSE KindBudget(cfg, cfg.abs_v, cfg.ratio_v, total)

MergedBudget(bk, bv) == IF bk > 0 /\ bv > 0 THEN bk + bv ELSE Most(bk, bv)

-------------------------------------------------------------------------------
(* ResidualRouter.route *)

(* The K candidates: with a pre-filter the best few by the proxy. *)
Shortlist(q) ==
  IF q.cfg.pre = 0 THEN AllK(q)
  ELSE {c \in AllK(q) : Cardinality({d \in AllK(q) :
          q.bound[d] > q.bound[c] \/ (q.bound[d] = q.bound[c] /\ d[2] < c[2])}) < q.cfg.pre}

KCands(q) == IF q.cfg.kind = "v" THEN {} ELSE Shortlist(q)
VCands(q) == IF q.cfg.kind = "k" THEN {} ELSE AllV(q)

JointReads(q, bk, bv) == TopN(q, KCands(q) \cup VCands(q), MergedBudget(bk, bv))

(* Mutant: what K has used is taken from the V budget alone. *)
KFirstReads_from_v(q, bk, bv) ==
  LET k == TopN(q, KCands(q), bk)
  IN k \cup TopN(q, VCands(q), Most(0, bv - Cardinality(k)))

(* Mutant: what K has used is not taken from the allowance. *)
KFirstReads_full(q, bk, bv) ==
  TopN(q, KCands(q), bk) \cup TopN(q, VCands(q), bk + bv)

(* K first; what is left of both budgets goes to V scores not below the    *)
(* mean.                                                                   *)
KFirstReads(q, bk, bv) ==
  LET k     == TopN(q, KCands(q), bk)
      total == MapThenSumSet(LAMBDA c : q.score[c], VCands(q))
      good  == {c \in VCands(q) : q.score[c] * Cardinality(VCands(q)) >= total}
  IN k \cup TopN(q, good, Most(0, bk + bv - Cardinality(k)))

(* Mutant: the shares of K and V are rounded up independently. *)
AdaptiveReads_up(q, bk, bv) ==
  LET up(n) == (n + Den - 1) \div Den
  IN TopN(q, KCands(q), up((bk + bv) * (Den - q.v_frac)))
       \cup TopN(q, VCands(q), up((bk + bv) * q.v_frac))

(* The sum of the budgets is divided by the entropy of the attention. *)
AdaptiveReads(q, bk, bv) ==
  LET v == Round((bk + bv) * q.v_frac, Den)
  IN TopN(q, KCands(q), bk + bv - v) \cup TopN(q, VCands(q), v)

SeparateReads(q, bk, bv) == TopN(q, KCands(q), bk) \cup TopN(q, VCands(q), bv)

PolicyReads(q, bk, bv) ==
  CASE q.cfg.policy = "joint"    -> JointReads(q, bk, bv)
    [] q.cfg.policy = "k_first"  -> KFirstReads(q, bk, bv)
    [] q.cfg.policy = "adaptive" -> AdaptiveReads(q, bk, bv)
    [] OTHER                     -> SeparateReads(q, bk, bv)

(* Mutant: the floor keeps the first candidates of the walk, not the best. *)
AboveThreshold_first(q, S) ==
  LET kept == {c \in S : q.score[c] >= q.cfg.thr
                 /\ \A d \in S : q.score[c] * Den >= q.cfg.rel * q.score[d]}
  IN IF Cardinality(kept) < q.cfg.keep
     THEN {c \in S : Cardinality({d \in S : d[2] < c[2]}) < q.cfg.keep} ELSE kept

(* adaptive_score: the selected slots of one kind that reach both          *)
(* thresholds, or the best read_min_keep of them.                          *)
AboveThreshold(q, S) ==
  LET kept == {c \in S : q.score[c] >= q.cfg.thr
                 /\ \A d \in S : q.score[c] * Den >= q.cfg.rel * q.score[d]}
  IN IF Cardinality(kept) < q.cfg.keep THEN TopN(q, S, q.cfg.keep) ELSE kept

route(q) ==
  LET bk == BudgetK(q.cfg, Cardinality(KCands(q)))
      bv == BudgetV(q.cfg, Cardinality(VCands(q)))
      selected == PolicyReads(q, bk, bv)
  IN IF bk = 0 /\ bv = 0 THEN {}
     ELSE IF q.cfg.mode = "adaptive_score"
       THEN AboveThreshold(q, selected \cap AllK(q))
              \cup AboveThreshold(q, selected \cap AllV(q))
     ELSE selected

-------------------------------------------------------------------------------
(* vectorized_joint_correction *)

(* The score torch.topk sees: a K slot off the shortlist is masked with -inf. *)
MaskedScore(q, keep, c) == IF IsV(c) \/ c \in keep THEN q.score[c] ELSE -1

(* Mutant: selects by the n-th score as a threshold, with all its ties. *)
TopSets_ties(Key, S, n) == {{c \in S : Cardinality({d \in S : Key[d] > Key[c]}) < n}}

(* What torch.topk may return on scores Key: it promises nothing of ties. *)
TopSets(Key, S, n) ==
  {T \in SUBSET S : /\ Cardinality(T) = Least(n, Cardinality(S))
                    /\ \A c \in T, d \in S \ T : Key[c] >= Key[d]}

(* The pre-filter is off when it would keep every K slot. *)
Shortlists(q) ==
  IF 0 < q.cfg.pre /\ q.cfg.pre < Cardinality(AllK(q))
  THEN TopSets(q.bound, AllK(q), q.cfg.pre) ELSE {AllK(q)}

vectorized(q) ==
  LET bk == BudgetK(q.cfg, Cardinality(AllK(q)))
      bv == BudgetV(q.cfg, Cardinality(AllV(q)))
      Picks(keep) ==
        LET Key == [c \in Stored(q) |-> MaskedScore(q, keep, c)] IN
        IF q.cfg.policy = "joint" /\ bk > 0 /\ bv > 0
          THEN TopSets(Key, Stored(q), MergedBudget(bk, bv))
          ELSE {k \cup v : k \in TopSets(Key, AllK(q), bk), v \in TopSets(Key, AllV(q), bv)}
  IN UNION {Picks(keep) : keep \in Shortlists(q)}

-------------------------------------------------------------------------------
(* The callers *)

any_read_budget(cfg) ==
  \/ cfg.mode \in {"absolute", "adaptive_score"} /\ (cfg.abs_k > 0 \/ cfg.abs_v > 0)
  \/ cfg.ratio > 0 \/ cfg.ratio_k > 0 \/ cfg.ratio_v > 0

NoQuery == <<>>

Init == query = NoQuery /\ path = "idle" /\ reads = {}

Ask == /\ path = "idle"
       /\ query' \in Queries
       /\ path' \in {"prefill", "decode"}
       /\ UNCHANGED reads

(* Mutant: the gate looks at the ratios alone. *)
PrefillReads_ratio(q) ==
  IF q.cfg.ratio <= 0 THEN {{}}
  ELSE IF q.cfg.impl = "vectorized" THEN vectorized(q) ELSE {route(q)}

(* The stored-slot correction of a prefill, when a read budget is set. *)
PrefillReads(q) ==
  IF ~ any_read_budget(q.cfg) THEN {{}}
  ELSE IF q.cfg.impl = "vectorized" THEN vectorized(q) ELSE {route(q)}

Prefill == /\ path = "prefill"
           /\ reads' \in PrefillReads(query)
           /\ path' = "prefilled"
           /\ UNCHANGED query

(* CAREKVAttention.forward: the gate of a decode step is the ratio alone. *)
Decode == /\ path = "decode"
          /\ reads' = IF query.cfg.ratio > 0 THEN route(query) ELSE {}
          /\ path' = "decoded"
          /\ UNCHANGED query

(* The next query, or the next layer. *)
Return == /\ path \in {"prefilled", "decoded"}
          /\ query' = NoQuery /\ path' = "idle" /\ reads' = {}

Next == Ask \/ Prefill \/ Decode \/ Return

Spec == Init /\ [][Next]_vars

-------------------------------------------------------------------------------
(* Properties *)

Served == path \in {"prefilled", "decoded"}

(* No policy, threshold floor or pre-filter makes a query read more slots  *)
(* than its K and V budgets allow together, whichever code path serves it; *)
(* under policy separate neither kind exceeds its own budget.              *)
ReadsWithinBudget ==
  Served =>
    LET bk == BudgetK(query.cfg, Cardinality(AllK(query)))
        bv == BudgetV(query.cfg, Cardinality(AllV(query)))
    IN /\ Cardinality(reads) <= bk + bv
       /\ query.cfg.policy = "separate" =>
            /\ Cardinality(reads \cap AllK(query)) <= bk
            /\ Cardinality(reads \cap AllV(query)) <= bv

(* Within a kind the reads are the best: no slot is read while one with a  *)
(* higher score is not.  (With a pre-filter the K shortlist is ranked by   *)
(* another score, so this is asked of V only.)                             *)
ReadsAreTop ==
  Served =>
    \A c \in reads, d \in Stored(query) \ reads :
      (c[1] = d[1] /\ (IsV(c) \/ query.cfg.pre = 0)) => query.score[c] >= query.score[d]

(* Raising an absolute read budget never costs a read: what a query reads  *)
(* it also reads with one more K or one more V slot, under every policy    *)
(* and threshold.                                                          *)
MoreBudgetKeepsReads ==
  path = "prefilled" =>
    /\ route(query) \subseteq route([query EXCEPT !.cfg.abs_k = @ + 1])
    /\ route(query) \subseteq route([query EXCEPT !.cfg.abs_v = @ + 1])

(* The short-circuit of a prefill is exact: where no read budget is set    *)
(* the router would not have read anything either, so base_quant results   *)
(* are the results of a correction without reads.                          *)
PrefillGateExact ==
  path = "prefilled" =>
    reads \in (IF query.cfg.impl = "vectorized" THEN vectorized(query) ELSE {route(query)})

(* Where the two prefill implementations are meant to be the same: fixed   *)
(* budgets, no pre-filter, and the selections the batched one knows.       *)
Mirrored(q) ==
  /\ q.cfg.pre = 0 /\ q.cfg.mode # "adaptive_score"
  /\ \/ q.cfg.policy = "separate"
     \/ /\ q.cfg.policy = "joint"
        /\ BudgetK(q.cfg, Cardinality(AllK(q))) > 0
        /\ BudgetV(q.cfg, Cardinality(AllV(q))) > 0

(* There the batched correction may make exactly the selection of the      *)
(* loop over route, up to the order of equal scores.                       *)
VectorizedMirrorsRoute ==
  Served /\ Mirrored(query) => route(query) \in vectorized(query)
=============================================================================
