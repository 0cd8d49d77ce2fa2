------------------------- MODULE ResidualRouterProofs -------------------------
(***************************************************************************)
(* Theorems about ResidualRouter, for every set of configurations, scores  *)
(* and numbers of slots.                                                   *)
(***************************************************************************)
EXTENDS ResidualRouter, CommonLemmas

-------------------------------------------------------------------------------
(* Candidates and their order *)

(* The stored slots of a query, and what is known of each of them. *)
LEMMA QueryShape ==
  ASSUME NEW q \in Queries
  PROVE  /\ q.cfg \in Configs
         /\ q.cfg.policy = "adaptive" => q.v_frac \in 0 .. Den
         /\ IsFiniteSet(Stored(q))
         /\ \A c \in Stored(q) : /\ c = <<c[1], c[2]>>
                                 /\ c[1] \in {"K", "V"} /\ c[2] \in Nat
                                 /\ q.score[c] \in Nat
                                 /\ IsK(c) => q.bound[c] \in Nat
<1> DEFINE Of(cfg, nk, nv) ==
             [cfg : {cfg}, score : [Candidates(nk, nv) -> Scores],
              bound : IF cfg.pre = 0 THEN {[c \in Candidates(nk, 0) |-> 0]}
                      ELSE [Candidates(nk, 0) -> Scores],
              v_frac : IF cfg.policy = "adaptive" THEN 0 .. Den ELSE {0}]
<1>0. q \in UNION {Of(cfg, nk, nv) : cfg \in Configs, nk \in 0 .. MaxK, nv \in 0 .. MaxV}
  BY DEF Queries
<1> HIDE DEF Of
<1>1. PICK cfg \in Configs, nk \in 0 .. MaxK, nv \in 0 .. MaxV : q \in Of(cfg, nk, nv)
  BY <1>0
<1>2. nk \in Nat /\ nv \in Nat /\ Scores \subseteq Nat
  BY RouterAssumption
<1>3. /\ q.cfg = cfg /\ q.score \in [Candidates(nk, nv) -> Scores]
      /\ q.bound \in [Candidates(nk, 0) -> Nat]
      /\ q.cfg.policy = "adaptive" => q.v_frac \in 0 .. Den
  <2>1. q.cfg = cfg /\ q.score \in [Candidates(nk, nv) -> Scores]
    BY <1>1 DEF Of
  <2>2. q.bound \in [Candidates(nk, 0) -> Nat]
    <3>1. CASE cfg.pre = 0
      BY <1>1, <3>1 DEF Of
    <3>2. CASE cfg.pre # 0
      BY <1>1, <1>2, <3>2 DEF Of
    <3> QED
      BY <3>1, <3>2
  <2>3. cfg.policy = "adaptive" => q.v_frac \in 0 .. Den
    BY <1>1 DEF Of
  <2> QED
    BY <2>1, <2>2, <2>3, Zenon
<1>4. Stored(q) = Candidates(nk, nv)
  BY <1>3 DEF Stored
<1>5. IsFiniteSet(Candidates(nk, nv))
  <2>1. IsFiniteSet(1 .. nk) /\ IsFiniteSet(1 .. nv)
    BY <1>2, FS_Interval
  <2>2. IsFiniteSet({"K"}) /\ IsFiniteSet({"V"})
    BY FS_Singleton
  <2>3. IsFiniteSet({"K"} \X (1 .. nk)) /\ IsFiniteSet({"V"} \X (1 .. nv))
    BY <2>1, <2>2, FS_Product
  <2> QED
    BY <2>3, FS_Union DEF Candidates
<1>6. ASSUME NEW c \in Candidates(nk, nv)
      PROVE  /\ c = <<c[1], c[2]>> /\ c[1] \in {"K", "V"} /\ c[2] \in Nat
             /\ q.score[c] \in Nat
             /\ IsK(c) => q.bound[c] \in Nat
  <2>1. c = <<c[1], c[2]>> /\ c[1] \in {"K", "V"} /\ c[2] \in Nat
    BY <1>2 DEF Candidates
  <2>2. q.score[c] \in Nat
    BY <1>2, <1>3
  <2>3. ASSUME IsK(c) PROVE q.bound[c] \in Nat
    <3>1. c \in {"K"} \X (1 .. nk)
      BY <2>3 DEF Candidates, IsK
    <3>2. c \in Candidates(nk, 0)
      BY <3>1 DEF Candidates
    <3> QED
      BY <1>3, <3>2
  <2> QED
    BY <2>1, <2>2, <2>3
<1> QED
  BY <1>3, <1>4, <1>5, <1>6

(* Beats is a strict total order on the stored slots: the ranking of the   *)
(* stable sort.                                                            *)
LEMMA BeatsOrder ==
  ASSUME NEW q \in Queries, NEW c \in Stored(q), NEW d \in Stored(q), NEW e \in Stored(q)
  PROVE  /\ ~ Beats(q, c, c)
         /\ Beats(q, c, d) /\ Beats(q, d, e) => Beats(q, c, e)
         /\ c # d => Beats(q, c, d) \/ Beats(q, d, c)
<1> DEFINE Slot(x) == /\ x = <<x[1], x[2]>> /\ x[1] \in {"K", "V"} /\ x[2] \in Nat
                      /\ q.score[x] \in Nat /\ (x[1] = "K" => q.bound[x] \in Nat)
<1>1. Slot(c) /\ Slot(d) /\ Slot(e)
  BY QueryShape DEF IsK
<1>2. ~ Earlier(q, c, c)
  BY <1>1 DEF Earlier, IsK, IsV
<1>3. Earlier(q, c, d) /\ Earlier(q, d, e) => Earlier(q, c, e)
  BY <1>1 DEF Earlier, IsK, IsV
<1>4. c # d => Earlier(q, c, d) \/ Earlier(q, d, c)
  BY <1>1 DEF Earlier, IsK, IsV
<1>5. q.score[c] \in Nat /\ q.score[d] \in Nat /\ q.score[e] \in Nat
  BY <1>1
<1> QED
  BY <1>2, <1>3, <1>4, <1>5 DEF Beats

(* The first n of a ranking are at most n. *)
LEMMA TopNBounds ==
  ASSUME NEW q \in Queries, NEW S \in SUBSET Stored(q), NEW n \in Nat
  PROVE  /\ TopN(q, S, n) \subseteq S
         /\ IsFiniteSet(TopN(q, S, n)) /\ Cardinality(TopN(q, S, n)) <= n
<1> DEFINE Above(c) == {d \in S : Beats(q, d, c)}
           rank == [c \in TopN(q, S, n) |-> Cardinality(Above(c))]
<1>1. TopN(q, S, n) \subseteq S
  BY DEF TopN
<1>2. IsFiniteSet(S)
  BY QueryShape, FS_Subset
<1>3. ASSUME NEW c \in S PROVE IsFiniteSet(Above(c)) /\ Cardinality(Above(c)) \in Nat
  <2>1. Above(c) \in SUBSET S
    OBVIOUS
  <2> QED
    BY <2>1, <1>2, FS_Subset, FS_CardinalityType
<1>4. ASSUME NEW c \in S, NEW d \in S, Beats(q, c, d)
      PROVE  Cardinality(Above(c)) # Cardinality(Above(d))
  <2>1. Above(c) \in SUBSET Above(d)
    <3> SUFFICES ASSUME NEW e \in S, Beats(q, e, c) PROVE Beats(q, e, d)
      OBVIOUS
    <3>1. c \in Stored(q) /\ d \in Stored(q) /\ e \in Stored(q)
      OBVIOUS
    <3> QED
      BY <3>1, <1>4, BeatsOrder
  <2>2. c \in Above(d) /\ c \notin Above(c)
    <3>1. c \in Stored(q)
      OBVIOUS
    <3> QED
      BY <3>1, <1>4, BeatsOrder
  <2>3. Above(c) # Above(d)
    BY <2>2
  <2> HIDE DEF Above
  <2> QED
    BY <2>1, <2>3, <1>3, FS_Subset
<1>5. rank \in [TopN(q, S, n) -> 0 .. n - 1]
  <2> SUFFICES ASSUME NEW c \in TopN(q, S, n)
               PROVE  Cardinality(Above(c)) \in 0 .. n - 1
    OBVIOUS
  <2>1. c \in S /\ Cardinality(Above(c)) < n
    BY DEF TopN
  <2>2. Cardinality(Above(c)) \in Nat
    BY <2>1, <1>3
  <2> HIDE DEF Above
  <2> QED
    BY <2>1, <2>2
<1>6. ASSUME NEW c \in TopN(q, S, n), NEW d \in TopN(q, S, n), rank[c] = rank[d]
      PROVE  c = d
  <2> SUFFICES ASSUME c # d PROVE FALSE
    OBVIOUS
  <2>1. c \in S /\ d \in S
    BY <1>1
  <2>2. Beats(q, c, d) \/ Beats(q, d, c)
    <3>1. c \in Stored(q) /\ d \in Stored(q)
      BY <2>1
    <3> QED
      BY <3>1, BeatsOrder
  <2>3. Cardinality(Above(c)) = Cardinality(Above(d))
    BY <1>6
  <2> HIDE DEF Above
  <2> QED
    BY <2>1, <2>2, <2>3, <1>4
<1> HIDE DEF rank
<1>7. rank \in Injection(TopN(q, S, n), 0 .. n - 1)
  BY <1>5, <1>6 DEF Injection, IsInjective
<1>8. IsFiniteSet(0 .. n - 1) /\ Cardinality(0 .. n - 1) = n
  BY FS_Interval
<1> QED
  BY <1>1, <1>7, <1>8, FS_Injection

-------------------------------------------------------------------------------
(* Read budgets *)

(* The budget of one kind is at most the number of its candidates, and     *)
(* grows with it: a pre-filter never raises a budget.                      *)
LEMMA KindBudgetBounds ==
  ASSUME NEW cfg \in Configs, NEW abs \in Nat, NEW override \in Nat \cup {None},
         NEW t \in Nat, NEW u \in Nat, t <= u
  PROVE  /\ KindBudget(cfg, abs, override, t) \in Nat
         /\ KindBudget(cfg, abs, override, t) <= KindBudget(cfg, abs, override, u)
<1> DEFINE ratio == Resolved(override, cfg.ratio) * cfg.lm
           share(n) == (n * ratio) \div (Den * Den)
<1>1. cfg.ratio \in Nat /\ cfg.lm \in Nat /\ Den \in Nat \ {0}
  BY RouterAssumption DEF ConfigShape
<1>2. ratio \in Nat
  <2>1. Resolved(override, cfg.ratio) \in Nat
    BY <1>1 DEF Resolved, None
  <2> QED
    BY <1>1, <2>1
<1>3. CASE cfg.mode \in {"absolute", "adaptive_score"}
  <2> DEFINE r == Round(abs * cfg.lm, Den)
  <2>1. r \in Nat
    <3>1. abs * cfg.lm \in Nat
      BY <1>1
    <3> QED
      BY <3>1, <1>1, RoundBounds
  <2>2. /\ KindBudget(cfg, abs, override, t) = Least(r, t)
        /\ KindBudget(cfg, abs, override, u) = Least(r, u)
    BY <1>3 DEF KindBudget
  <2> HIDE DEF r
  <2> QED
    BY <2>1, <2>2 DEF Least
<1>4. CASE cfg.mode \notin {"absolute", "adaptive_score"}
  <2>1. ASSUME NEW n \in Nat PROVE share(n) \in Nat
    <3>1. n * ratio \in Nat /\ Den * Den \in Nat \ {0}
      BY <1>1, <1>2
    <3> QED
      BY <3>1, DivBounds
  <2>2. share(t) <= share(u)
    <3>1. t * ratio \in Nat /\ u * ratio \in Nat /\ Den * Den \in Nat \ {0}
      BY <1>1, <1>2
    <3>2. t * ratio <= u * ratio
      BY <1>2
    <3> QED
      BY <3>1, <3>2, DivMonotone
  <2>3. /\ KindBudget(cfg, abs, override, t) =
             IF ratio > 0 /\ t > 0 THEN Least(Most(1, share(t)), t) ELSE 0
        /\ KindBudget(cfg, abs, override, u) =
             IF ratio > 0 /\ u > 0 THEN Least(Most(1, share(u)), u) ELSE 0
    BY <1>4 DEF KindBudget
  <2>4. share(t) \in Nat /\ share(u) \in Nat
    BY <2>1
  <2> HIDE DEF ratio, share
  <2> QED
    BY <1>2, <2>2, <2>3, <2>4 DEF Least, Most
<1> QED
  BY <1>3, <1>4

LEMMA BudgetBounds ==
  ASSUME NEW cfg \in Configs, NEW t \in Nat, NEW u \in Nat, t <= u
  PROVE  /\ BudgetK(cfg, t) \in Nat /\ BudgetK(cfg, t) <= BudgetK(cfg, u)
         /\ BudgetV(cfg, t) \in Nat /\ BudgetV(cfg, t) <= BudgetV(cfg, u)
<1>1. /\ cfg.abs_k \in Nat /\ cfg.ratio_k \in Nat \cup {None}
      /\ cfg.abs_v \in Nat /\ cfg.ratio_v \in Nat \cup {None}
  BY RouterAssumption DEF ConfigShape
<1>2. /\ KindBudget(cfg, cfg.abs_k, cfg.ratio_k, t) \in Nat
      /\ KindBudget(cfg, cfg.abs_k, cfg.ratio_k, t)
           <= KindBudget(cfg, cfg.abs_k, cfg.ratio_k, u)
  BY <1>1, KindBudgetBounds
<1>3. /\ KindBudget(cfg, cfg.abs_v, cfg.ratio_v, t) \in Nat
      /\ KindBudget(cfg, cfg.abs_v, cfg.ratio_v, t)
           <= KindBudget(cfg, cfg.abs_v, cfg.ratio_v, u)
  BY <1>1, KindBudgetBounds
<1> QED
  BY <1>2, <1>3 DEF BudgetK, BudgetV

-------------------------------------------------------------------------------
(* Selections *)

(* What ReadsWithinBudget asks of a set of reads, for given budgets. *)
Within(q, S, bk, bv) ==
  /\ Cardinality(S) <= bk + bv
  /\ q.cfg.policy = "separate" =>
       Cardinality(S \cap AllK(q)) <= bk /\ Cardinality(S \cap AllV(q)) <= bv

LEMMA KindsFinite ==
  ASSUME NEW q \in Queries
  PROVE  /\ AllK(q) \subseteq Stored(q) /\ IsFiniteSet(AllK(q))
         /\ AllV(q) \subseteq Stored(q) /\ IsFiniteSet(AllV(q))
         /\ AllK(q) \cap AllV(q) = {}
         /\ Cardinality(AllK(q)) \in Nat /\ Cardinality(AllV(q)) \in Nat
<1>1. AllK(q) \in SUBSET Stored(q) /\ AllV(q) \in SUBSET Stored(q)
  BY DEF AllK, AllV
<1>2. IsFiniteSet(Stored(q))
  BY QueryShape
<1>3. IsFiniteSet(AllK(q)) /\ IsFiniteSet(AllV(q))
  BY <1>1, <1>2, FS_Subset
<1>4. AllK(q) \cap AllV(q) = {}
  BY DEF AllK, AllV, IsK, IsV
<1> QED
  BY <1>1, <1>3, <1>4, FS_CardinalityType

(* Fewer reads of the same slots, or larger budgets, stay within. *)
LEMMA WithinMonotone ==
  ASSUME NEW q \in Queries, NEW S, IsFiniteSet(S), NEW R \in SUBSET S,
         NEW bk \in Nat, NEW bv \in Nat, NEW ck \in Nat, NEW cv \in Nat,
         bk <= ck, bv <= cv, Within(q, S, bk, bv)
  PROVE  Within(q, R, ck, cv)
<1>1. /\ R \cap AllK(q) \in SUBSET (S \cap AllK(q))
      /\ R \cap AllV(q) \in SUBSET (S \cap AllV(q))
      /\ S \cap AllK(q) \in SUBSET S /\ S \cap AllV(q) \in SUBSET S
  OBVIOUS
<1>2. /\ IsFiniteSet(S \cap AllK(q)) /\ IsFiniteSet(S \cap AllV(q))
      /\ IsFiniteSet(R) /\ Cardinality(R) <= Cardinality(S)
  BY <1>1, FS_Subset
<1>3. /\ IsFiniteSet(R \cap AllK(q)) /\ IsFiniteSet(R \cap AllV(q))
      /\ Cardinality(R \cap AllK(q)) <= Cardinality(S \cap AllK(q))
      /\ Cardinality(R \cap AllV(q)) <= Cardinality(S \cap AllV(q))
  BY <1>1, <1>2, FS_Subset
<1>4. /\ Cardinality(R) \in Nat /\ Cardinality(S) \in Nat
      /\ Cardinality(R \cap AllK(q)) \in Nat /\ Cardinality(S \cap AllK(q)) \in Nat
      /\ Cardinality(R \cap AllV(q)) \in Nat /\ Cardinality(S \cap AllV(q)) \in Nat
  BY <1>2, <1>3, FS_CardinalityType
<1> QED
  BY <1>2, <1>3, <1>4 DEF Within

(* Slots of two kinds are counted kind by kind. *)
LEMMA TwoKinds ==
  ASSUME NEW q \in Queries, NEW K \in SUBSET AllK(q), NEW V \in SUBSET AllV(q),
         NEW bk \in Nat, NEW bv \in Nat, Cardinality(K) <= bk, Cardinality(V) <= bv
  PROVE  IsFiniteSet(K \cup V) /\ Within(q, K \cup V, bk, bv)
<1>1. IsFiniteSet(K) /\ IsFiniteSet(V)
  BY KindsFinite, FS_Subset
<1>2. (K \cup V) \cap AllK(q) = K /\ (K \cup V) \cap AllV(q) = V /\ K \cap V = {}
  BY KindsFinite
<1>3. /\ IsFiniteSet(K \cup V)
      /\ Cardinality(K \cup V) = Cardinality(K) + Cardinality(V) - Cardinality(K \cap V)
  BY <1>1, FS_Union
<1>4. Cardinality(K \cap V) = 0
  BY <1>2, FS_EmptySet
<1>5. Cardinality(K) \in Nat /\ Cardinality(V) \in Nat
  BY <1>1, FS_CardinalityType
<1>6. Cardinality(K \cup V) <= bk + bv
  BY <1>3, <1>4, <1>5
<1> QED
  BY <1>2, <1>3, <1>6 DEF Within

-------------------------------------------------------------------------------
(* ResidualRouter.route *)

LEMMA CandidatesOfKind ==
  ASSUME NEW q \in Queries
  PROVE  /\ KCands(q) \in SUBSET AllK(q) /\ VCands(q) \in SUBSET AllV(q)
         /\ Cardinality(KCands(q)) \in Nat /\ Cardinality(VCands(q)) \in Nat
         /\ Cardinality(KCands(q)) <= Cardinality(AllK(q))
         /\ Cardinality(VCands(q)) <= Cardinality(AllV(q))
<1>1. KCands(q) \in SUBSET AllK(q) /\ VCands(q) \in SUBSET AllV(q)
  BY DEF KCands, VCands, Shortlist
<1>2. IsFiniteSet(KCands(q)) /\ IsFiniteSet(VCands(q))
  BY <1>1, KindsFinite, FS_Subset
<1> QED
  BY <1>1, <1>2, KindsFinite, FS_Subset, FS_CardinalityType

(* A selection of n among the candidates of one kind. *)
LEMMA TopNOfKind ==
  ASSUME NEW q \in Queries, NEW n \in Nat
  PROVE  /\ \A S \in SUBSET AllK(q) : /\ TopN(q, S, n) \in SUBSET AllK(q)
                                      /\ Cardinality(TopN(q, S, n)) <= n
                                      /\ Cardinality(TopN(q, S, n)) \in Nat
         /\ \A S \in SUBSET AllV(q) : /\ TopN(q, S, n) \in SUBSET AllV(q)
                                      /\ Cardinality(TopN(q, S, n)) <= n
                                      /\ Cardinality(TopN(q, S, n)) \in Nat
<1>1. ASSUME NEW S \in SUBSET Stored(q)
      PROVE  /\ TopN(q, S, n) \subseteq S /\ Cardinality(TopN(q, S, n)) <= n
             /\ Cardinality(TopN(q, S, n)) \in Nat
  BY TopNBounds, FS_CardinalityType
<1> QED
  BY <1>1, KindsFinite

LEMMA SeparateWithin ==
  ASSUME NEW q \in Queries, NEW a \in Nat, NEW b \in Nat
  PROVE  LET S == TopN(q, KCands(q), a) \cup TopN(q, VCands(q), b)
         IN  IsFiniteSet(S) /\ Within(q, S, a, b)
<1>1. /\ TopN(q, KCands(q), a) \in SUBSET AllK(q)
      /\ Cardinality(TopN(q, KCands(q), a)) <= a
  BY TopNOfKind, CandidatesOfKind
<1>2. /\ TopN(q, VCands(q), b) \in SUBSET AllV(q)
      /\ Cardinality(TopN(q, VCands(q), b)) <= b
  BY TopNOfKind, CandidatesOfKind
<1> QED
  BY <1>1, <1>2, TwoKinds

LEMMA JointWithin ==
  ASSUME NEW q \in Queries, q.cfg.policy = "joint", NEW bk \in Nat, NEW bv \in Nat
  PROVE  IsFiniteSet(JointReads(q, bk, bv)) /\ Within(q, JointReads(q, bk, bv), bk, bv)
<1>1. MergedBudget(bk, bv) \in Nat /\ MergedBudget(bk, bv) <= bk + bv
  BY DEF MergedBudget, Most
<1>2. KCands(q) \cup VCands(q) \in SUBSET Stored(q)
  BY CandidatesOfKind, KindsFinite
<1>3. /\ IsFiniteSet(JointReads(q, bk, bv))
      /\ Cardinality(JointReads(q, bk, bv)) <= MergedBudget(bk, bv)
  BY <1>1, <1>2, TopNBounds DEF JointReads
<1>4. Cardinality(JointReads(q, bk, bv)) \in Nat
  BY <1>3, FS_CardinalityType
<1>5. q.cfg.policy # "separate"
  OBVIOUS
<1> QED
  BY <1>1, <1>3, <1>4, <1>5 DEF Within

(* V gets what K has left of the allowance. *)
LEMMA KFirstWithin ==
  ASSUME NEW q \in Queries, q.cfg.policy = "k_first", NEW bk \in Nat, NEW bv \in Nat
  PROVE  IsFiniteSet(KFirstReads(q, bk, bv)) /\ Within(q, KFirstReads(q, bk, bv), bk, bv)
<1> DEFINE k     == TopN(q, KCands(q), bk)
           total == MapThenSumSet(LAMBDA c : q.score[c], VCands(q))
           good  == {c \in VCands(q) : q.score[c] * Cardinality(VCands(q)) >= total}
           left  == Most(0, bk + bv - Cardinality(k))
           v     == TopN(q, good, left)
<1>1. /\ k \in SUBSET AllK(q) /\ Cardinality(k) <= bk /\ Cardinality(k) \in Nat
  BY TopNOfKind, CandidatesOfKind
<1>2. good \in SUBSET AllV(q)
  <2>1. good \in SUBSET VCands(q)
    OBVIOUS
  <2> HIDE DEF good
  <2> QED
    BY <2>1, CandidatesOfKind
<1>3. left \in Nat /\ left = bk + bv - Cardinality(k)
  <2> HIDE DEF k
  <2> QED
    BY <1>1 DEF Most
<1>4. KFirstReads(q, bk, bv) = k \cup v
  BY DEF KFirstReads
<1> HIDE DEF good, left, k
<1>5. v \in SUBSET AllV(q) /\ Cardinality(v) <= left /\ Cardinality(v) \in Nat
  BY <1>2, <1>3, TopNOfKind
<1> HIDE DEF v
<1>6. IsFiniteSet(k \cup v) /\ Within(q, k \cup v, Cardinality(k), left)
  <2>1. Cardinality(k) <= Cardinality(k)
    BY <1>1
  <2> QED
    BY <1>1, <1>3, <1>5, <2>1, TwoKinds
<1>7. Cardinality(k \cup v) <= bk + bv
  <2>1. Cardinality(k \cup v) \in Nat
    BY <1>6, FS_CardinalityType
  <2> QED
    BY <2>1, <1>1, <1>3, <1>6 DEF Within
<1>8. q.cfg.policy # "separate"
  OBVIOUS
<1> QED
  BY <1>4, <1>6, <1>7, <1>8 DEF Within

(* The entropy divides the sum of the budgets, whatever it is. *)
LEMMA AdaptiveWithin ==
  ASSUME NEW q \in Queries, q.cfg.policy = "adaptive", NEW bk \in Nat, NEW bv \in Nat
  PROVE  IsFiniteSet(AdaptiveReads(q, bk, bv)) /\ Within(q, AdaptiveReads(q, bk, bv), bk, bv)
<1> DEFINE v == Round((bk + bv) * q.v_frac, Den)
           k == bk + bv - v
<1>1. Den \in Nat \ {0} /\ q.v_frac \in Nat /\ q.v_frac <= Den
  BY QueryShape, RouterAssumption
<1>2. v \in Nat /\ v <= bk + bv
  <2>1. (bk + bv) * q.v_frac \in Nat /\ bk + bv \in Nat
    BY <1>1
  <2>2. (bk + bv) * q.v_frac <= (bk + bv) * Den
    BY <1>1
  <2> QED
    BY <2>1, <2>2, <1>1, RoundBounds
<1>3. AdaptiveReads(q, bk, bv) = TopN(q, KCands(q), k) \cup TopN(q, VCands(q), v)
  BY DEF AdaptiveReads
<1>4. k \in Nat /\ k + v = bk + bv
  <2> HIDE DEF v
  <2> QED
    BY <1>2
<1> HIDE DEF v, k
<1>5. /\ IsFiniteSet(AdaptiveReads(q, bk, bv))
      /\ Within(q, AdaptiveReads(q, bk, bv), k, v)
  BY <1>2, <1>3, <1>4, SeparateWithin
<1>6. q.cfg.policy # "separate"
  OBVIOUS
<1> QED
  BY <1>4, <1>5, <1>6 DEF Within

LEMMA PolicyWithin ==
  ASSUME NEW q \in Queries, NEW bk \in Nat, NEW bv \in Nat
  PROVE  IsFiniteSet(PolicyReads(q, bk, bv)) /\ Within(q, PolicyReads(q, bk, bv), bk, bv)
<1>1. CASE q.cfg.policy = "joint"
  BY <1>1, JointWithin DEF PolicyReads
<1>2. CASE q.cfg.policy = "k_first"
  BY <1>2, KFirstWithin DEF PolicyReads
<1>3. CASE q.cfg.policy = "adaptive"
  BY <1>3, AdaptiveWithin DEF PolicyReads
<1>4. CASE q.cfg.policy \notin {"joint", "k_first", "adaptive"}
  <2>1. PolicyReads(q, bk, bv) = SeparateReads(q, bk, bv)
    BY <1>4 DEF PolicyReads
  <2> QED
    BY <2>1, SeparateWithin DEF SeparateReads
<1> QED
  BY <1>1, <1>2, <1>3, <1>4

(* The thresholds and their floor select among what the policy selected. *)
LEMMA ThresholdSelects ==
  ASSUME NEW q \in Queries, NEW S
  PROVE  AboveThreshold(q, S) \subseteq S
  BY DEF AboveThreshold, TopN

(* The budgets of the whole lane, pre-filtered slots included. *)
LaneK(q) == BudgetK(q.cfg, Cardinality(AllK(q)))
LaneV(q) == BudgetV(q.cfg, Cardinality(AllV(q)))

LEMMA NothingWithin ==
  ASSUME NEW q \in Queries, NEW bk \in Nat, NEW bv \in Nat
  PROVE  Within(q, {}, bk, bv)
<1>1. {} \cap AllK(q) = {} /\ {} \cap AllV(q) = {}
  OBVIOUS
<1> QED
  BY <1>1, FS_EmptySet DEF Within

LEMMA LaneBudgets ==
  ASSUME NEW q \in Queries
  PROVE  LaneK(q) \in Nat /\ LaneV(q) \in Nat
<1>1. /\ q.cfg \in Configs
      /\ Cardinality(AllK(q)) \in Nat /\ Cardinality(AllV(q)) \in Nat
  BY QueryShape, KindsFinite
<1> QED
  BY <1>1, BudgetBounds DEF LaneK, LaneV

LEMMA RouteWithin ==
  ASSUME NEW q \in Queries
  PROVE  Within(q, route(q), LaneK(q), LaneV(q))
<1> DEFINE bk == BudgetK(q.cfg, Cardinality(KCands(q)))
           bv == BudgetV(q.cfg, Cardinality(VCands(q)))
           selected == PolicyReads(q, bk, bv)
<1>1. /\ bk \in Nat /\ bk <= LaneK(q) /\ bv \in Nat /\ bv <= LaneV(q)
      /\ LaneK(q) \in Nat /\ LaneV(q) \in Nat
  BY QueryShape, CandidatesOfKind, KindsFinite, BudgetBounds, LaneBudgets DEF LaneK, LaneV
<1>2. \/ route(q) = {}
      \/ route(q) = selected
      \/ route(q) = AboveThreshold(q, selected \cap AllK(q))
                      \cup AboveThreshold(q, selected \cap AllV(q))
  BY DEF route
<1> HIDE DEF bk, bv
<1>3. IsFiniteSet(selected) /\ Within(q, selected, bk, bv)
  BY <1>1, PolicyWithin
<1> HIDE DEF selected
<1>4. route(q) \in SUBSET selected
  BY <1>2, ThresholdSelects
<1> QED
  BY <1>1, <1>3, <1>4, WithinMonotone

-------------------------------------------------------------------------------
(* vectorized_joint_correction *)

(* topk returns as many as it is asked for, or all there are. *)
LEMMA TopSetsBounds ==
  ASSUME NEW Key, NEW S, IsFiniteSet(S), NEW n \in Nat, NEW T \in TopSets(Key, S, n)
  PROVE  /\ T \in SUBSET S /\ IsFiniteSet(T)
         /\ Cardinality(T) \in Nat /\ Cardinality(T) <= n
<1>1. T \in SUBSET S /\ Cardinality(T) = Least(n, Cardinality(S))
  BY DEF TopSets
<1>2. IsFiniteSet(T) /\ Cardinality(T) \in Nat /\ Cardinality(S) \in Nat
  BY <1>1, FS_Subset, FS_CardinalityType
<1> QED
  BY <1>1, <1>2 DEF Least

LEMMA VectorizedWithin ==
  ASSUME NEW q \in Queries, NEW S \in vectorized(q)
  PROVE  Within(q, S, LaneK(q), LaneV(q))
<1> DEFINE Key(keep) == [c \in Stored(q) |-> MaskedScore(q, keep, c)]
           bk == LaneK(q)
           bv == LaneV(q)
           merges == q.cfg.policy = "joint" /\ bk > 0 /\ bv > 0
<1>1. PICK keep \in Shortlists(q) :
        S \in IF merges THEN TopSets(Key(keep), Stored(q), MergedBudget(bk, bv))
             ELSE {k \cup v : k \in TopSets(Key(keep), AllK(q), bk),
                             v \in TopSets(Key(keep), AllV(q), bv)}
  BY DEF vectorized, LaneK, LaneV
<1>2. bk \in Nat /\ bv \in Nat
  BY LaneBudgets
<1> HIDE DEF Key, bk, bv
<1>3. CASE merges
  <2>1. MergedBudget(bk, bv) \in Nat /\ MergedBudget(bk, bv) <= bk + bv
    BY <1>2 DEF MergedBudget, Most
  <2>2. S \in TopSets(Key(keep), Stored(q), MergedBudget(bk, bv))
    BY <1>1, <1>3
  <2>3. IsFiniteSet(Stored(q))
    BY QueryShape
  <2>4. Cardinality(S) \in Nat /\ Cardinality(S) <= MergedBudget(bk, bv)
    BY <2>1, <2>2, <2>3, TopSetsBounds
  <2>5. q.cfg.policy # "separate"
    BY <1>3
  <2>6. Within(q, S, bk, bv)
    BY <1>2, <2>1, <2>4, <2>5 DEF Within
  <2> QED
    BY <2>6 DEF bk, bv
<1>4. CASE ~ merges
  <2>1. PICK k \in TopSets(Key(keep), AllK(q), bk), v \in TopSets(Key(keep), AllV(q), bv) :
          S = k \cup v
    BY <1>1, <1>4
  <2>2. k \in SUBSET AllK(q) /\ Cardinality(k) <= bk
    BY <1>2, KindsFinite, TopSetsBounds
  <2>3. v \in SUBSET AllV(q) /\ Cardinality(v) <= bv
    BY <1>2, KindsFinite, TopSetsBounds
  <2>4. Within(q, S, bk, bv)
    BY <1>2, <2>1, <2>2, <2>3, TwoKinds
  <2> QED
    BY <2>4 DEF bk, bv
<1> QED
  BY <1>3, <1>4

-------------------------------------------------------------------------------
(* The read budgets hold *)

(* A query being served is one the router may be asked. *)
BudgetInv ==
  /\ path # "idle" => query \in Queries
  /\ ReadsWithinBudget

LEMMA BudgetInvStep == BudgetInv /\ [Next]_vars => BudgetInv'
<1> SUFFICES ASSUME BudgetInv, [Next]_vars PROVE BudgetInv'
  OBVIOUS
<1>1. CASE Ask
  <2>1. query' \in Queries /\ path' \in {"prefill", "decode"}
    BY <1>1 DEF Ask
  <2> QED
    BY <2>1 DEF BudgetInv, ReadsWithinBudget, Served
<1>2. CASE Prefill
  <2>1. query \in Queries /\ query' = query
    BY <1>2 DEF Prefill, BudgetInv
  <2>2. reads' = {} \/ reads' \in vectorized(query) \/ reads' = route(query)
    BY <1>2 DEF Prefill, PrefillReads
  <2>3. Within(query, reads', LaneK(query), LaneV(query))
    BY <2>1, <2>2, NothingWithin, LaneBudgets, VectorizedWithin, RouteWithin
  <2> QED
    BY <2>1, <2>3 DEF BudgetInv, ReadsWithinBudget, Within, LaneK, LaneV
<1>3. CASE Decode
  <2>1. query \in Queries /\ query' = query
    BY <1>3 DEF Decode, BudgetInv
  <2>2. reads' = {} \/ reads' = route(query)
    BY <1>3 DEF Decode
  <2>3. Within(query, reads', LaneK(query), LaneV(query))
    BY <2>1, <2>2, NothingWithin, LaneBudgets, RouteWithin
  <2> QED
    BY <2>1, <2>3 DEF BudgetInv, ReadsWithinBudget, Within, LaneK, LaneV
<1>4. CASE Return
  <2>1. path' = "idle"
    BY <1>4 DEF Return
  <2> QED
    BY <2>1 DEF BudgetInv, ReadsWithinBudget, Served
<1>5. CASE UNCHANGED vars
  <2>1. query' = query /\ path' = path /\ reads' = reads
    BY <1>5 DEF vars
  <2> QED
    BY <2>1 DEF BudgetInv, ReadsWithinBudget, Served
<1> QED
  BY <1>1, <1>2, <1>3, <1>4, <1>5 DEF Next

(* No query ever reads more residual slots than its K and V budgets allow  *)
(* together, nor, under policy separate, more of a kind than that kind's   *)
(* budget: for every policy, mode, pre-filter and threshold, in decode     *)
(* steps and in both prefill implementations.                              *)
THEOREM BudgetsRespected == Spec => []ReadsWithinBudget
<1>1. Init => BudgetInv
  BY DEF Init, BudgetInv, ReadsWithinBudget, Served
<1>2. BudgetInv /\ [Next]_vars => BudgetInv'
  BY BudgetInvStep
<1>3. BudgetInv => ReadsWithinBudget
  BY DEF BudgetInv
<1> QED
  BY <1>1, <1>2, <1>3, PTL DEF Spec

-------------------------------------------------------------------------------
(* The reads are the best of their kind *)

(* No slot outside T scores higher than one in it: of S, or of the stored  *)
(* slots of one kind; of K only when no pre-filter ranks them first.       *)
TopOf(q, S, T) == \A c \in T, d \in S \ T : q.score[c] >= q.score[d]
TopK(q, T) == q.cfg.pre = 0 => TopOf(q, AllK(q), T)
TopV(q, T) == TopOf(q, AllV(q), T)

(* What ReadsAreTop asks of a set of reads. *)
Tops(q, T) ==
  \A c \in T, d \in Stored(q) \ T :
    (c[1] = d[1] /\ (IsV(c) \/ q.cfg.pre = 0)) => q.score[c] >= q.score[d]

LEMMA TopsByKind ==
  ASSUME NEW q \in Queries, NEW K \in SUBSET AllK(q), NEW V \in SUBSET AllV(q),
         TopK(q, K), TopV(q, V)
  PROVE  Tops(q, K \cup V)
<1> SUFFICES ASSUME NEW c \in K \cup V, NEW d \in Stored(q) \ (K \cup V),
                    c[1] = d[1], IsV(c) \/ q.cfg.pre = 0
             PROVE  q.score[c] >= q.score[d]
  BY DEF Tops
<1>1. CASE c \in V
  <2>1. c \in AllV(q) /\ d \in AllV(q) \ V
    BY <1>1 DEF AllV, IsV
  <2> QED
    BY <1>1, <2>1 DEF TopV, TopOf
<1>2. CASE c \in K
  <2>1. c \in AllK(q) /\ d \in AllK(q) \ K
    BY <1>2 DEF AllK, IsK
  <2>2. q.cfg.pre = 0
    BY <2>1 DEF AllK, IsK, IsV
  <2> QED
    BY <1>2, <2>1, <2>2 DEF TopK, TopOf
<1> QED
  BY <1>1, <1>2

LEMMA KindsOfTops ==
  ASSUME NEW q \in Queries, NEW T \in SUBSET Stored(q), Tops(q, T)
  PROVE  TopK(q, T \cap AllK(q)) /\ TopV(q, T \cap AllV(q))
<1>1. TopK(q, T \cap AllK(q))
  <2> SUFFICES ASSUME q.cfg.pre = 0, NEW c \in T \cap AllK(q),
                      NEW d \in AllK(q) \ (T \cap AllK(q))
               PROVE  q.score[c] >= q.score[d]
    BY DEF TopK, TopOf
  <2>1. d \in Stored(q) \ T /\ c[1] = d[1]
    BY DEF AllK, IsK
  <2> QED
    BY <2>1 DEF Tops
<1>2. TopV(q, T \cap AllV(q))
  <2> SUFFICES ASSUME NEW c \in T \cap AllV(q), NEW d \in AllV(q) \ (T \cap AllV(q))
               PROVE  q.score[c] >= q.score[d]
    BY DEF TopV, TopOf
  <2>1. d \in Stored(q) \ T /\ c[1] = d[1] /\ IsV(c)
    BY DEF AllV, IsV
  <2> QED
    BY <2>1 DEF Tops
<1> QED
  BY <1>1, <1>2

(* The first n of a ranking beat the rest. *)
LEMMA TopNBeats ==
  ASSUME NEW q \in Queries, NEW S \in SUBSET Stored(q), NEW n \in Nat,
         NEW c \in TopN(q, S, n), NEW d \in S \ TopN(q, S, n)
  PROVE  Beats(q, c, d)
<1> DEFINE Above(x) == {e \in S : Beats(q, e, x)}
<1>1. c \in S /\ Cardinality(Above(c)) < n /\ d \in S /\ ~ (Cardinality(Above(d)) < n)
  BY DEF TopN
<1>2. c \in Stored(q) /\ d \in Stored(q) /\ c # d
  BY <1>1
<1>3. SUFFICES ASSUME Beats(q, d, c) PROVE FALSE
  BY <1>2, BeatsOrder
<1>4. Above(d) \in SUBSET Above(c)
  <2> SUFFICES ASSUME NEW e \in S, Beats(q, e, d) PROVE Beats(q, e, c)
    OBVIOUS
  <2>1. e \in Stored(q)
    OBVIOUS
  <2> QED
    BY <1>2, <1>3, <2>1, BeatsOrder
<1>5. IsFiniteSet(Above(c))
  <2>1. IsFiniteSet(S) /\ Above(c) \in SUBSET S
    BY QueryShape, FS_Subset
  <2> QED
    BY <2>1, FS_Subset
<1> HIDE DEF Above
<1>6. /\ Cardinality(Above(d)) <= Cardinality(Above(c))
      /\ Cardinality(Above(d)) \in Nat /\ Cardinality(Above(c)) \in Nat
  BY <1>4, <1>5, FS_Subset, FS_CardinalityType
<1> QED
  BY <1>1, <1>6

LEMMA TopNTop ==
  ASSUME NEW q \in Queries, NEW S \in SUBSET Stored(q), NEW n \in Nat
  PROVE  TopOf(q, S, TopN(q, S, n))
<1> SUFFICES ASSUME NEW c \in TopN(q, S, n), NEW d \in S \ TopN(q, S, n)
             PROVE  q.score[c] >= q.score[d]
  BY DEF TopOf
<1>1. Beats(q, c, d)
  BY TopNBeats
<1>2. c \in S
  BY DEF TopN
<1>3. q.score[c] \in Nat /\ q.score[d] \in Nat
  BY <1>2, QueryShape
<1> QED
  BY <1>1, <1>3 DEF Beats

(* A kind is a candidate as a whole, the pre-filter aside. *)
LEMMA WholeKinds ==
  ASSUME NEW q \in Queries
  PROVE  /\ KCands(q) = {} \/ (q.cfg.pre = 0 => KCands(q) = AllK(q))
         /\ VCands(q) = {} \/ VCands(q) = AllV(q)
BY DEF KCands, VCands, Shortlist

LEMMA KReadsTop ==
  ASSUME NEW q \in Queries, NEW n \in Nat
  PROVE  TopK(q, TopN(q, KCands(q), n))
<1>1. KCands(q) \in SUBSET Stored(q)
  BY CandidatesOfKind, KindsFinite
<1>2. TopOf(q, KCands(q), TopN(q, KCands(q), n))
  BY <1>1, TopNTop
<1>3. CASE KCands(q) = {}
  BY <1>3 DEF TopN, TopK, TopOf
<1>4. CASE q.cfg.pre = 0 => KCands(q) = AllK(q)
  BY <1>2, <1>4 DEF TopK
<1> QED
  BY <1>3, <1>4, WholeKinds

LEMMA VReadsTop ==
  ASSUME NEW q \in Queries, NEW n \in Nat
  PROVE  TopV(q, TopN(q, VCands(q), n))
<1>1. VCands(q) \in SUBSET Stored(q)
  BY CandidatesOfKind, KindsFinite
<1>2. TopOf(q, VCands(q), TopN(q, VCands(q), n))
  BY <1>1, TopNTop
<1>3. CASE VCands(q) = {}
  BY <1>3 DEF TopN, TopV, TopOf
<1>4. CASE VCands(q) = AllV(q)
  BY <1>2, <1>4 DEF TopV
<1> QED
  BY <1>3, <1>4, WholeKinds

LEMMA SeparateTop ==
  ASSUME NEW q \in Queries, NEW a \in Nat, NEW b \in Nat
  PROVE  Tops(q, TopN(q, KCands(q), a) \cup TopN(q, VCands(q), b))
<1>1. TopN(q, KCands(q), a) \in SUBSET AllK(q) /\ TopN(q, VCands(q), b) \in SUBSET AllV(q)
  BY TopNOfKind, CandidatesOfKind
<1> QED
  BY <1>1, KReadsTop, VReadsTop, TopsByKind

LEMMA JointTop ==
  ASSUME NEW q \in Queries, NEW bk \in Nat, NEW bv \in Nat
  PROVE  Tops(q, JointReads(q, bk, bv))
<1> DEFINE S == KCands(q) \cup VCands(q)
<1>1. S \in SUBSET Stored(q) /\ MergedBudget(bk, bv) \in Nat
  BY CandidatesOfKind, KindsFinite DEF MergedBudget, Most
<1>2. TopOf(q, S, JointReads(q, bk, bv))
  BY <1>1, TopNTop DEF JointReads
<1> SUFFICES ASSUME NEW c \in JointReads(q, bk, bv),
                    NEW d \in Stored(q) \ JointReads(q, bk, bv),
                    c[1] = d[1], IsV(c) \/ q.cfg.pre = 0
             PROVE  q.score[c] >= q.score[d]
  BY DEF Tops
<1>3. c \in S
  BY DEF JointReads, TopN
<1>4. d \in S
  <2>1. CASE c \in VCands(q)
    <3>1. VCands(q) = AllV(q)
      BY <2>1, WholeKinds
    <3> QED
      BY <2>1, <3>1 DEF AllV, IsV
  <2>2. CASE c \in KCands(q)
    <3>1. c \in AllK(q)
      BY <2>2, CandidatesOfKind
    <3>2. q.cfg.pre = 0
      BY <3>1 DEF AllK, IsK, IsV
    <3>3. KCands(q) = AllK(q)
      BY <2>2, <3>2, WholeKinds
    <3> QED
      BY <3>1, <3>3 DEF AllK, IsK
  <2> QED
    BY <1>3, <2>1, <2>2
<1> QED
  BY <1>2, <1>4 DEF TopOf

(* The V slots that reach the mean all score higher than those that do not. *)
LEMMA KFirstTop ==
  ASSUME NEW q \in Queries, NEW bk \in Nat, NEW bv \in Nat
  PROVE  Tops(q, KFirstReads(q, bk, bv))
<1> DEFINE k     == TopN(q, KCands(q), bk)
           total == MapThenSumSet(LAMBDA c : q.score[c], VCands(q))
           good  == {c \in VCands(q) : q.score[c] * Cardinality(VCands(q)) >= total}
           left  == Most(0, bk + bv - Cardinality(k))
           v     == TopN(q, good, left)
<1>1. k \in SUBSET AllK(q) /\ Cardinality(k) \in Nat /\ TopK(q, k)
  BY TopNOfKind, CandidatesOfKind, KReadsTop
<1>2. /\ VCands(q) \in SUBSET AllV(q) /\ VCands(q) \in SUBSET Stored(q)
      /\ IsFiniteSet(VCands(q)) /\ Cardinality(VCands(q)) \in Nat
  BY CandidatesOfKind, KindsFinite, FS_Subset
<1>3. total \in Nat
  <2>1. \A x \in VCands(q) : q.score[x] \in Nat
    BY <1>2, QueryShape
  <2>2. SumFunctionOnSet(q.score, VCands(q)) \in Nat
    BY <1>2, <2>1, SumNat
  <2> QED
    BY <2>2 DEF SumFunctionOnSet, FoldFunctionOnSet, MapThenSumSet
<1>4. KFirstReads(q, bk, bv) = k \cup v
  BY DEF KFirstReads
<1> HIDE DEF k, total
<1>5. left \in Nat
  BY <1>1 DEF Most
<1> HIDE DEF left
<1>6. good \in SUBSET AllV(q) /\ good \in SUBSET Stored(q)
  BY <1>2
<1>7. v \in SUBSET good /\ TopOf(q, good, v)
  <2>1. v \in SUBSET good
    BY DEF TopN
  <2> HIDE DEF good
  <2> QED
    BY <1>5, <1>6, <2>1, TopNTop
<1> HIDE DEF v
<1>8. TopV(q, v)
  <2> SUFFICES ASSUME NEW c \in v, NEW d \in AllV(q) \ v
               PROVE  q.score[c] >= q.score[d]
    BY DEF TopV, TopOf
  <2>1. c \in good /\ c \in VCands(q)
    BY <1>7
  <2>2. d \in VCands(q)
    BY <2>1, WholeKinds
  <2>3. CASE d \in good
    BY <1>7, <2>3 DEF TopOf
  <2>4. CASE d \notin good
    <3>1. /\ q.score[c] * Cardinality(VCands(q)) >= total
          /\ ~ (q.score[d] * Cardinality(VCands(q)) >= total)
      BY <2>1, <2>2, <2>4
    <3>2. q.score[c] \in Nat /\ q.score[d] \in Nat
      BY <1>2, <2>1, <2>2, QueryShape
    <3>3. ASSUME NEW x \in Nat, NEW y \in Nat, NEW n \in Nat, NEW t \in Nat,
                 x * n >= t, ~ (y * n >= t)
          PROVE  x >= y
      <4>1. ASSUME y > x PROVE FALSE
        <5>1. PICK e \in Nat : y = x + e
          BY <4>1
        <5>2. y * n = x * n + e * n /\ e * n >= 0
          BY <5>1
        <5> QED
          BY <3>3, <5>2
      <4> QED
        BY <4>1
    <3> QED
      BY <1>2, <1>3, <3>1, <3>2, <3>3
  <2> QED
    BY <2>3, <2>4
<1>9. v \in SUBSET AllV(q)
  BY <1>6, <1>7
<1> QED
  BY <1>1, <1>4, <1>8, <1>9, TopsByKind

LEMMA AdaptiveTop ==
  ASSUME NEW q \in Queries, q.cfg.policy = "adaptive", NEW bk \in Nat, NEW bv \in Nat
  PROVE  Tops(q, AdaptiveReads(q, bk, bv))
<1> DEFINE v == Round((bk + bv) * q.v_frac, Den)
           k == bk + bv - v
<1>1. Den \in Nat \ {0} /\ q.v_frac \in Nat /\ q.v_frac <= Den
  BY QueryShape, RouterAssumption
<1>2. v \in Nat /\ v <= bk + bv
  <2>1. (bk + bv) * q.v_frac \in Nat /\ bk + bv \in Nat
    BY <1>1
  <2>2. (bk + bv) * q.v_frac <= (bk + bv) * Den
    BY <1>1
  <2> QED
    BY <2>1, <2>2, <1>1, RoundBounds
<1>3. AdaptiveReads(q, bk, bv) = TopN(q, KCands(q), k) \cup TopN(q, VCands(q), v)
  BY DEF AdaptiveReads
<1>4. k \in Nat
  <2> HIDE DEF v
  <2> QED
    BY <1>2
<1> HIDE DEF v, k
<1> QED
  BY <1>2, <1>3, <1>4, SeparateTop

LEMMA PolicyTop ==
  ASSUME NEW q \in Queries, NEW bk \in Nat, NEW bv \in Nat
  PROVE  Tops(q, PolicyReads(q, bk, bv)) /\ PolicyReads(q, bk, bv) \in SUBSET Stored(q)
<1>0. KCands(q) \subseteq Stored(q) /\ VCands(q) \subseteq Stored(q)
  BY CandidatesOfKind, KindsFinite
<1>1. CASE q.cfg.policy = "joint"
  <2>1. PolicyReads(q, bk, bv) = JointReads(q, bk, bv)
    BY <1>1 DEF PolicyReads
  <2>2. JointReads(q, bk, bv) \subseteq KCands(q) \cup VCands(q)
    BY DEF JointReads, TopN
  <2> QED
    BY <1>0, <2>1, <2>2, JointTop
<1>2. CASE q.cfg.policy = "k_first"
  <2>1. PolicyReads(q, bk, bv) = KFirstReads(q, bk, bv)
    BY <1>2 DEF PolicyReads
  <2>2. KFirstReads(q, bk, bv) \subseteq KCands(q) \cup VCands(q)
    BY DEF KFirstReads, TopN
  <2> QED
    BY <1>0, <2>1, <2>2, KFirstTop
<1>3. CASE q.cfg.policy = "adaptive"
  <2>1. PolicyReads(q, bk, bv) = AdaptiveReads(q, bk, bv)
    BY <1>3 DEF PolicyReads
  <2>2. AdaptiveReads(q, bk, bv) \subseteq KCands(q) \cup VCands(q)
    BY DEF AdaptiveReads, TopN
  <2> QED
    BY <1>0, <1>3, <2>1, <2>2, AdaptiveTop
<1>4. CASE q.cfg.policy \notin {"joint", "k_first", "adaptive"}
  <2>1. PolicyReads(q, bk, bv) = TopN(q, KCands(q), bk) \cup TopN(q, VCands(q), bv)
    BY <1>4 DEF PolicyReads, SeparateReads
  <2>2. PolicyReads(q, bk, bv) \subseteq KCands(q) \cup VCands(q)
    BY <2>1 DEF TopN
  <2> QED
    BY <1>0, <2>1, <2>2, SeparateTop
<1> QED
  BY <1>1, <1>2, <1>3, <1>4

(* A threshold, relative or absolute, cuts a ranking from below. *)
LEMMA ThresholdTop ==
  ASSUME NEW q \in Queries, NEW S \in SUBSET Stored(q)
  PROVE  TopOf(q, S, AboveThreshold(q, S))
<1> DEFINE kept == {c \in S : q.score[c] >= q.cfg.thr
                      /\ \A d \in S : q.score[c] * Den >= q.cfg.rel * q.score[d]}
<1>1. /\ Den \in Nat \ {0} /\ q.cfg.thr \in Nat /\ q.cfg.rel \in Nat /\ q.cfg.keep \in Nat
  BY QueryShape, RouterAssumption DEF ConfigShape
<1>2. \A c \in S : q.score[c] \in Nat
  BY QueryShape
<1>3. TopOf(q, S, kept)
  <2> SUFFICES ASSUME NEW c \in S, NEW d \in S, c \in kept, d \notin kept
               PROVE  q.score[c] >= q.score[d]
    BY DEF TopOf
  <2>1. q.score[c] >= q.cfg.thr /\ \A e \in S : q.score[c] * Den >= q.cfg.rel * q.score[e]
    OBVIOUS
  <2>2. \/ ~ (q.score[d] >= q.cfg.thr)
        \/ \E e \in S : ~ (q.score[d] * Den >= q.cfg.rel * q.score[e])
    OBVIOUS
  <2>3. CASE ~ (q.score[d] >= q.cfg.thr)
    BY <1>1, <1>2, <2>1, <2>3
  <2>4. CASE \E e \in S : ~ (q.score[d] * Den >= q.cfg.rel * q.score[e])
    <3>1. PICK e \in S : ~ (q.score[d] * Den >= q.cfg.rel * q.score[e])
      BY <2>4
    <3>2. q.score[c] * Den >= q.cfg.rel * q.score[e]
      BY <2>1
    <3>3. q.cfg.rel * q.score[e] \in Nat
      BY <1>1, <1>2
    <3>4. q.score[c] * Den > q.score[d] * Den
      BY <1>1, <1>2, <3>1, <3>2, <3>3
    <3> QED
      BY <1>1, <1>2, <3>4
  <2> QED
    BY <2>2, <2>3, <2>4
<1>4. AboveThreshold(q, S) = kept \/ AboveThreshold(q, S) = TopN(q, S, q.cfg.keep)
  BY DEF AboveThreshold
<1> HIDE DEF kept
<1> QED
  BY <1>1, <1>3, <1>4, TopNTop

LEMMA RouteTop ==
  ASSUME NEW q \in Queries
  PROVE  Tops(q, route(q))
<1> DEFINE bk == BudgetK(q.cfg, Cardinality(KCands(q)))
           bv == BudgetV(q.cfg, Cardinality(VCands(q)))
           selected == PolicyReads(q, bk, bv)
           K == selected \cap AllK(q)
           V == selected \cap AllV(q)
<1>1. bk \in Nat /\ bv \in Nat
  BY QueryShape, CandidatesOfKind, KindsFinite, BudgetBounds
<1>2. \/ route(q) = {}
      \/ route(q) = selected
      \/ route(q) = AboveThreshold(q, K) \cup AboveThreshold(q, V)
  BY DEF route
<1> HIDE DEF bk, bv
<1>3. Tops(q, selected) /\ selected \in SUBSET Stored(q)
  BY <1>1, PolicyTop
<1> HIDE DEF selected
<1>4. TopK(q, K) /\ TopV(q, V)
  BY <1>3, KindsOfTops
<1>5. K \in SUBSET AllK(q) /\ K \in SUBSET Stored(q) /\ V \in SUBSET AllV(q) /\ V \in SUBSET Stored(q)
  BY <1>3
<1> HIDE DEF K, V
<1>6. /\ TopOf(q, K, AboveThreshold(q, K)) /\ AboveThreshold(q, K) \in SUBSET K
      /\ TopOf(q, V, AboveThreshold(q, V)) /\ AboveThreshold(q, V) \in SUBSET V
  BY <1>5, ThresholdTop, ThresholdSelects
<1>7. TopK(q, AboveThreshold(q, K)) /\ TopV(q, AboveThreshold(q, V))
  BY <1>4, <1>6 DEF TopK, TopV, TopOf
<1>8. Tops(q, AboveThreshold(q, K) \cup AboveThreshold(q, V))
  <2>1. AboveThreshold(q, K) \in SUBSET AllK(q) /\ AboveThreshold(q, V) \in SUBSET AllV(q)
    BY <1>5, <1>6
  <2> QED
    BY <1>7, <2>1, TopsByKind
<1>9. Tops(q, {})
  BY DEF Tops
<1> QED
  BY <1>2, <1>3, <1>8, <1>9

(* Without a pre-filter nothing is masked, and V never is. *)
LEMMA VectorizedTop ==
  ASSUME NEW q \in Queries, NEW S \in vectorized(q)
  PROVE  Tops(q, S)
<1> DEFINE Key(keep) == [c \in Stored(q) |-> MaskedScore(q, keep, c)]
           merges == q.cfg.policy = "joint" /\ LaneK(q) > 0 /\ LaneV(q) > 0
<1>1. PICK keep \in Shortlists(q) :
        S \in IF merges THEN TopSets(Key(keep), Stored(q), MergedBudget(LaneK(q), LaneV(q)))
             ELSE {k \cup v : k \in TopSets(Key(keep), AllK(q), LaneK(q)),
                             v \in TopSets(Key(keep), AllV(q), LaneV(q))}
  BY DEF vectorized, LaneK, LaneV
<1>2. q.cfg.pre = 0 => keep = AllK(q)
  BY DEF Shortlists
<1>3. ASSUME NEW c \in Stored(q), IsV(c) \/ q.cfg.pre = 0
      PROVE  Key(keep)[c] = q.score[c]
  BY <1>2, <1>3, QueryShape DEF MaskedScore, AllK, IsK, IsV
<1> HIDE DEF Key
<1>4. CASE merges
  <2>1. S \in TopSets(Key(keep), Stored(q), MergedBudget(LaneK(q), LaneV(q)))
    BY <1>1, <1>4
  <2>2. S \in SUBSET Stored(q) /\ \A c \in S, d \in Stored(q) \ S : Key(keep)[c] >= Key(keep)[d]
    BY <2>1 DEF TopSets
  <2> SUFFICES ASSUME NEW c \in S, NEW d \in Stored(q) \ S,
                      c[1] = d[1], IsV(c) \/ q.cfg.pre = 0
               PROVE  q.score[c] >= q.score[d]
    BY DEF Tops
  <2>3. IsV(d) \/ q.cfg.pre = 0
    BY DEF IsV
  <2> QED
    BY <1>3, <2>2, <2>3
<1>5. CASE ~ merges
  <2>1. PICK k \in TopSets(Key(keep), AllK(q), LaneK(q)), v \in TopSets(Key(keep), AllV(q), LaneV(q)) :
          S = k \cup v
    BY <1>1, <1>5
  <2>2. /\ k \in SUBSET AllK(q) /\ \A c \in k, d \in AllK(q) \ k : Key(keep)[c] >= Key(keep)[d]
        /\ v \in SUBSET AllV(q) /\ \A c \in v, d \in AllV(q) \ v : Key(keep)[c] >= Key(keep)[d]
    BY <2>1 DEF TopSets
  <2>3. TopK(q, k)
    <3> SUFFICES ASSUME q.cfg.pre = 0, NEW c \in k, NEW d \in AllK(q) \ k
                 PROVE  q.score[c] >= q.score[d]
      BY DEF TopK, TopOf
    <3>1. c \in Stored(q) /\ d \in Stored(q)
      BY <2>2, KindsFinite
    <3> QED
      BY <1>3, <2>2, <3>1
  <2>4. TopV(q, v)
    <3> SUFFICES ASSUME NEW c \in v, NEW d \in AllV(q) \ v
                 PROVE  q.score[c] >= q.score[d]
      BY DEF TopV, TopOf
    <3>1. c \in Stored(q) /\ d \in Stored(q) /\ IsV(c) /\ IsV(d)
      BY <2>2 DEF AllV
    <3> QED
      BY <1>3, <2>2, <3>1
  <2> QED
    BY <2>1, <2>2, <2>3, <2>4, TopsByKind
<1> QED
  BY <1>4, <1>5

TopInv ==
  /\ path # "idle" => query \in Queries
  /\ ReadsAreTop

LEMMA TopInvStep == TopInv /\ [Next]_vars => TopInv'
<1> SUFFICES ASSUME TopInv, [Next]_vars PROVE TopInv'
  OBVIOUS
<1>1. CASE Ask
  <2>1. query' \in Queries /\ path' \in {"prefill", "decode"}
    BY <1>1 DEF Ask
  <2> QED
    BY <2>1 DEF TopInv, ReadsAreTop, Served
<1>2. CASE Prefill \/ Decode
  <2>1. query \in Queries /\ query' = query
    BY <1>2 DEF Prefill, Decode, TopInv
  <2>2. reads' = {} \/ reads' \in vectorized(query) \/ reads' = route(query)
    BY <1>2 DEF Prefill, Decode, PrefillReads
  <2>3. Tops(query, {})
    BY DEF Tops
  <2>4. Tops(query, reads')
    BY <2>1, <2>2, <2>3, VectorizedTop, RouteTop
  <2> QED
    BY <2>1, <2>4 DEF TopInv, ReadsAreTop, Tops
<1>3. CASE Return
  <2>1. path' = "idle"
    BY <1>3 DEF Return
  <2> QED
    BY <2>1 DEF TopInv, ReadsAreTop, Served
<1>4. CASE UNCHANGED vars
  <2>1. query' = query /\ path' = path /\ reads' = reads
    BY <1>4 DEF vars
  <2> QED
    BY <2>1 DEF TopInv, ReadsAreTop, Served
<1> QED
  BY <1>1, <1>2, <1>3, <1>4 DEF Next

(* No slot is read while a better one of its kind is left out, under every *)
(* policy, budget, threshold and floor, and on both prefill paths.  (Of K  *)
(* this is asked without a pre-filter.)                                    *)
THEOREM ReadsAreBest == Spec => []ReadsAreTop
<1>1. Init => TopInv
  BY DEF Init, TopInv, ReadsAreTop, Served
<1>2. TopInv /\ [Next]_vars => TopInv'
  BY TopInvStep
<1>3. TopInv => ReadsAreTop
  BY DEF TopInv
<1> QED
  BY <1>1, <1>2, <1>3, PTL DEF Spec

-------------------------------------------------------------------------------
(* The short-circuit of a prefill reads what the router would *)

(* Whatever the scores, there is a set of the n best. *)
LEMMA TopSetsExist ==
  ASSUME NEW Key, NEW S, IsFiniteSet(S), \A x \in S : Key[x] \in Int, NEW n \in Nat
  PROVE  \E T : T \in TopSets(Key, S, n)
<1> DEFINE Bad == {m \in Nat : ~ \E T : T \in TopSets(Key, S, m)}
<1>0. Cardinality(S) \in Nat
  BY FS_CardinalityType
<1> SUFFICES ASSUME Bad # {} PROVE FALSE
  OBVIOUS
<1>1. PICK m \in Bad : \A k \in Bad : m <= k
  BY LeastMember
<1>2. m \in Nat /\ ~ \E T : T \in TopSets(Key, S, m)
  BY <1>1
<1>3. CASE m = 0
  <2>1. Cardinality({}) = Least(0, Cardinality(S))
    BY <1>0, FS_EmptySet DEF Least
  <2>2. {} \in TopSets(Key, S, 0)
    BY <2>1 DEF TopSets
  <2> QED
    BY <1>2, <1>3, <2>2
<1>4. CASE m # 0
  <2>1. m - 1 \in Nat /\ m - 1 \notin Bad
    BY <1>1, <1>2, <1>4
  <2>2. PICK T : T \in TopSets(Key, S, m - 1)
    BY <2>1
  <2>3. /\ T \in SUBSET S /\ Cardinality(T) = Least(m - 1, Cardinality(S))
        /\ \A c \in T, d \in S \ T : Key[c] >= Key[d]
    BY <2>2 DEF TopSets
  <2>4. IsFiniteSet(T)
    BY <2>3, FS_Subset
  <2>5. CASE S \ T = {}
    <3>1. T = S
      BY <2>3, <2>5
    <3>2. Cardinality(T) = Least(m, Cardinality(S))
      BY <1>0, <1>2, <2>3, <3>1 DEF Least
    <3>3. T \in TopSets(Key, S, m)
      BY <2>3, <3>2 DEF TopSets
    <3> QED
      BY <1>2, <3>3
  <2>6. CASE S \ T # {}
    <3>1. IsFiniteSet(S \ T)
      BY FS_Difference
    <3>2. PICK x \in S \ T : \A y \in S \ T : Key[x] >= Key[y]
      BY <2>6, <3>1, LargestMember
    <3>3. Cardinality(T \cup {x}) = Cardinality(T) + 1
      BY <2>4, <3>2, FS_AddElement
    <3>4. Cardinality(T) # Cardinality(S)
      BY <2>3, <2>6, FS_Subset
    <3>5. Cardinality(T \cup {x}) = Least(m, Cardinality(S))
      BY <1>0, <1>2, <2>3, <3>3, <3>4 DEF Least
    <3>6. T \cup {x} \in TopSets(Key, S, m)
      BY <2>3, <3>2, <3>5 DEF TopSets
    <3> QED
      BY <1>2, <3>6
  <2> QED
    BY <2>5, <2>6
<1> QED
  BY <1>3, <1>4

(* Where no read budget is set, every budget is zero. *)
LEMMA NoBudget ==
  ASSUME NEW cfg \in Configs, ~ any_read_budget(cfg), NEW t \in Nat
  PROVE  BudgetK(cfg, t) = 0 /\ BudgetV(cfg, t) = 0
<1>1. /\ cfg.ratio \in Nat /\ cfg.lm \in Nat /\ Den \in Nat \ {0}
      /\ cfg.abs_k \in Nat /\ cfg.ratio_k \in Nat \cup {None}
      /\ cfg.abs_v \in Nat /\ cfg.ratio_v \in Nat \cup {None}
      /\ cfg.mode \in {"ratio", "absolute", "adaptive_score"}
  BY RouterAssumption DEF ConfigShape
<1>2. /\ cfg.mode \in {"absolute", "adaptive_score"} => cfg.abs_k = 0 /\ cfg.abs_v = 0
      /\ cfg.ratio = 0 /\ cfg.ratio_k <= 0 /\ cfg.ratio_v <= 0
  BY <1>1 DEF any_read_budget, None
<1>3. ASSUME NEW abs \in Nat, NEW override \in Nat \cup {None}, override <= 0,
             cfg.mode \in {"absolute", "adaptive_score"} => abs = 0
      PROVE  KindBudget(cfg, abs, override, t) = 0
  <2>1. CASE cfg.mode \in {"absolute", "adaptive_score"}
    <3>1. abs * cfg.lm = 0
      BY <1>1, <1>3, <2>1
    <3>2. Round(0, Den) \in Nat /\ Round(0, Den) <= 0
      <4>1. 0 \in Nat /\ 0 <= 0 * Den
        BY <1>1
      <4> QED
        BY <1>1, <4>1, RoundBounds
    <3>3. Least(Round(0, Den), t) = 0
      BY <3>2 DEF Least
    <3> QED
      BY <2>1, <3>1, <3>3 DEF KindBudget
  <2>2. CASE cfg.mode \notin {"absolute", "adaptive_score"}
    <3>1. Resolved(override, cfg.ratio) = 0
      BY <1>2, <1>3 DEF Resolved, None
    <3>2. Resolved(override, cfg.ratio) * cfg.lm = 0
      BY <1>1, <3>1
    <3> QED
      BY <2>2, <3>2 DEF KindBudget
  <2> QED
    BY <2>1, <2>2
<1>4. KindBudget(cfg, cfg.abs_k, cfg.ratio_k, t) = 0
  BY <1>1, <1>2, <1>3
<1>5. KindBudget(cfg, cfg.abs_v, cfg.ratio_v, t) = 0
  BY <1>1, <1>2, <1>3
<1> QED
  BY <1>4, <1>5 DEF BudgetK, BudgetV

(* There both implementations may read nothing. *)
LEMMA NothingToRead ==
  ASSUME NEW q \in Queries, ~ any_read_budget(q.cfg)
  PROVE  route(q) = {} /\ {} \in vectorized(q)
<1>1. route(q) = {}
  <2>1. /\ q.cfg \in Configs
        /\ Cardinality(KCands(q)) \in Nat /\ Cardinality(VCands(q)) \in Nat
    BY QueryShape, CandidatesOfKind
  <2> QED
    BY <2>1, NoBudget DEF route
<1>2. LaneK(q) = 0 /\ LaneV(q) = 0
  <2>1. /\ q.cfg \in Configs
        /\ Cardinality(AllK(q)) \in Nat /\ Cardinality(AllV(q)) \in Nat
    BY QueryShape, KindsFinite
  <2> QED
    BY <2>1, NoBudget DEF LaneK, LaneV
<1>3. \E keep : keep \in Shortlists(q)
  <2>1. CASE 0 < q.cfg.pre /\ q.cfg.pre < Cardinality(AllK(q))
    <3>1. q.cfg.pre \in Nat
      BY QueryShape, RouterAssumption DEF ConfigShape
    <3>2. \A c \in AllK(q) : q.bound[c] \in Int
      BY QueryShape DEF AllK
    <3>3. \E T : T \in TopSets(q.bound, AllK(q), q.cfg.pre)
      BY <3>1, <3>2, KindsFinite, TopSetsExist
    <3> QED
      BY <2>1, <3>3 DEF Shortlists
  <2>2. CASE ~ (0 < q.cfg.pre /\ q.cfg.pre < Cardinality(AllK(q)))
    BY <2>2 DEF Shortlists
  <2> QED
    BY <2>1, <2>2
<1>4. PICK keep : keep \in Shortlists(q)
  BY <1>3
<1> DEFINE Key == [c \in Stored(q) |-> MaskedScore(q, keep, c)]
<1>5. ASSUME NEW S, IsFiniteSet(S)
      PROVE  {} \in TopSets(Key, S, 0)
  <2>1. Cardinality({}) = 0 /\ Cardinality(S) \in Nat
    BY <1>5, FS_EmptySet, FS_CardinalityType
  <2>2. Cardinality({}) = Least(0, Cardinality(S))
    BY <2>1 DEF Least
  <2> HIDE DEF Key
  <2> QED
    BY <2>2 DEF TopSets
<1>6. {} \in TopSets(Key, AllK(q), LaneK(q)) /\ {} \in TopSets(Key, AllV(q), LaneV(q))
  BY <1>2, <1>5, KindsFinite
<1>7. {} \in {k \cup v : k \in TopSets(Key, AllK(q), LaneK(q)),
                        v \in TopSets(Key, AllV(q), LaneV(q))}
  <2> HIDE DEF Key
  <2>1. {} = {} \cup {}
    OBVIOUS
  <2> QED
    BY <1>6, <2>1
<1>8. {} \in vectorized(q)
  BY <1>2, <1>4, <1>7 DEF vectorized, LaneK, LaneV
<1> QED
  BY <1>1, <1>8

GateInv ==
  /\ path # "idle" => query \in Queries
  /\ PrefillGateExact

LEMMA GateInvStep == GateInv /\ [Next]_vars => GateInv'
<1> SUFFICES ASSUME GateInv, [Next]_vars PROVE GateInv'
  OBVIOUS
<1>1. CASE Ask
  <2>1. query' \in Queries /\ path' \in {"prefill", "decode"}
    BY <1>1 DEF Ask
  <2> QED
    BY <2>1 DEF GateInv, PrefillGateExact
<1>2. CASE Prefill
  <2>1. query \in Queries /\ query' = query /\ reads' \in PrefillReads(query)
    BY <1>2 DEF Prefill, GateInv
  <2>2. CASE any_read_budget(query.cfg)
    BY <2>1, <2>2 DEF GateInv, PrefillGateExact, PrefillReads
  <2>3. CASE ~ any_read_budget(query.cfg)
    <3>1. reads' = {}
      BY <2>1, <2>3 DEF PrefillReads
    <3> QED
      BY <2>1, <2>3, <3>1, NothingToRead DEF GateInv, PrefillGateExact
  <2> QED
    BY <2>2, <2>3
<1>3. CASE Decode
  <2>1. query \in Queries /\ query' = query /\ path' = "decoded"
    BY <1>3 DEF Decode, GateInv
  <2> QED
    BY <2>1 DEF GateInv, PrefillGateExact
<1>4. CASE Return
  <2>1. path' = "idle"
    BY <1>4 DEF Return
  <2> QED
    BY <2>1 DEF GateInv, PrefillGateExact
<1>5. CASE UNCHANGED vars
  <2>1. query' = query /\ path' = path /\ reads' = reads
    BY <1>5 DEF vars
  <2> QED
    BY <2>1 DEF GateInv, PrefillGateExact
<1> QED
  BY <1>1, <1>2, <1>3, <1>4, <1>5 DEF Next

(* Skipping the correction of a prefill, where no read budget is set, skips *)
(* nothing: neither implementation would have had to read a slot, for any  *)
(* mix of modes, ratios, overrides, layer multipliers and pre-filters.     *)
THEOREM ShortCircuitExact == Spec => []PrefillGateExact
<1>1. Init => GateInv
  BY DEF Init, GateInv, PrefillGateExact
<1>2. GateInv /\ [Next]_vars => GateInv'
  BY GateInvStep
<1>3. GateInv => PrefillGateExact
  BY DEF GateInv
<1> QED
  BY <1>1, <1>2, <1>3, PTL DEF Spec

-------------------------------------------------------------------------------
(* The batched correction mirrors the router *)

(* Of any set of slots one beats all the others. *)
LEMMA BestSlot ==
  ASSUME NEW q \in Queries, NEW S \in SUBSET Stored(q), S # {}
  PROVE  \E m \in S : \A x \in S : x # m => Beats(q, m, x)
<1> DEFINE Above(m) == {x \in S : Beats(q, x, m)}
           Counts == {Cardinality(Above(m)) : m \in S}
<1>1. ASSUME NEW m \in S PROVE IsFiniteSet(Above(m)) /\ Cardinality(Above(m)) \in Nat
  <2>1. Above(m) \in SUBSET Stored(q)
    OBVIOUS
  <2> QED
    BY <2>1, QueryShape, FS_Subset, FS_CardinalityType
<1>2. Counts \subseteq Nat /\ Counts # {}
  <2> HIDE DEF Above
  <2> QED
    BY <1>1
<1>3. PICK least \in Counts : \A k \in Counts : least <= k
  BY <1>2, LeastMember
<1>4. PICK m \in S : Cardinality(Above(m)) = least
  OBVIOUS
<1>5. ASSUME NEW x \in S, Beats(q, x, m) PROVE FALSE
  <2>0. x \in Stored(q) /\ m \in Stored(q)
    OBVIOUS
  <2>1. Above(x) \in SUBSET Above(m)
    <3> SUFFICES ASSUME NEW e \in S, Beats(q, e, x) PROVE Beats(q, e, m)
      OBVIOUS
    <3>1. e \in Stored(q)
      OBVIOUS
    <3> QED
      BY <1>5, <2>0, <3>1, BeatsOrder
  <2>2. x \in Above(m) /\ x \notin Above(x)
    BY <1>5, <2>0, BeatsOrder
  <2>3. Above(x) # Above(m)
    BY <2>2
  <2> HIDE DEF Above
  <2>4. Cardinality(Above(x)) < Cardinality(Above(m))
    BY <1>1, <2>1, <2>3, FS_Subset
  <2>5. Cardinality(Above(x)) \in Counts
    OBVIOUS
  <2> QED
    BY <1>1, <1>3, <1>4, <2>4, <2>5
<1>6. ASSUME NEW x \in S, x # m PROVE Beats(q, m, x)
  <2>1. x \in Stored(q) /\ m \in Stored(q)
    OBVIOUS
  <2> QED
    BY <1>5, <1>6, <2>1, BeatsOrder
<1> QED
  BY <1>6

(* One more place in a ranking goes to the best of the rest. *)
LEMMA NextPlace ==
  ASSUME NEW q \in Queries, NEW S \in SUBSET Stored(q), NEW n \in Nat,
         Cardinality(TopN(q, S, n)) = n, NEW m \in S \ TopN(q, S, n),
         \A x \in S \ TopN(q, S, n) : x # m => Beats(q, m, x)
  PROVE  TopN(q, S, n + 1) = TopN(q, S, n) \cup {m}
<1> DEFINE T == TopN(q, S, n)
           Above(x) == {e \in S : Beats(q, e, x)}
<1>1. T \in SUBSET S /\ IsFiniteSet(T) /\ S \in SUBSET Stored(q)
  BY TopNBounds
<1>2. ASSUME NEW x \in S PROVE IsFiniteSet(Above(x)) /\ Cardinality(Above(x)) \in Nat
  <2>1. Above(x) \in SUBSET Stored(q)
    OBVIOUS
  <2> QED
    BY <2>1, QueryShape, FS_Subset, FS_CardinalityType
<1>3. \A x \in S : x \in T <=> Cardinality(Above(x)) < n
  BY DEF TopN
<1>4. \A x \in S : x \in TopN(q, S, n + 1) <=> Cardinality(Above(x)) < n + 1
  BY DEF TopN
<1>5. TopN(q, S, n + 1) \subseteq S
  BY DEF TopN
<1>6. \A c \in T, d \in S \ T : Beats(q, c, d)
  BY TopNBeats
<1> HIDE DEF T
<1>7. m \in S /\ m \notin T /\ m \in Stored(q)
  BY <1>1 DEF T
<1>8. Cardinality(Above(m)) = n
  <2>1. T \subseteq Above(m)
    BY <1>1, <1>6, <1>7
  <2>2. ASSUME NEW e \in S, e \notin T, Beats(q, e, m) PROVE FALSE
    <3>1. e \in Stored(q)
      OBVIOUS
    <3>2. e # m
      BY <1>7, <2>2, BeatsOrder
    <3>3. Beats(q, m, e)
      BY <2>2, <3>2 DEF T
    <3>4. Beats(q, m, m)
      BY <1>7, <2>2, <3>1, <3>3, BeatsOrder
    <3> QED
      BY <1>7, <3>4, BeatsOrder
  <2>3. Above(m) = T
    BY <2>1, <2>2
  <2> QED
    BY <2>3 DEF T
<1>9. ASSUME NEW x \in S, x \notin T, x # m PROVE Cardinality(Above(x)) >= n + 1
  <2>1. Beats(q, m, x)
    BY <1>9 DEF T
  <2>2. T \cup {m} \in SUBSET Above(x)
    BY <1>1, <1>6, <1>7, <1>9, <2>1
  <2>3. Cardinality(T \cup {m}) = n + 1
    <3>1. Cardinality(T) = n
      BY DEF T
    <3> QED
      BY <1>1, <1>7, <3>1, FS_AddElement
  <2> HIDE DEF Above
  <2>4. Cardinality(T \cup {m}) <= Cardinality(Above(x))
    BY <1>2, <2>2, FS_Subset
  <2> QED
    BY <1>2, <2>3, <2>4
<1> HIDE DEF Above
<1>10. ASSUME NEW x \in S PROVE x \in TopN(q, S, n + 1) <=> x \in T \cup {m}
  <2>1. CASE x \in T
    <3>1. Cardinality(Above(x)) < n
      BY <1>3, <2>1
    <3>2. Cardinality(Above(x)) \in Nat
      BY <1>2
    <3>3. Cardinality(Above(x)) < n + 1
      BY <3>1, <3>2
    <3> QED
      BY <1>4, <2>1, <3>3
  <2>2. CASE x = m
    <3>1. Cardinality(Above(x)) < n + 1
      BY <1>8, <2>2
    <3> QED
      BY <1>4, <2>2, <3>1
  <2>3. CASE x \notin T /\ x # m
    <3>1. ~ (Cardinality(Above(x)) < n + 1)
      BY <1>2, <1>9, <2>3
    <3> QED
      BY <1>4, <2>3, <3>1
  <2> QED
    BY <2>1, <2>2, <2>3
<1>11. TopN(q, S, n + 1) = T \cup {m}
  BY <1>1, <1>5, <1>7, <1>10
<1> QED
  BY <1>11 DEF T

(* The first n of a ranking are n, or all there are. *)
LEMMA TopNExact ==
  ASSUME NEW q \in Queries, NEW S \in SUBSET Stored(q), NEW n \in Nat
  PROVE  Cardinality(TopN(q, S, n)) = Least(n, Cardinality(S))
<1> DEFINE Bad == {m \in Nat : Cardinality(TopN(q, S, m)) # Least(m, Cardinality(S))}
<1>0. IsFiniteSet(S) /\ Cardinality(S) \in Nat
  BY QueryShape, FS_Subset, FS_CardinalityType
<1> SUFFICES ASSUME Bad # {} PROVE FALSE
  OBVIOUS
<1>1. PICK m \in Bad : \A k \in Bad : m <= k
  BY LeastMember
<1>2. m \in Nat /\ Cardinality(TopN(q, S, m)) # Least(m, Cardinality(S))
  BY <1>1
<1>3. m # 0
  <2> SUFFICES ASSUME m = 0 PROVE FALSE
    OBVIOUS
  <2>1. Cardinality(TopN(q, S, 0)) \in Nat /\ Cardinality(TopN(q, S, 0)) <= 0
    BY TopNBounds, FS_CardinalityType
  <2> QED
    BY <1>0, <1>2, <2>1 DEF Least
<1>4. m - 1 \in Nat /\ m - 1 \notin Bad /\ (m - 1) + 1 = m
  BY <1>1, <1>2, <1>3
<1> DEFINE k == m - 1
           T == TopN(q, S, k)
<1>5. Cardinality(T) = Least(k, Cardinality(S)) /\ k \in Nat /\ k + 1 = m
  BY <1>4
<1>6. T \in SUBSET S /\ IsFiniteSet(T) /\ Cardinality(T) \in Nat
  BY <1>4, TopNBounds, FS_CardinalityType
<1> HIDE DEF k
<1>7. CASE S \ T = {}
  <2>1. T = S
    BY <1>6, <1>7
  <2>2. TopN(q, S, m) = S
    <3> SUFFICES ASSUME NEW x \in S PROVE x \in TopN(q, S, m)
      BY DEF TopN
    <3>1. Cardinality({d \in S : Beats(q, d, x)}) < k
      BY <2>1 DEF TopN
    <3>2. Cardinality({d \in S : Beats(q, d, x)}) \in Nat
      <4>1. {d \in S : Beats(q, d, x)} \in SUBSET S
        OBVIOUS
      <4> QED
        BY <4>1, <1>0, FS_Subset, FS_CardinalityType
    <3>3. Cardinality({d \in S : Beats(q, d, x)}) < m
      BY <1>5, <3>1, <3>2
    <3> QED
      BY <3>3 DEF TopN
  <2> QED
    BY <1>0, <1>2, <1>5, <2>1, <2>2 DEF Least
<1>8. CASE S \ T # {}
  <2>1. Cardinality(T) # Cardinality(S)
    BY <1>0, <1>6, <1>8, FS_Subset
  <2>2. Cardinality(T) = k /\ k < Cardinality(S)
    BY <1>0, <1>5, <2>1 DEF Least
  <2>3. S \ T \in SUBSET Stored(q)
    OBVIOUS
  <2>4. PICK x \in S \ T : \A y \in S \ T : y # x => Beats(q, x, y)
    BY <1>8, <2>3, BestSlot
  <2>5. TopN(q, S, k + 1) = T \cup {x}
    BY <1>5, <2>2, <2>4, NextPlace
  <2>6. Cardinality(T \cup {x}) = k + 1
    BY <1>6, <2>2, <2>4, FS_AddElement
  <2> QED
    BY <1>0, <1>2, <1>5, <2>2, <2>5, <2>6 DEF Least
<1> QED
  BY <1>7, <1>8

LEMMA TopNIsTopSet ==
  ASSUME NEW q \in Queries, NEW S \in SUBSET Stored(q), NEW n \in Nat,
         NEW Key, \A c \in S : Key[c] = q.score[c]
  PROVE  TopN(q, S, n) \in TopSets(Key, S, n)
<1>1. TopN(q, S, n) \in SUBSET S /\ Cardinality(TopN(q, S, n)) = Least(n, Cardinality(S))
  BY TopNBounds, TopNExact
<1>2. \A c \in TopN(q, S, n), d \in S \ TopN(q, S, n) : Key[c] >= Key[d]
  BY <1>1, TopNTop DEF TopOf
<1> QED
  BY <1>1, <1>2 DEF TopSets

(* A kind that is not read has no candidates and no budget. *)
LEMMA SameSelections ==
  ASSUME NEW q \in Queries, q.cfg.pre = 0
  PROVE  /\ TopN(q, KCands(q), BudgetK(q.cfg, Cardinality(KCands(q))))
              = TopN(q, AllK(q), LaneK(q))
         /\ TopN(q, VCands(q), BudgetV(q.cfg, Cardinality(VCands(q))))
              = TopN(q, AllV(q), LaneV(q))
<1>1. ASSUME NEW S \in SUBSET Stored(q) PROVE TopN(q, S, 0) = {}
  <2>1. IsFiniteSet(TopN(q, S, 0)) /\ Cardinality(TopN(q, S, 0)) <= 0
    BY TopNBounds
  <2>2. Cardinality(TopN(q, S, 0)) = 0
    BY <2>1, FS_CardinalityType
  <2> QED
    BY <2>1, <2>2, FS_EmptySet
<1>2. \A n : TopN(q, {}, n) = {}
  BY DEF TopN
<1>3. CASE q.cfg.kind = "v"
  <2>1. LaneK(q) = 0 /\ KCands(q) = {} /\ VCands(q) = AllV(q)
    BY <1>3 DEF LaneK, BudgetK, KCands, VCands
  <2> QED
    BY <1>1, <1>2, <2>1, KindsFinite DEF LaneV
<1>4. CASE q.cfg.kind = "k"
  <2>1. LaneV(q) = 0 /\ VCands(q) = {} /\ KCands(q) = AllK(q)
    BY <1>4 DEF LaneV, BudgetV, KCands, VCands, Shortlist
  <2> QED
    BY <1>1, <1>2, <2>1, KindsFinite DEF LaneK
<1>5. CASE q.cfg.kind \notin {"k", "v"}
  BY <1>5 DEF LaneK, LaneV, KCands, VCands, Shortlist
<1> QED
  BY <1>3, <1>4, <1>5

LEMMA RouteMirrored ==
  ASSUME NEW q \in Queries, Mirrored(q)
  PROVE  route(q) \in vectorized(q)
<1> DEFINE Key == [c \in Stored(q) |-> MaskedScore(q, AllK(q), c)]
           merges == q.cfg.policy = "joint" /\ LaneK(q) > 0 /\ LaneV(q) > 0
           bk == BudgetK(q.cfg, Cardinality(KCands(q)))
           bv == BudgetV(q.cfg, Cardinality(VCands(q)))
<1>1. q.cfg.pre = 0 /\ q.cfg.mode # "adaptive_score"
  BY DEF Mirrored
<1>2. AllK(q) \in Shortlists(q)
  BY <1>1 DEF Shortlists
<1>3. \A c \in Stored(q) : Key[c] = q.score[c]
  BY QueryShape DEF MaskedScore, AllK, IsK, IsV
<1>4. \A S : S \in (IF merges
                    THEN TopSets(Key, Stored(q), MergedBudget(LaneK(q), LaneV(q)))
                    ELSE {k \cup v : k \in TopSets(Key, AllK(q), LaneK(q)),
                                    v \in TopSets(Key, AllV(q), LaneV(q))})
             => S \in vectorized(q)
  BY <1>2 DEF vectorized, LaneK, LaneV
<1>5. LaneK(q) \in Nat /\ LaneV(q) \in Nat
  BY LaneBudgets
<1>6. AllK(q) \in SUBSET Stored(q) /\ AllV(q) \in SUBSET Stored(q)
  BY KindsFinite
<1>7. route(q) = IF bk = 0 /\ bv = 0 THEN {} ELSE PolicyReads(q, bk, bv)
  BY <1>1 DEF route
<1>8. /\ TopN(q, KCands(q), bk) = TopN(q, AllK(q), LaneK(q))
      /\ TopN(q, VCands(q), bv) = TopN(q, AllV(q), LaneV(q))
  BY <1>1, SameSelections
<1>9. CASE merges
  <2>1. q.cfg.kind # "v" /\ q.cfg.kind # "k"
    BY <1>9 DEF LaneK, LaneV, BudgetK, BudgetV
  <2>2. KCands(q) = AllK(q) /\ VCands(q) = AllV(q)
    BY <1>1, <2>1 DEF KCands, VCands, Shortlist
  <2>3. bk = LaneK(q) /\ bv = LaneV(q)
    BY <2>2 DEF LaneK, LaneV
  <2>4. AllK(q) \cup AllV(q) = Stored(q)
    BY QueryShape DEF AllK, AllV, IsK, IsV
  <2> HIDE DEF bk, bv, Key
  <2>5. PolicyReads(q, bk, bv) = TopN(q, Stored(q), MergedBudget(LaneK(q), LaneV(q)))
    BY <1>9, <2>2, <2>3, <2>4 DEF PolicyReads, JointReads
  <2>6. route(q) = TopN(q, Stored(q), MergedBudget(LaneK(q), LaneV(q)))
    BY <1>5, <1>7, <1>9, <2>3, <2>5
  <2>7. MergedBudget(LaneK(q), LaneV(q)) \in Nat
    BY <1>5 DEF MergedBudget, Most
  <2>8. route(q) \in TopSets(Key, Stored(q), MergedBudget(LaneK(q), LaneV(q)))
    BY <1>3, <2>6, <2>7, TopNIsTopSet
  <2> QED
    BY <1>4, <1>9, <2>8
<1>10. CASE ~ merges
  <2>1. q.cfg.policy = "separate"
    BY <1>10 DEF Mirrored, LaneK, LaneV
  <2> HIDE DEF bk, bv, Key
  <2>2. PolicyReads(q, bk, bv) = TopN(q, AllK(q), LaneK(q)) \cup TopN(q, AllV(q), LaneV(q))
    BY <1>8, <2>1 DEF PolicyReads, SeparateReads
  <2>3. ASSUME NEW S \in SUBSET Stored(q) PROVE TopN(q, S, 0) = {}
    <3>1. IsFiniteSet(TopN(q, S, 0)) /\ Cardinality(TopN(q, S, 0)) <= 0
      BY TopNBounds
    <3>2. Cardinality(TopN(q, S, 0)) = 0
      BY <3>1, FS_CardinalityType
    <3> QED
      BY <3>1, <3>2, FS_EmptySet
  <2>4. route(q) = TopN(q, AllK(q), LaneK(q)) \cup TopN(q, AllV(q), LaneV(q))
    <3>1. CASE bk = 0 /\ bv = 0
      <4>1. KCands(q) \in SUBSET Stored(q) /\ VCands(q) \in SUBSET Stored(q)
        BY CandidatesOfKind, KindsFinite
      <4>2. TopN(q, KCands(q), bk) = {} /\ TopN(q, VCands(q), bv) = {}
        BY <2>3, <3>1, <4>1
      <4> QED
        BY <1>7, <1>8, <3>1, <4>2
    <3>2. CASE ~ (bk = 0 /\ bv = 0)
      BY <1>7, <2>2, <3>2
    <3> QED
      BY <3>1, <3>2
  <2>5. /\ TopN(q, AllK(q), LaneK(q)) \in TopSets(Key, AllK(q), LaneK(q))
        /\ TopN(q, AllV(q), LaneV(q)) \in TopSets(Key, AllV(q), LaneV(q))
    BY <1>3, <1>5, <1>6, TopNIsTopSet
  <2>6. route(q) \in {k \cup v : k \in TopSets(Key, AllK(q), LaneK(q)),
                                v \in TopSets(Key, AllV(q), LaneV(q))}
    BY <2>4, <2>5
  <2> QED
    BY <1>4, <1>10, <2>6
<1> QED
  BY <1>9, <1>10

MirrorInv ==
  /\ path # "idle" => query \in Queries
  /\ VectorizedMirrorsRoute

LEMMA MirrorInvStep == MirrorInv /\ [Next]_vars => MirrorInv'
<1> SUFFICES ASSUME MirrorInv, [Next]_vars PROVE MirrorInv'
  OBVIOUS
<1>1. CASE Ask
  <2>1. query' \in Queries /\ path' \in {"prefill", "decode"}
    BY <1>1 DEF Ask
  <2> QED
    BY <2>1 DEF MirrorInv, VectorizedMirrorsRoute, Served
<1>2. CASE Prefill \/ Decode
  <2>1. query \in Queries /\ query' = query
    BY <1>2 DEF Prefill, Decode, MirrorInv
  <2> QED
    BY <2>1, RouteMirrored DEF MirrorInv, VectorizedMirrorsRoute
<1>3. CASE Return
  <2>1. path' = "idle"
    BY <1>3 DEF Return
  <2> QED
    BY <2>1 DEF MirrorInv, VectorizedMirrorsRoute, Served
<1>4. CASE UNCHANGED vars
  <2>1. query' = query /\ path' = path
    BY <1>4 DEF vars
  <2> QED
    BY <2>1 DEF MirrorInv, VectorizedMirrorsRoute, Served
<1> QED
  BY <1>1, <1>2, <1>3, <1>4 DEF Next

(* With fixed budgets and no pre-filter, the selection of the batched       *)
(* correction may be the router's, whatever the scores and the ties.       *)
THEOREM BatchedMirrorsRouter == Spec => []VectorizedMirrorsRoute
<1>1. Init => MirrorInv
  BY DEF Init, MirrorInv, VectorizedMirrorsRoute, Served
<1>2. MirrorInv /\ [Next]_vars => MirrorInv'
  BY MirrorInvStep
<1>3. MirrorInv => VectorizedMirrorsRoute
  BY DEF MirrorInv
<1> QED
  BY <1>1, <1>2, <1>3, PTL DEF Spec

-------------------------------------------------------------------------------
(* A larger budget keeps the reads *)

(* S grows to T, and what it gains ranks below what it has, kind by kind. *)
Grows(q, S, T) ==
  /\ S \in SUBSET T
  /\ \A c \in S, d \in T \ S : c[1] = d[1] => Beats(q, c, d)

LEMMA RankingGrows ==
  ASSUME NEW q \in Queries, NEW S \in SUBSET Stored(q),
         NEW m \in Nat, NEW n \in Nat, m <= n
  PROVE  Grows(q, TopN(q, S, m), TopN(q, S, n))
<1>1. ASSUME NEW c \in TopN(q, S, m) PROVE c \in TopN(q, S, n)
  <2>1. c \in S /\ Cardinality({d \in S : Beats(q, d, c)}) < m
    BY DEF TopN
  <2>2. Cardinality({d \in S : Beats(q, d, c)}) \in Nat
    <3>1. {d \in S : Beats(q, d, c)} \in SUBSET Stored(q)
      OBVIOUS
    <3> QED
      BY <3>1, QueryShape, FS_Subset, FS_CardinalityType
  <2>3. Cardinality({d \in S : Beats(q, d, c)}) < n
    BY <2>1, <2>2
  <2> QED
    BY <2>1, <2>3 DEF TopN
<1>2. ASSUME NEW c \in TopN(q, S, m), NEW d \in TopN(q, S, n) \ TopN(q, S, m)
      PROVE  Beats(q, c, d)
  <2>1. d \in S \ TopN(q, S, m)
    BY DEF TopN
  <2> QED
    BY <2>1, TopNBeats
<1> QED
  BY <1>1, <1>2 DEF Grows

LEMMA GrowsByKind ==
  ASSUME NEW q \in Queries, NEW K1 \in SUBSET AllK(q), NEW V1 \in SUBSET AllV(q),
         NEW K2 \in SUBSET AllK(q), NEW V2 \in SUBSET AllV(q),
         Grows(q, K1, K2), Grows(q, V1, V2)
  PROVE  Grows(q, K1 \cup V1, K2 \cup V2)
<1>1. K1 \cup V1 \in SUBSET (K2 \cup V2)
  BY DEF Grows
<1>2. ASSUME NEW c \in K1 \cup V1, NEW d \in (K2 \cup V2) \ (K1 \cup V1), c[1] = d[1]
      PROVE  Beats(q, c, d)
  <2>1. CASE c \in K1
    <3>1. d \in K2 \ K1
      BY <1>2, <2>1 DEF AllK, AllV, IsK, IsV
    <3> QED
      BY <1>2, <2>1, <3>1 DEF Grows
  <2>2. CASE c \in V1
    <3>1. d \in V2 \ V1
      BY <1>2, <2>2 DEF AllK, AllV, IsK, IsV
    <3> QED
      BY <1>2, <2>2, <3>1 DEF Grows
  <2> QED
    BY <2>1, <2>2
<1> QED
  BY <1>1, <1>2 DEF Grows

LEMMA SeparateGrows ==
  ASSUME NEW q \in Queries, NEW K \in SUBSET AllK(q), NEW V \in SUBSET AllV(q),
         NEW a \in Nat, NEW b \in Nat, NEW c \in Nat, NEW d \in Nat, a <= c, b <= d
  PROVE  Grows(q, TopN(q, K, a) \cup TopN(q, V, b), TopN(q, K, c) \cup TopN(q, V, d))
<1>1. K \in SUBSET Stored(q) /\ V \in SUBSET Stored(q)
  BY KindsFinite
<1>2. Grows(q, TopN(q, K, a), TopN(q, K, c)) /\ Grows(q, TopN(q, V, b), TopN(q, V, d))
  BY <1>1, RankingGrows
<1>3. /\ TopN(q, K, a) \in SUBSET AllK(q) /\ TopN(q, K, c) \in SUBSET AllK(q)
      /\ TopN(q, V, b) \in SUBSET AllV(q) /\ TopN(q, V, d) \in SUBSET AllV(q)
  BY TopNOfKind
<1> QED
  BY <1>2, <1>3, GrowsByKind

(* Under k_first a K slot more never takes a V slot away: K gains at most  *)
(* what its budget does.                                                   *)
LEMMA KFirstGrows ==
  ASSUME NEW q \in Queries, NEW bk \in Nat, NEW bv \in Nat, NEW ck \in Nat, NEW cv \in Nat,
         bk <= ck, bv <= cv
  PROVE  Grows(q, KFirstReads(q, bk, bv), KFirstReads(q, ck, cv))
<1> DEFINE kb   == TopN(q, KCands(q), bk)
           kc   == TopN(q, KCands(q), ck)
           good == {c \in VCands(q) : q.score[c] * Cardinality(VCands(q))
                                        >= MapThenSumSet(LAMBDA d : q.score[d], VCands(q))}
           lb   == Most(0, bk + bv - Cardinality(kb))
           lc   == Most(0, ck + cv - Cardinality(kc))
<1>1. /\ KFirstReads(q, bk, bv) = kb \cup TopN(q, good, lb)
      /\ KFirstReads(q, ck, cv) = kc \cup TopN(q, good, lc)
  BY DEF KFirstReads
<1>2. /\ KCands(q) \in SUBSET AllK(q) /\ VCands(q) \in SUBSET AllV(q)
      /\ KCands(q) \in SUBSET Stored(q) /\ Cardinality(KCands(q)) \in Nat
  BY CandidatesOfKind, KindsFinite
<1>3. good \in SUBSET AllV(q)
  BY <1>2
<1>4. /\ Cardinality(kb) = Least(bk, Cardinality(KCands(q)))
      /\ Cardinality(kc) = Least(ck, Cardinality(KCands(q)))
  BY <1>2, TopNExact
<1> HIDE DEF kb, kc, good
<1>5. lb \in Nat /\ lc \in Nat /\ lb <= lc
  BY <1>2, <1>4 DEF Least, Most
<1> HIDE DEF lb, lc
<1>6. Grows(q, kb \cup TopN(q, good, lb), kc \cup TopN(q, good, lc))
  BY <1>2, <1>3, <1>5, SeparateGrows DEF kb, kc
<1> QED
  BY <1>1, <1>6

LEMMA PolicyGrows ==
  ASSUME NEW q \in Queries, NEW bk \in Nat, NEW bv \in Nat, NEW ck \in Nat, NEW cv \in Nat,
         bk <= ck, bv <= cv
  PROVE  Grows(q, PolicyReads(q, bk, bv), PolicyReads(q, ck, cv))
<1>0. /\ KCands(q) \in SUBSET AllK(q) /\ VCands(q) \in SUBSET AllV(q)
      /\ KCands(q) \cup VCands(q) \in SUBSET Stored(q)
  BY CandidatesOfKind, KindsFinite
<1>1. CASE q.cfg.policy = "joint"
  <2>1. /\ MergedBudget(bk, bv) \in Nat /\ MergedBudget(ck, cv) \in Nat
        /\ MergedBudget(bk, bv) <= MergedBudget(ck, cv)
    BY DEF MergedBudget, Most
  <2>2. Grows(q, JointReads(q, bk, bv), JointReads(q, ck, cv))
    BY <1>0, <2>1, RankingGrows DEF JointReads
  <2> QED
    BY <1>1, <2>2 DEF PolicyReads
<1>2. CASE q.cfg.policy = "k_first"
  <2>1. Grows(q, KFirstReads(q, bk, bv), KFirstReads(q, ck, cv))
    BY KFirstGrows
  <2> QED
    BY <1>2, <2>1 DEF PolicyReads
<1>3. CASE q.cfg.policy = "adaptive"
  <2> DEFINE b  == bk + bv
             c  == ck + cv
             v1 == Round((bk + bv) * q.v_frac, Den)
             v2 == Round((ck + cv) * q.v_frac, Den)
             k1 == bk + bv - v1
             k2 == ck + cv - v2
  <2>0. /\ AdaptiveReads(q, bk, bv) = TopN(q, KCands(q), k1) \cup TopN(q, VCands(q), v1)
        /\ AdaptiveReads(q, ck, cv) = TopN(q, KCands(q), k2) \cup TopN(q, VCands(q), v2)
    BY DEF AdaptiveReads
  <2>1. Den \in Nat \ {0} /\ q.v_frac \in Nat /\ q.v_frac \in 0 .. Den
    BY <1>3, QueryShape, RouterAssumption
  <2>2. b \in Nat /\ c \in Nat /\ b <= c
    OBVIOUS
  <2>3. v1 = Round(b * q.v_frac, Den) /\ v2 = Round(c * q.v_frac, Den)
    OBVIOUS
  <2> HIDE DEF b, c, v1, v2, k1, k2
  <2>4. ASSUME NEW n \in Nat PROVE Round(n * q.v_frac, Den) \in Nat /\ Round(n * q.v_frac, Den) <= n
    <3>1. n * q.v_frac \in Nat /\ n * q.v_frac <= n * Den
      BY <2>1
    <3> QED
      BY <2>1, <3>1, RoundBounds
  <2>5. Round(b * q.v_frac, Den) <= Round(c * q.v_frac, Den)
    <3>1. b * q.v_frac \in Nat /\ c * q.v_frac \in Nat
      BY <2>1, <2>2
    <3>2. b * q.v_frac <= c * q.v_frac
      BY <2>1, <2>2
    <3> QED
      BY <2>1, <3>1, <3>2, RoundMonotone
  <2>6. b - Round(b * q.v_frac, Den) <= c - Round(c * q.v_frac, Den)
    BY <2>1, <2>2, RoundLeaves
  <2>7. v1 \in Nat /\ v2 \in Nat /\ v1 <= v2 /\ v1 <= b /\ v2 <= c
    BY <2>2, <2>3, <2>4, <2>5
  <2>8. k1 \in Nat /\ k2 \in Nat /\ k1 <= k2
    <3>1. k1 = b - v1 /\ k2 = c - v2
      BY <2>7 DEF k1, k2, b, c
    <3> QED
      BY <2>2, <2>3, <2>6, <2>7, <3>1
  <2>9. Grows(q, AdaptiveReads(q, bk, bv), AdaptiveReads(q, ck, cv))
    BY <1>0, <2>0, <2>7, <2>8, SeparateGrows
  <2> QED
    BY <1>3, <2>9 DEF PolicyReads
<1>4. CASE q.cfg.policy \notin {"joint", "k_first", "adaptive"}
  <2>1. Grows(q, SeparateReads(q, bk, bv), SeparateReads(q, ck, cv))
    BY <1>0, SeparateGrows DEF SeparateReads
  <2> QED
    BY <1>4, <2>1 DEF PolicyReads
<1> QED
  BY <1>1, <1>2, <1>3, <1>4

(* The thresholds and the floor.  What a selection gains ranks below what  *)
(* it had, so the best score, which the relative threshold goes by, stays, *)
(* and so does the rank of every slot the floor keeps.                     *)
LEMMA ThresholdGrows ==
  ASSUME NEW q \in Queries, NEW T \in SUBSET Stored(q), NEW S \in SUBSET T,
         \A c \in S, d \in T \ S : Beats(q, c, d)
  PROVE  AboveThreshold(q, S) \subseteq AboveThreshold(q, T)
<1> DEFINE Kept(R) == {c \in R : q.score[c] >= q.cfg.thr
                         /\ \A d \in R : q.score[c] * Den >= q.cfg.rel * q.score[d]}
           floor == q.cfg.keep
           Above(R, x) == {d \in R : Beats(q, d, x)}
<1>0. Den \in Nat \ {0} /\ q.cfg.thr \in Nat /\ q.cfg.rel \in Nat /\ floor \in Nat
  BY QueryShape, RouterAssumption DEF ConfigShape
<1>1. \A c \in T : q.score[c] \in Nat
  BY QueryShape
<1>2. \A c \in S, d \in T \ S : q.score[c] >= q.score[d]
  <2> SUFFICES ASSUME NEW c \in S, NEW d \in T \ S PROVE q.score[c] >= q.score[d]
    OBVIOUS
  <2>1. Beats(q, c, d) /\ q.score[c] \in Nat /\ q.score[d] \in Nat
    BY <1>1
  <2> QED
    BY <2>1 DEF Beats
<1>3. /\ AboveThreshold(q, S) = IF Cardinality(Kept(S)) < floor THEN TopN(q, S, floor) ELSE Kept(S)
      /\ AboveThreshold(q, T) = IF Cardinality(Kept(T)) < floor THEN TopN(q, T, floor) ELSE Kept(T)
  BY DEF AboveThreshold
<1>4. IsFiniteSet(T) /\ IsFiniteSet(S) /\ S \in SUBSET Stored(q)
  BY QueryShape, FS_Subset
<1>5. Kept(S) \in SUBSET Kept(T)
  <2> SUFFICES ASSUME NEW c \in S, q.score[c] >= q.cfg.thr,
                      \A d \in S : q.score[c] * Den >= q.cfg.rel * q.score[d],
                      NEW d \in T
               PROVE  q.score[c] * Den >= q.cfg.rel * q.score[d]
    OBVIOUS
  <2>1. CASE d \in S
    BY <2>1
  <2>2. CASE d \notin S
    <3>1. q.score[c] >= q.score[d] /\ q.score[c] \in Nat /\ q.score[d] \in Nat
      BY <1>1, <1>2, <2>2
    <3>2. q.cfg.rel * q.score[c] >= q.cfg.rel * q.score[d]
      BY <1>0, <3>1
    <3>3. q.score[c] * Den >= q.cfg.rel * q.score[c]
      OBVIOUS
    <3>4. /\ q.cfg.rel * q.score[c] \in Nat /\ q.cfg.rel * q.score[d] \in Nat
          /\ q.score[c] * Den \in Nat
      BY <1>0, <3>1
    <3> QED
      BY <3>2, <3>3, <3>4
  <2> QED
    BY <2>1, <2>2
<1>6. /\ Kept(T) \in SUBSET T /\ Kept(S) \in SUBSET S
      /\ IsFiniteSet(Kept(T)) /\ Cardinality(Kept(T)) \in Nat
      /\ Cardinality(Kept(S)) <= Cardinality(Kept(T)) /\ Cardinality(Kept(S)) \in Nat
  <2>1. Kept(T) \in SUBSET T /\ Kept(S) \in SUBSET S
    OBVIOUS
  <2> HIDE DEF Kept
  <2>2. IsFiniteSet(Kept(T)) /\ IsFiniteSet(Kept(S))
    BY <1>4, <2>1, FS_Subset
  <2> QED
    BY <1>5, <2>1, <2>2, FS_Subset, FS_CardinalityType
<1>7. ASSUME NEW c \in TopN(q, S, floor)
      PROVE  c \in S /\ Cardinality(Above(T, c)) < floor /\ Cardinality(Above(T, c)) \in Nat
             /\ IsFiniteSet(Above(T, c))
  <2>1. c \in S /\ Cardinality(Above(S, c)) < floor
    BY DEF TopN
  <2>2. ASSUME NEW d \in T, Beats(q, d, c) PROVE d \in S
    <3> SUFFICES ASSUME d \notin S PROVE FALSE
      OBVIOUS
    <3>1. Beats(q, c, d)
      BY <2>1
    <3>2. c \in Stored(q) /\ d \in Stored(q)
      BY <2>1
    <3>3. Beats(q, c, c)
      BY <2>2, <3>1, <3>2, BeatsOrder
    <3> QED
      BY <3>2, <3>3, BeatsOrder
  <2>3. Above(T, c) = Above(S, c)
    BY <2>2
  <2>4. Above(T, c) \in SUBSET T
    OBVIOUS
  <2>5. IsFiniteSet(Above(T, c)) /\ Cardinality(Above(T, c)) \in Nat
    BY <1>4, <2>4, FS_Subset, FS_CardinalityType
  <2> HIDE DEF Above
  <2> QED
    BY <2>1, <2>3, <2>5
<1>8. CASE Cardinality(Kept(T)) < floor
  <2>1. Cardinality(Kept(S)) < floor
    BY <1>0, <1>6, <1>8
  <2>2. TopN(q, S, floor) \subseteq TopN(q, T, floor)
    BY <1>7 DEF TopN
  <2> HIDE DEF Kept, floor
  <2> QED
    BY <1>3, <1>8, <2>1, <2>2
<1>9. CASE ~ (Cardinality(Kept(T)) < floor) /\ Cardinality(Kept(S)) < floor
  <2>1. ASSUME NEW c \in TopN(q, S, floor), c \notin Kept(T) PROVE FALSE
    <3>1. c \in S /\ c \in T /\ q.score[c] \in Nat
      BY <1>1, <1>7
    <3>2. ASSUME NEW d \in Kept(T) PROVE d \in Above(T, c)
      <4>1. d \in T /\ q.score[d] \in Nat
        BY <1>1
      <4>2. q.score[d] >= q.cfg.thr /\ \A e \in T : q.score[d] * Den >= q.cfg.rel * q.score[e]
        OBVIOUS
      <4>3. ASSUME q.score[c] >= q.score[d] PROVE FALSE
        <5>1. q.score[c] * Den >= q.score[d] * Den
          BY <1>0, <3>1, <4>1, <4>3
        <5>2. q.score[c] >= q.cfg.thr
          BY <1>0, <3>1, <4>1, <4>2, <4>3
        <5>3. ASSUME NEW e \in T PROVE q.score[c] * Den >= q.cfg.rel * q.score[e]
          <6>1. /\ q.score[c] * Den \in Nat /\ q.score[d] * Den \in Nat
                /\ q.cfg.rel * q.score[e] \in Nat
            BY <1>0, <1>1, <3>1, <4>1
          <6>2. q.score[d] * Den >= q.cfg.rel * q.score[e]
            BY <4>2
          <6> QED
            BY <5>1, <6>1, <6>2
        <5> QED
          BY <2>1, <3>1, <5>2, <5>3
      <4>4. q.score[d] > q.score[c]
        BY <3>1, <4>1, <4>3
      <4> QED
        BY <4>1, <4>4 DEF Beats
    <3>3. Kept(T) \in SUBSET Above(T, c)
      BY <3>2
    <3> HIDE DEF Kept, Above, floor
    <3>4. IsFiniteSet(Above(T, c)) /\ Cardinality(Above(T, c)) < floor
      BY <1>7, <2>1
    <3>5. Cardinality(Kept(T)) <= Cardinality(Above(T, c))
      BY <3>3, <3>4, FS_Subset
    <3> QED
      BY <1>0, <1>6, <1>7, <1>9, <2>1, <3>4, <3>5
  <2>2. TopN(q, S, floor) \subseteq Kept(T)
    BY <2>1
  <2> HIDE DEF Kept, floor
  <2> QED
    BY <1>3, <1>9, <2>2
<1>10. CASE ~ (Cardinality(Kept(S)) < floor)
  <2>1. ~ (Cardinality(Kept(T)) < floor)
    BY <1>0, <1>6, <1>10
  <2> HIDE DEF Kept, floor
  <2> QED
    BY <1>3, <1>5, <1>10, <2>1
<1> QED
  BY <1>8, <1>9, <1>10

(* r asks what q does, with absolute budgets that are no smaller. *)
Raised(q, r) ==
  /\ r.score = q.score /\ r.bound = q.bound /\ r.v_frac = q.v_frac
  /\ r.cfg.policy = q.cfg.policy /\ r.cfg.mode = q.cfg.mode /\ r.cfg.kind = q.cfg.kind
  /\ r.cfg.ratio = q.cfg.ratio /\ r.cfg.ratio_k = q.cfg.ratio_k /\ r.cfg.ratio_v = q.cfg.ratio_v
  /\ r.cfg.lm = q.cfg.lm /\ r.cfg.rel = q.cfg.rel /\ r.cfg.thr = q.cfg.thr
  /\ r.cfg.keep = q.cfg.keep /\ r.cfg.pre = q.cfg.pre
  /\ r.cfg.abs_k \in Nat /\ r.cfg.abs_k >= q.cfg.abs_k
  /\ r.cfg.abs_v \in Nat /\ r.cfg.abs_v >= q.cfg.abs_v

LEMMA RaisedEither ==
  ASSUME NEW q \in Queries
  PROVE  /\ Raised(q, [q EXCEPT !.cfg.abs_k = @ + 1])
         /\ Raised(q, [q EXCEPT !.cfg.abs_v = @ + 1])
<1>1. q.cfg \in ConfigShape
  BY QueryShape, RouterAssumption
<1>2. q = [cfg |-> q.cfg, score |-> q.score, bound |-> q.bound, v_frac |-> q.v_frac]
  <2> DEFINE Of(cfg, nk, nv) ==
               [cfg : {cfg}, score : [Candidates(nk, nv) -> Scores],
                bound : IF cfg.pre = 0 THEN {[c \in Candidates(nk, 0) |-> 0]}
                        ELSE [Candidates(nk, 0) -> Scores],
                v_frac : IF cfg.policy = "adaptive" THEN 0 .. Den ELSE {0}]
  <2>0. q \in UNION {Of(cfg, nk, nv) : cfg \in Configs, nk \in 0 .. MaxK, nv \in 0 .. MaxV}
    BY DEF Queries
  <2> HIDE DEF Of
  <2>1. PICK cfg \in Configs, nk \in 0 .. MaxK, nv \in 0 .. MaxV : q \in Of(cfg, nk, nv)
    BY <2>0
  <2> QED
    BY <2>1 DEF Of
<1> DEFINE r == [q EXCEPT !.cfg.abs_k = @ + 1]
           s == [q EXCEPT !.cfg.abs_v = @ + 1]
           k == [q.cfg EXCEPT !.abs_k = @ + 1]
           v == [q.cfg EXCEPT !.abs_v = @ + 1]
<1>3. /\ r.cfg = k /\ r.score = q.score /\ r.bound = q.bound /\ r.v_frac = q.v_frac
      /\ s.cfg = v /\ s.score = q.score /\ s.bound = q.bound /\ s.v_frac = q.v_frac
  BY <1>2
<1>4. /\ k.policy = q.cfg.policy /\ k.mode = q.cfg.mode /\ k.kind = q.cfg.kind
      /\ k.ratio = q.cfg.ratio /\ k.ratio_k = q.cfg.ratio_k /\ k.ratio_v = q.cfg.ratio_v
      /\ k.lm = q.cfg.lm /\ k.rel = q.cfg.rel /\ k.thr = q.cfg.thr
      /\ k.keep = q.cfg.keep /\ k.pre = q.cfg.pre
      /\ k.abs_k = q.cfg.abs_k + 1 /\ k.abs_v = q.cfg.abs_v
  BY <1>1 DEF ConfigShape
<1>5. /\ v.policy = q.cfg.policy /\ v.mode = q.cfg.mode /\ v.kind = q.cfg.kind
      /\ v.ratio = q.cfg.ratio /\ v.ratio_k = q.cfg.ratio_k /\ v.ratio_v = q.cfg.ratio_v
      /\ v.lm = q.cfg.lm /\ v.rel = q.cfg.rel /\ v.thr = q.cfg.thr
      /\ v.keep = q.cfg.keep /\ v.pre = q.cfg.pre
      /\ v.abs_k = q.cfg.abs_k /\ v.abs_v = q.cfg.abs_v + 1
  BY <1>1 DEF ConfigShape
<1>6. q.cfg.abs_k \in Nat /\ q.cfg.abs_v \in Nat
  BY <1>1 DEF ConfigShape
<1> HIDE DEF r, s, k, v
<1>7. Raised(q, r)
  BY <1>3, <1>4, <1>6 DEF Raised
<1>8. Raised(q, s)
  BY <1>3, <1>5, <1>6 DEF Raised
<1> QED
  BY <1>7, <1>8 DEF r, s

(* What k_first reads, given the sum of the V scores. *)
KFirstOf(q, total, bk, bv) ==
  LET k    == TopN(q, KCands(q), bk)
      good == {c \in VCands(q) : q.score[c] * Cardinality(VCands(q)) >= total}
  IN k \cup TopN(q, good, Most(0, bk + bv - Cardinality(k)))

(* The scores and the thresholds, not the budgets, rank and cut. *)
LEMMA SameRanking ==
  ASSUME NEW q, NEW r, Raised(q, r)
  PROVE  /\ AllK(r) = AllK(q) /\ AllV(r) = AllV(q)
         /\ KCands(r) = KCands(q) /\ VCands(r) = VCands(q)
         /\ \A S, n : TopN(r, S, n) = TopN(q, S, n)
         /\ \A S : AboveThreshold(r, S) = AboveThreshold(q, S)
         /\ \A bk, bv : PolicyReads(r, bk, bv) = PolicyReads(q, bk, bv)
<1>1. /\ r.score = q.score /\ r.bound = q.bound /\ r.v_frac = q.v_frac
      /\ r.cfg.policy = q.cfg.policy /\ r.cfg.kind = q.cfg.kind
      /\ r.cfg.rel = q.cfg.rel /\ r.cfg.thr = q.cfg.thr
      /\ r.cfg.keep = q.cfg.keep /\ r.cfg.pre = q.cfg.pre
  BY DEF Raised
<1>2. AllK(r) = AllK(q) /\ AllV(r) = AllV(q)
  BY <1>1 DEF AllK, AllV, Stored
<1>3. KCands(r) = KCands(q) /\ VCands(r) = VCands(q)
  BY <1>1, <1>2 DEF KCands, VCands, Shortlist
<1>4. \A c, d : Beats(r, c, d) <=> Beats(q, c, d)
  BY <1>1 DEF Beats, Earlier
<1>5. \A S, n : TopN(r, S, n) = TopN(q, S, n)
  <2>1. ASSUME NEW S, NEW c PROVE {d \in S : Beats(r, d, c)} = {d \in S : Beats(q, d, c)}
    BY <1>4
  <2> QED
    BY <2>1 DEF TopN
<1>6. \A S : AboveThreshold(r, S) = AboveThreshold(q, S)
  BY <1>1, <1>5 DEF AboveThreshold
<1>7. ASSUME NEW bk, NEW bv
      PROVE  PolicyReads(r, bk, bv) = PolicyReads(q, bk, bv)
  <2>1. JointReads(r, bk, bv) = JointReads(q, bk, bv)
    BY <1>3, <1>5 DEF JointReads
  <2>2. KFirstReads(r, bk, bv) = KFirstReads(q, bk, bv)
    <3>1. \A x : KFirstReads(x, bk, bv) = KFirstOf(x, SumFunctionOnSet(x.score, VCands(x)), bk, bv)
      BY DEF KFirstReads, KFirstOf, SumFunctionOnSet, FoldFunctionOnSet, MapThenSumSet
    <3>2. SumFunctionOnSet(r.score, VCands(r)) = SumFunctionOnSet(q.score, VCands(q))
      BY <1>1, <1>3
    <3>3. ASSUME NEW total PROVE KFirstOf(r, total, bk, bv) = KFirstOf(q, total, bk, bv)
      BY <1>1, <1>3, <1>5 DEF KFirstOf
    <3> QED
      BY <3>1, <3>2, <3>3
  <2>3. AdaptiveReads(r, bk, bv) = AdaptiveReads(q, bk, bv)
    BY <1>1, <1>3, <1>5 DEF AdaptiveReads
  <2>4. SeparateReads(r, bk, bv) = SeparateReads(q, bk, bv)
    BY <1>3, <1>5 DEF SeparateReads
  <2> QED
    BY <1>1, <2>1, <2>2, <2>3, <2>4 DEF PolicyReads
<1> QED
  BY <1>2, <1>3, <1>5, <1>6, <1>7

LEMMA RaisedBudgets ==
  ASSUME NEW q \in Queries, NEW r, Raised(q, r), NEW t \in Nat
  PROVE  /\ BudgetK(r.cfg, t) \in Nat /\ BudgetK(q.cfg, t) <= BudgetK(r.cfg, t)
         /\ BudgetV(r.cfg, t) \in Nat /\ BudgetV(q.cfg, t) <= BudgetV(r.cfg, t)
<1>1. /\ q.cfg \in ConfigShape /\ q.cfg \in Configs /\ Den \in Nat \ {0}
  BY QueryShape, RouterAssumption
<1>2. /\ q.cfg.abs_k \in Nat /\ q.cfg.abs_v \in Nat /\ q.cfg.lm \in Nat
      /\ q.cfg.ratio_k \in Nat \cup {None} /\ q.cfg.ratio_v \in Nat \cup {None}
  BY <1>1 DEF ConfigShape
<1>3. /\ r.cfg.mode = q.cfg.mode /\ r.cfg.kind = q.cfg.kind /\ r.cfg.lm = q.cfg.lm
      /\ r.cfg.ratio = q.cfg.ratio /\ r.cfg.ratio_k = q.cfg.ratio_k /\ r.cfg.ratio_v = q.cfg.ratio_v
      /\ r.cfg.abs_k \in Nat /\ r.cfg.abs_k >= q.cfg.abs_k
      /\ r.cfg.abs_v \in Nat /\ r.cfg.abs_v >= q.cfg.abs_v
  BY DEF Raised
<1>4. ASSUME NEW a \in Nat, NEW b \in Nat, a <= b, NEW override \in Nat \cup {None}
      PROVE  /\ KindBudget(q.cfg, a, override, t) <= KindBudget(r.cfg, b, override, t)
             /\ KindBudget(r.cfg, b, override, t) = KindBudget(q.cfg, b, override, t)
             /\ KindBudget(q.cfg, b, override, t) \in Nat
  <2>1. KindBudget(r.cfg, b, override, t) = KindBudget(q.cfg, b, override, t)
    BY <1>3 DEF KindBudget
  <2>2. KindBudget(q.cfg, a, override, t) \in Nat /\ KindBudget(q.cfg, b, override, t) \in Nat
    <3>1. t <= t
      OBVIOUS
    <3> QED
      BY <1>1, <3>1, KindBudgetBounds
  <2>3. KindBudget(q.cfg, a, override, t) <= KindBudget(q.cfg, b, override, t)
    <3>1. CASE q.cfg.mode \in {"absolute", "adaptive_score"}
      <4>1. /\ a * q.cfg.lm \in Nat /\ b * q.cfg.lm \in Nat
            /\ a * q.cfg.lm <= b * q.cfg.lm
        BY <1>2, <1>4
      <4>2. Round(a * q.cfg.lm, Den) <= Round(b * q.cfg.lm, Den)
        BY <1>1, <4>1, RoundMonotone
      <4>3. Round(a * q.cfg.lm, Den) \in Nat /\ Round(b * q.cfg.lm, Den) \in Nat
        BY <1>1, <4>1, RoundNear
      <4>4. /\ KindBudget(q.cfg, a, override, t) = Least(Round(a * q.cfg.lm, Den), t)
            /\ KindBudget(q.cfg, b, override, t) = Least(Round(b * q.cfg.lm, Den), t)
        BY <3>1 DEF KindBudget
      <4> QED
        BY <4>2, <4>3, <4>4 DEF Least
    <3>2. CASE q.cfg.mode \notin {"absolute", "adaptive_score"}
      <4>1. KindBudget(q.cfg, a, override, t) = KindBudget(q.cfg, b, override, t)
        BY <3>2 DEF KindBudget
      <4> QED
        BY <2>2, <4>1
    <3> QED
      BY <3>1, <3>2
  <2> QED
    BY <2>1, <2>2, <2>3
<1>5. /\ KindBudget(q.cfg, q.cfg.abs_k, q.cfg.ratio_k, t)
           <= KindBudget(r.cfg, r.cfg.abs_k, r.cfg.ratio_k, t)
      /\ KindBudget(r.cfg, r.cfg.abs_k, r.cfg.ratio_k, t) \in Nat
  <2>1. /\ q.cfg.abs_k \in Nat /\ r.cfg.abs_k \in Nat /\ q.cfg.abs_k <= r.cfg.abs_k
        /\ q.cfg.ratio_k \in Nat \cup {None}
    BY <1>2, <1>3
  <2>2. /\ KindBudget(q.cfg, q.cfg.abs_k, q.cfg.ratio_k, t)
             <= KindBudget(r.cfg, r.cfg.abs_k, q.cfg.ratio_k, t)
        /\ KindBudget(r.cfg, r.cfg.abs_k, q.cfg.ratio_k, t) \in Nat
    BY <1>4, <2>1
  <2> QED
    BY <1>3, <2>2
<1>6. /\ KindBudget(q.cfg, q.cfg.abs_v, q.cfg.ratio_v, t)
           <= KindBudget(r.cfg, r.cfg.abs_v, r.cfg.ratio_v, t)
      /\ KindBudget(r.cfg, r.cfg.abs_v, r.cfg.ratio_v, t) \in Nat
  <2>1. /\ q.cfg.abs_v \in Nat /\ r.cfg.abs_v \in Nat /\ q.cfg.abs_v <= r.cfg.abs_v
        /\ q.cfg.ratio_v \in Nat \cup {None}
    BY <1>2, <1>3
  <2>2. /\ KindBudget(q.cfg, q.cfg.abs_v, q.cfg.ratio_v, t)
             <= KindBudget(r.cfg, r.cfg.abs_v, q.cfg.ratio_v, t)
        /\ KindBudget(r.cfg, r.cfg.abs_v, q.cfg.ratio_v, t) \in Nat
    BY <1>4, <2>1
  <2> QED
    BY <1>3, <2>2
<1> QED
  BY <1>3, <1>5, <1>6 DEF BudgetK, BudgetV

LEMMA RouteGrows ==
  ASSUME NEW q \in Queries, NEW r, Raised(q, r)
  PROVE  route(q) \subseteq route(r)
<1> DEFINE bk == BudgetK(q.cfg, Cardinality(KCands(q)))
           bv == BudgetV(q.cfg, Cardinality(VCands(q)))
           ck == BudgetK(r.cfg, Cardinality(KCands(q)))
           cv == BudgetV(r.cfg, Cardinality(VCands(q)))
           S == PolicyReads(q, bk, bv)
           T == PolicyReads(q, ck, cv)
<1>1. Cardinality(KCands(q)) \in Nat /\ Cardinality(VCands(q)) \in Nat
  BY CandidatesOfKind
<1>2. bk \in Nat /\ bv \in Nat
  BY <1>1, QueryShape, BudgetBounds
<1>3. ck \in Nat /\ cv \in Nat /\ bk <= ck /\ bv <= cv
  BY <1>1, RaisedBudgets
<1>4. r.cfg.mode = q.cfg.mode
  BY DEF Raised
<1>5. route(q) = IF bk = 0 /\ bv = 0 THEN {}
                 ELSE IF q.cfg.mode = "adaptive_score"
                   THEN AboveThreshold(q, S \cap AllK(q)) \cup AboveThreshold(q, S \cap AllV(q))
                 ELSE S
  BY DEF route
<1>6. route(r) = IF ck = 0 /\ cv = 0 THEN {}
                 ELSE IF q.cfg.mode = "adaptive_score"
                   THEN AboveThreshold(q, T \cap AllK(q)) \cup AboveThreshold(q, T \cap AllV(q))
                 ELSE T
  <2>1. route(r) = IF BudgetK(r.cfg, Cardinality(KCands(r))) = 0
                        /\ BudgetV(r.cfg, Cardinality(VCands(r))) = 0 THEN {}
                   ELSE IF r.cfg.mode = "adaptive_score"
                     THEN AboveThreshold(r, PolicyReads(r, BudgetK(r.cfg, Cardinality(KCands(r))),
                                                           BudgetV(r.cfg, Cardinality(VCands(r))))
                                              \cap AllK(r))
                            \cup
                          AboveThreshold(r, PolicyReads(r, BudgetK(r.cfg, Cardinality(KCands(r))),
                                                           BudgetV(r.cfg, Cardinality(VCands(r))))
                                              \cap AllV(r))
                   ELSE PolicyReads(r, BudgetK(r.cfg, Cardinality(KCands(r))),
                                       BudgetV(r.cfg, Cardinality(VCands(r))))
    BY DEF route
  <2>2. /\ AllK(r) = AllK(q) /\ AllV(r) = AllV(q)
        /\ KCands(r) = KCands(q) /\ VCands(r) = VCands(q)
        /\ \A X : AboveThreshold(r, X) = AboveThreshold(q, X)
        /\ \A x, y : PolicyReads(r, x, y) = PolicyReads(q, x, y)
    BY SameRanking
  <2> QED
    BY <1>4, <2>1, <2>2
<1> HIDE DEF bk, bv, ck, cv
<1>7. Grows(q, S, T)
  BY <1>2, <1>3, PolicyGrows
<1>8. T \in SUBSET Stored(q)
  BY <1>3, PolicyTop
<1> HIDE DEF S, T
<1>9. AboveThreshold(q, S \cap AllK(q)) \subseteq AboveThreshold(q, T \cap AllK(q))
  <2>1. T \cap AllK(q) \in SUBSET Stored(q) /\ S \cap AllK(q) \in SUBSET (T \cap AllK(q))
    BY <1>7, <1>8 DEF Grows
  <2>2. \A c \in S \cap AllK(q), d \in (T \cap AllK(q)) \ (S \cap AllK(q)) : Beats(q, c, d)
    BY <1>7 DEF Grows, AllK, IsK
  <2> QED
    BY <2>1, <2>2, ThresholdGrows
<1>10. AboveThreshold(q, S \cap AllV(q)) \subseteq AboveThreshold(q, T \cap AllV(q))
  <2>1. T \cap AllV(q) \in SUBSET Stored(q) /\ S \cap AllV(q) \in SUBSET (T \cap AllV(q))
    BY <1>7, <1>8 DEF Grows
  <2>2. \A c \in S \cap AllV(q), d \in (T \cap AllV(q)) \ (S \cap AllV(q)) : Beats(q, c, d)
    BY <1>7 DEF Grows, AllV, IsV
  <2> QED
    BY <2>1, <2>2, ThresholdGrows
<1>11. S \subseteq T
  BY <1>7 DEF Grows
<1>12. CASE bk = 0 /\ bv = 0
  BY <1>5, <1>12
<1>13. CASE ~ (bk = 0 /\ bv = 0)
  <2>1. ~ (ck = 0 /\ cv = 0)
    BY <1>2, <1>3, <1>13
  <2> QED
    BY <1>5, <1>6, <1>9, <1>10, <1>11, <1>13, <2>1
<1> QED
  BY <1>12, <1>13

GrowthInv ==
  /\ path # "idle" => query \in Queries
  /\ MoreBudgetKeepsReads

LEMMA GrowthInvStep == GrowthInv /\ [Next]_vars => GrowthInv'
<1> SUFFICES ASSUME GrowthInv, [Next]_vars PROVE GrowthInv'
  OBVIOUS
<1>1. CASE Ask
  <2>1. query' \in Queries /\ path' \in {"prefill", "decode"}
    BY <1>1 DEF Ask
  <2> QED
    BY <2>1 DEF GrowthInv, MoreBudgetKeepsReads
<1>2. CASE Prefill
  <2>1. query \in Queries /\ query' = query
    BY <1>2 DEF Prefill, GrowthInv
  <2>2. /\ route(query) \subseteq route([query EXCEPT !.cfg.abs_k = @ + 1])
        /\ route(query) \subseteq route([query EXCEPT !.cfg.abs_v = @ + 1])
    BY <2>1, RaisedEither, RouteGrows
  <2> QED
    BY <2>1, <2>2 DEF GrowthInv, MoreBudgetKeepsReads
<1>3. CASE Decode
  <2>1. query \in Queries /\ query' = query /\ path' = "decoded"
    BY <1>3 DEF Decode, GrowthInv
  <2> QED
    BY <2>1 DEF GrowthInv, MoreBudgetKeepsReads
<1>4. CASE Return
  <2>1. path' = "idle"
    BY <1>4 DEF Return
  <2> QED
    BY <2>1 DEF GrowthInv, MoreBudgetKeepsReads
<1>5. CASE UNCHANGED vars
  <2>1. query' = query /\ path' = path
    BY <1>5 DEF vars
  <2> QED
    BY <2>1 DEF GrowthInv, MoreBudgetKeepsReads
<1> QED
  BY <1>1, <1>2, <1>3, <1>4, <1>5 DEF Next

(* What a query reads it also reads with a larger absolute budget of       *)
(* either kind: under every policy, for every rounding of a layer's        *)
(* multiplier, every entropy, every threshold and floor.                   *)
THEOREM BudgetsMonotone == Spec => []MoreBudgetKeepsReads
<1>1. Init => GrowthInv
  BY DEF Init, GrowthInv, MoreBudgetKeepsReads
<1>2. GrowthInv /\ [Next]_vars => GrowthInv'
  BY GrowthInvStep
<1>3. GrowthInv => MoreBudgetKeepsReads
  BY DEF GrowthInv
<1> QED
  BY <1>1, <1>2, <1>3, PTL DEF Spec
=============================================================================
