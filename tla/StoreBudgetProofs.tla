-------------------------- MODULE StoreBudgetProofs --------------------------
(***************************************************************************)
(* Proofs about StoreBudget, for any number of layers, heads and pages.    *)
(*                                                                         *)
(* The multipliers of a layer policy share a denominator and their         *)
(* numerators add up to L times it (MultipliersBalance).  Rounding moves a *)
(* layer's budget by at most half a slot, hence all layers' by L / 2.      *)
(* Every page stored takes at most what its layer admits, so the slots in  *)
(* use never exceed the charge: the times each lane stored a page times    *)
(* what its layer admits, summed over the lanes.  The invariant bounds the *)
(* slots by the charge; the arenas and the estimate are compared with it.  *)
(***************************************************************************)
EXTENDS StoreBudget, CommonLemmas

-------------------------------------------------------------------------------
(* Arithmetic *)

LEMMA CancelFactor ==
  ASSUME NEW d \in Nat \ {0}, NEW x \in Int, NEW y \in Int, d * x <= d * y
  PROVE  x <= y
<1> SUFFICES ASSUME y + 1 <= x PROVE FALSE
  OBVIOUS
<1>1. PICK e \in Nat : x = y + 1 + e
  <2>1. x - (y + 1) \in Nat /\ x = y + 1 + (x - (y + 1))
    OBVIOUS
  <2> QED
    BY <2>1
<1>2. d * (y + 1 + e) = d * y + d + d * e
  OBVIOUS
<1>3. d * e >= 0 /\ d * y \in Int
  OBVIOUS
<1> QED
  BY <1>1, <1>2, <1>3

(* Factors of natural numbers keep an order. *)
LEMMA TimesMonotone ==
  ASSUME NEW a \in Nat, NEW x \in Int, NEW y \in Int, x <= y
  PROVE  a * x <= a * y
<1>1. PICK e \in Nat : y = x + e
  <2>1. y - x \in Nat /\ y = x + (y - x)
    OBVIOUS
  <2> QED
    BY <2>1
<1>2. a * (x + e) = a * x + a * e /\ a * e \in Nat /\ a * x \in Int
  OBVIOUS
<1> QED
  BY <1>1, <1>2

(* What times d stays within n is no more than n \div d. *)
LEMMA BelowQuotient ==
  ASSUME NEW d \in Nat \ {0}, NEW n \in Nat, NEW x \in Nat, d * x <= n
  PROVE  x <= n \div d
<1>1. /\ n \div d \in Nat /\ n % d \in 0 .. d - 1
      /\ n = d * (n \div d) + (n % d)
  BY DivBounds
<1>2. PICK q \in Nat : q = n \div d
  BY <1>1
<1>3. d * x < d * q + d
  BY <1>1, <1>2
<1> SUFFICES ASSUME q + 1 <= x PROVE FALSE
  BY <1>2
<1>4. d * (q + 1) <= d * x
  BY TimesMonotone
<1>5. d * (q + 1) = d * q + d /\ d * q \in Int /\ d * x \in Int
  OBVIOUS
<1> QED
  BY <1>3, <1>4, <1>5

-------------------------------------------------------------------------------
(* Configurations and multipliers *)

LEMMA ConfigType ==
  ASSUME NEW c \in Configs
  PROVE  /\ c.L \in Nat \ {0} /\ c.abs_k \in Nat /\ c.abs_v \in Nat /\ c.ratio \in Nat
         /\ c.ratio_k \in Nat \cup {None} /\ c.ratio_v \in Nat \cup {None}
         /\ c.k_frac \in Nat /\ c.v_frac \in Nat /\ c.min_per_kind \in Nat
         /\ c.mode \in {"ratio", "absolute"}
         /\ c.store_policy \in {"joint", "per_kind", "residual_kind_aware"}
<1>1. c \in ConfigShape
  BY BudgetAssumption
<1> QED
  BY <1>1 DEF ConfigShape

LEMMA ConstantTypes ==
  /\ Den \in Nat \ {0} /\ NumKvHeads \in Nat \ {0} /\ MaxPages \in Nat \ {0}
  /\ NumCG \in Nat /\ NumVB \in Nat /\ MinSlots \in Nat
BY BudgetAssumption

LEMMA LayersFinite ==
  ASSUME NEW c \in Configs
  PROVE  IsFiniteSet(Layers(c)) /\ Cardinality(Layers(c)) = c.L
<1>1. c.L \in Nat \ {0}
  BY ConfigType
<1>2. 0 \in Int /\ c.L - 1 \in Int /\ ~ (0 > c.L - 1) /\ (c.L - 1) - 0 + 1 = c.L
  BY <1>1
<1>3. IsFiniteSet(0 .. c.L - 1) /\ Cardinality(0 .. c.L - 1) = (c.L - 1) - 0 + 1
  BY <1>2, FS_Interval
<1> QED
  BY <1>2, <1>3 DEF Layers

LEMMA WeightNat ==
  ASSUME NEW c \in Configs, NEW l \in Layers(c)
  PROVE  Weight(c, l) \in Nat
<1>1. c.L \in Nat \ {0} /\ l \in 0 .. c.L - 1
  BY ConfigType DEF Layers
<1>2. Sensitivity(c.L, l) \in Nat
  BY <1>1, BudgetAssumption
<1>3. UWeight(c.L, l) \in Nat
  BY <1>1 DEF UWeight, Dist
<1> QED
  BY <1>2, <1>3 DEF Weight

(* The multipliers of a configuration are over d and add up to L. *)
Balanced(c, num, d) ==
  /\ num \in [Layers(c) -> Nat] /\ d \in Nat \ {0}
  /\ \A l \in Layers(c) : Multiplier(c, l) = [num |-> num[l], den |-> d]
  /\ SumFunctionOnSet(num, Layers(c)) = c.L * d

LEMMA MultipliersBalance ==
  ASSUME NEW c \in Configs
  PROVE  \E num, d : Balanced(c, num, d)
<1> DEFINE W == [l \in Layers(c) |-> Weight(c, l)]
<1>0. c.L \in Nat \ {0} /\ IsFiniteSet(Layers(c)) /\ Cardinality(Layers(c)) = c.L
  BY ConfigType, LayersFinite
<1>1. W \in [Layers(c) -> Nat]
  BY WeightNat
<1>2. TotalWeight(c) = SumFunctionOnSet(W, Layers(c))
  BY DEF TotalWeight, SumFunction
<1>3. \A l \in Layers(c) : W[l] = Weight(c, l)
  OBVIOUS
<1> HIDE DEF W
<1>4. SumFunctionOnSet(W, Layers(c)) \in Nat
  BY <1>0, <1>1, SumNat
<1>5. CASE TotalWeight(c) = 0
  <2> DEFINE ones == [l \in Layers(c) |-> 1]
  <2>1. ones \in [Layers(c) -> Nat] /\ \A l \in Layers(c) : ones[l] = 1
    OBVIOUS
  <2>2. \A l \in Layers(c) : Multiplier(c, l) = [num |-> ones[l], den |-> 1]
    BY <1>5 DEF Multiplier
  <2> HIDE DEF ones
  <2>3. SumFunctionOnSet(ones, Layers(c)) = 1 * Cardinality(Layers(c))
    BY <1>0, <2>1, SumConstant
  <2>4. Balanced(c, ones, 1)
    BY <1>0, <2>1, <2>2, <2>3 DEF Balanced
  <2> QED
    BY <2>4
<1>6. CASE TotalWeight(c) # 0
  <2> DEFINE num == [l \in Layers(c) |-> c.L * W[l]]
             d == TotalWeight(c)
  <2>1. num \in [Layers(c) -> Nat] /\ \A l \in Layers(c) : num[l] = c.L * W[l]
    BY <1>0, <1>1
  <2>2. \A l \in Layers(c) : Multiplier(c, l) = [num |-> num[l], den |-> d]
    BY <1>3, <1>6 DEF Multiplier
  <2>3. d \in Nat \ {0} /\ d = SumFunctionOnSet(W, Layers(c))
    BY <1>2, <1>4, <1>6
  <2> HIDE DEF num, d
  <2>4. \A l \in Layers(c) : W[l] \in Int /\ W[l] \in Int /\ num[l] = c.L * W[l] + 0 * W[l]
    BY <1>0, <1>1, <2>1
  <2>5. SumFunctionOnSet(num, Layers(c))
          = c.L * SumFunctionOnSet(W, Layers(c)) + 0 * SumFunctionOnSet(W, Layers(c))
    BY <1>0, <2>4, SumLinear
  <2>6. SumFunctionOnSet(num, Layers(c)) = c.L * d
    BY <1>0, <2>3, <2>5
  <2>7. Balanced(c, num, d)
    BY <2>1, <2>2, <2>3, <2>6 DEF Balanced
  <2> QED
    BY <2>7
<1> QED
  BY <1>5, <1>6

LEMMA MultiplierType ==
  ASSUME NEW c \in Configs, NEW l \in Layers(c)
  PROVE  Multiplier(c, l).num \in Nat /\ Multiplier(c, l).den \in Nat \ {0}
<1>1. PICK num, d : Balanced(c, num, d)
  BY MultipliersBalance
<1> QED
  BY <1>1 DEF Balanced

-------------------------------------------------------------------------------
(* Absolute budgets *)

(* The rounding of s times each multiplier moves the sum by at most L / 2. *)
LEMMA RoundedSum ==
  ASSUME NEW c \in Configs, NEW s \in Nat, NEW R \in [Layers(c) -> Int],
         \A l \in Layers(c) : R[l] = AbsBudget(c, l, s)
  PROVE  LET sum == SumFunctionOnSet(R, Layers(c))
         IN /\ R \in [Layers(c) -> Nat] /\ sum \in Nat
            /\ 2 * (s * c.L) - c.L <= 2 * sum /\ 2 * sum <= 2 * (s * c.L) + c.L
<1> DEFINE S == Layers(c)
           sum == SumFunctionOnSet(R, Layers(c))
<1>0. c.L \in Nat \ {0} /\ IsFiniteSet(S) /\ Cardinality(S) = c.L
  BY ConfigType, LayersFinite
<1>1. PICK num, d : Balanced(c, num, d)
  BY MultipliersBalance
<1>2. /\ num \in [S -> Nat] /\ d \in Nat \ {0} /\ SumFunctionOnSet(num, S) = c.L * d
      /\ \A l \in S : Multiplier(c, l) = [num |-> num[l], den |-> d]
  BY <1>1 DEF Balanced
<1>3. \A l \in S : R[l] = Round(s * num[l], d)
  BY <1>2 DEF AbsBudget
<1>4. ASSUME NEW l \in S
      PROVE  /\ R[l] \in Nat
             /\ 2 * (s * num[l]) - d <= 2 * (d * R[l])
             /\ 2 * (d * R[l]) <= 2 * (s * num[l]) + d
  <2>1. num[l] \in Nat
    BY <1>2
  <2>2. s * num[l] \in Nat
    BY <2>1
  <2> QED
    BY <1>2, <1>3, <2>2, RoundNear
<1> DEFINE ones == [l \in S |-> 1]
           low  == [l \in S |-> (2 * s) * num[l] + (0 - d) * ones[l]]
           high == [l \in S |-> (2 * s) * num[l] + d * ones[l]]
           mid  == [l \in S |-> (2 * d) * R[l] + 0 * R[l]]
<1>5. (\A l \in S : ones[l] = 1) /\ 2 * s \in Int /\ 0 - d \in Int /\ d \in Int /\ 2 * d \in Int
  BY <1>2
<1>6. /\ \A l \in S : low[l] = (2 * s) * num[l] + (0 - d) * ones[l]
      /\ \A l \in S : high[l] = (2 * s) * num[l] + d * ones[l]
      /\ \A l \in S : mid[l] = (2 * d) * R[l] + 0 * R[l]
  OBVIOUS
<1> HIDE DEF ones, low, high, mid
<1>7. ASSUME NEW l \in S
      PROVE  /\ low[l] \in Int /\ mid[l] \in Int /\ high[l] \in Int
             /\ low[l] <= mid[l] /\ mid[l] <= high[l]
  <2>1. num[l] \in Nat /\ ones[l] = 1 /\ R[l] \in Nat
    BY <1>2, <1>4, <1>5
  <2>2. PICK n \in Nat : n = num[l]
    BY <2>1
  <2>3. PICK r \in Nat : r = R[l]
    BY <2>1
  <2>4. /\ (2 * s) * n + (0 - d) * 1 = 2 * (s * n) - d
        /\ (2 * s) * n + d * 1 = 2 * (s * n) + d
        /\ (2 * d) * r + 0 * r = 2 * (d * r)
    BY <1>2
  <2>5. low[l] = 2 * (s * n) - d /\ high[l] = 2 * (s * n) + d /\ mid[l] = 2 * (d * r)
    BY <1>6, <2>1, <2>2, <2>3, <2>4
  <2>6. 2 * (s * n) - d <= 2 * (d * r) /\ 2 * (d * r) <= 2 * (s * n) + d
    BY <1>4, <2>2, <2>3
  <2>7. 2 * (s * n) \in Int /\ 2 * (d * r) \in Int /\ d \in Int
    BY <1>2
  <2> QED
    BY <2>5, <2>6, <2>7
<1>8. /\ \A l \in S : num[l] \in Int /\ ones[l] \in Int /\ R[l] \in Int
      /\ \A l \in S : ones[l] = 1
  BY <1>2, <1>4, <1>5
<1>9. SumFunctionOnSet(ones, S) = 1 * Cardinality(S)
  BY <1>0, <1>5, SumConstant
<1>10. SumFunctionOnSet(low, S)
         = (2 * s) * SumFunctionOnSet(num, S) + (0 - d) * SumFunctionOnSet(ones, S)
  BY <1>0, <1>5, <1>6, <1>8, SumLinear
<1>11. SumFunctionOnSet(high, S)
         = (2 * s) * SumFunctionOnSet(num, S) + d * SumFunctionOnSet(ones, S)
  BY <1>0, <1>5, <1>6, <1>8, SumLinear
<1>12. SumFunctionOnSet(mid, S) = (2 * d) * sum + 0 * sum
  BY <1>0, <1>5, <1>6, <1>8, SumLinear
<1>13. /\ SumFunctionOnSet(low, S) <= SumFunctionOnSet(mid, S)
       /\ SumFunctionOnSet(mid, S) <= SumFunctionOnSet(high, S)
  BY <1>0, <1>7, SumMonotone
<1>14. R \in [S -> Nat] /\ sum \in Nat
  BY <1>0, <1>4, SumNat
<1>15. PICK L \in Nat \ {0} : L = c.L
  BY <1>0
<1>16. PICK z \in Nat : z = sum
  BY <1>14
<1>17. /\ (2 * s) * (L * d) + (0 - d) * (1 * L) = d * (2 * (s * L) - L)
       /\ (2 * s) * (L * d) + d * (1 * L) = d * (2 * (s * L) + L)
       /\ (2 * d) * z + 0 * z = d * (2 * z)
  BY <1>2
<1>18. d * (2 * (s * L) - L) <= d * (2 * z) /\ d * (2 * z) <= d * (2 * (s * L) + L)
  BY <1>0, <1>2, <1>9, <1>10, <1>11, <1>12, <1>13, <1>15, <1>16, <1>17
<1>19. 2 * (s * L) - L \in Int /\ 2 * (s * L) + L \in Int /\ 2 * z \in Int
  OBVIOUS
<1>20. 2 * (s * L) - L <= 2 * z /\ 2 * z <= 2 * (s * L) + L
  BY <1>2, <1>18, <1>19, CancelFactor
<1> QED
  BY <1>14, <1>15, <1>16, <1>20

(* No more than half as much again as asked, and nothing when nothing is.  *)
LEMMA AbsoluteSum ==
  ASSUME NEW c \in Configs, NEW s \in Nat, NEW R \in [Layers(c) -> Int],
         \A l \in Layers(c) : R[l] = AbsBudget(c, l, s)
  PROVE  /\ R \in [Layers(c) -> Nat] /\ SumFunctionOnSet(R, Layers(c)) \in Nat
         /\ 2 * SumFunctionOnSet(R, Layers(c)) <= 3 * (s * c.L)
<1>1. /\ R \in [Layers(c) -> Nat] /\ SumFunctionOnSet(R, Layers(c)) \in Nat
      /\ 2 * SumFunctionOnSet(R, Layers(c)) <= 2 * (s * c.L) + c.L
  BY RoundedSum
<1>2. c.L \in Nat \ {0} /\ IsFiniteSet(Layers(c)) /\ Cardinality(Layers(c)) = c.L
  BY ConfigType, LayersFinite
<1>3. CASE s = 0
  <2>1. ASSUME NEW l \in Layers(c) PROVE R[l] = 0
    <3>1. Multiplier(c, l).num \in Nat /\ Multiplier(c, l).den \in Nat \ {0}
      BY MultiplierType
    <3>2. R[l] = Round(s * Multiplier(c, l).num, Multiplier(c, l).den)
      BY DEF AbsBudget
    <3>3. s * Multiplier(c, l).num = 0
      BY <1>3, <3>1
    <3>4. Round(0, Multiplier(c, l).den) <= 0 /\ Round(0, Multiplier(c, l).den) \in Nat
      <4>1. 0 <= 0 * Multiplier(c, l).den
        BY <3>1
      <4> QED
        BY <3>1, <4>1, RoundBounds
    <3> QED
      BY <3>2, <3>3, <3>4
  <2>2. SumFunctionOnSet(R, Layers(c)) = 0 * Cardinality(Layers(c))
    BY <1>2, <2>1, SumConstant
  <2> QED
    BY <1>1, <1>2, <1>3, <2>2
<1>4. CASE s > 0
  <2>1. PICK L \in Nat \ {0} : L = c.L
    BY <1>2
  <2>2. L * 1 <= L * s
    BY <1>4, TimesMonotone
  <2>3. s * L = L * s /\ L * 1 = L /\ 2 * (s * L) + s * L = 3 * (s * L)
    OBVIOUS
  <2>4. s * L \in Int
    OBVIOUS
  <2> QED
    BY <1>1, <2>1, <2>2, <2>3, <2>4
<1> QED
  BY <1>3, <1>4

(* TotalPreserved is a fact about each configuration. *)
LEMMA TotalKept ==
  ASSUME NEW c \in Configs, c.mode = "absolute", UsesK(c)
  PROVE  LET sum == SumFunction([l \in Layers(c) |-> k_budget(c, l)])
         IN 2 * Dist(sum, c.L * c.abs_k) <= c.L
<1> DEFINE R == [l \in Layers(c) |-> k_budget(c, l)]
<1>1. \A l \in Layers(c) : R[l] = AbsBudget(c, l, c.abs_k)
  BY DEF k_budget
<1>2. c.L \in Nat \ {0} /\ c.abs_k \in Nat
  BY ConfigType
<1>3. \A l \in Layers(c) : AbsBudget(c, l, c.abs_k) \in Int
  <2> SUFFICES ASSUME NEW l \in Layers(c) PROVE AbsBudget(c, l, c.abs_k) \in Int
    OBVIOUS
  <2>1. Multiplier(c, l).num \in Nat /\ Multiplier(c, l).den \in Nat \ {0}
    BY MultiplierType
  <2>2. c.abs_k * Multiplier(c, l).num \in Nat
    BY <1>2, <2>1
  <2> QED
    BY <2>1, <2>2, RoundNear DEF AbsBudget
<1>4. R \in [Layers(c) -> Int]
  BY <1>1, <1>3
<1>5. SumFunction(R) = SumFunctionOnSet(R, Layers(c))
  BY DEF SumFunction
<1> HIDE DEF R
<1>6. /\ SumFunctionOnSet(R, Layers(c)) \in Nat
      /\ 2 * (c.abs_k * c.L) - c.L <= 2 * SumFunctionOnSet(R, Layers(c))
      /\ 2 * SumFunctionOnSet(R, Layers(c)) <= 2 * (c.abs_k * c.L) + c.L
  BY <1>1, <1>2, <1>4, RoundedSum
<1>7. PICK z \in Nat : z = SumFunctionOnSet(R, Layers(c))
  BY <1>6
<1>8. PICK n \in Nat : n = c.L * c.abs_k
  BY <1>2
<1>9. c.abs_k * c.L = n
  BY <1>2, <1>8
<1>10. 2 * Dist(z, n) <= c.L
  BY <1>2, <1>6, <1>7, <1>9 DEF Dist
<1> QED
  BY <1>5, <1>7, <1>8, <1>10 DEF R

-------------------------------------------------------------------------------
(* What a page may take *)

LEMMA AbsBudgetNat ==
  ASSUME NEW c \in Configs, NEW l \in Layers(c), NEW s \in Nat
  PROVE  AbsBudget(c, l, s) \in Nat
<1>1. Multiplier(c, l).num \in Nat /\ Multiplier(c, l).den \in Nat \ {0}
  BY MultiplierType
<1>2. s * Multiplier(c, l).num \in Nat
  BY <1>1
<1> QED
  BY <1>1, <1>2, RoundNear DEF AbsBudget

(* What a ratio admits of a layer, times its denominators. *)
LEMMA ShareBelow ==
  ASSUME NEW c \in Configs, NEW l \in Layers(c),
         NEW total \in Nat, NEW ratio \in Nat, NEW frac \in Nat
  PROVE  /\ Share(c, l, total, ratio, frac) \in Nat
         /\ (Den * Den * Multiplier(c, l).den) * Share(c, l, total, ratio, frac)
              <= Most(1, total) * ratio * frac * Multiplier(c, l).num
<1> DEFINE m == Multiplier(c, l)
           n == Most(1, total) * ratio * frac * m.num
           d == Den * Den * m.den
<1>1. m.num \in Nat /\ m.den \in Nat \ {0} /\ Den \in Nat \ {0}
  BY MultiplierType, ConstantTypes
<1>2. Most(1, total) \in Nat
  BY DEF Most
<1>3. n \in Nat
  BY <1>1, <1>2
<1>4. d \in Nat \ {0}
  BY <1>1
<1>5. Share(c, l, total, ratio, frac) = n \div d
  BY DEF Share
<1> HIDE DEF n, d
<1>6. n \div d \in Nat /\ n % d \in 0 .. d - 1 /\ n = d * (n \div d) + (n % d)
  BY <1>3, <1>4, DivBounds
<1>7. d * (n \div d) <= n
  BY <1>3, <1>4, <1>6
<1> QED
  BY <1>5, <1>6, <1>7 DEF n, d

LEMMA RatioBudgetNat ==
  ASSUME NEW c \in Configs, NEW l \in Layers(c),
         NEW override \in Nat \cup {None}, NEW frac \in Nat, NEW total \in Nat
  PROVE  RatioBudget(c, l, override, frac, total) \in Nat
<1> DEFINE ratio == IF override = None THEN c.ratio ELSE override
<1>1. ratio \in Nat /\ c.min_per_kind \in Nat
  BY ConfigType DEF None
<1> HIDE DEF ratio
<1>2. Share(c, l, total, ratio, frac) \in Nat
  BY <1>1, ShareBelow
<1> QED
  BY <1>1, <1>2 DEF RatioBudget, Most, ratio

LEMMA BudgetsNat ==
  ASSUME NEW c \in Configs, NEW l \in Layers(c)
  PROVE  k_budget(c, l) \in Nat /\ v_budget(c, l) \in Nat /\ joint_budget(c, l) \in Nat
<1>1. /\ AbsBudget(c, l, c.abs_k) \in Nat /\ AbsBudget(c, l, c.abs_v) \in Nat
      /\ RatioBudget(c, l, c.ratio_k, c.k_frac, NumCG) \in Nat
      /\ RatioBudget(c, l, c.ratio_v, c.v_frac, NumVB) \in Nat
  BY ConfigType, ConstantTypes, AbsBudgetNat, RatioBudgetNat
<1>2. k_budget(c, l) \in Nat /\ v_budget(c, l) \in Nat
  BY <1>1 DEF k_budget, v_budget
<1> DEFINE m == Multiplier(c, l)
           n == (Most(1, NumCG) + Most(1, NumVB)) * c.ratio * m.num
           d == Den * m.den
<1>3. m.num \in Nat /\ m.den \in Nat \ {0} /\ Den \in Nat \ {0} /\ c.ratio \in Nat
  BY MultiplierType, ConstantTypes, ConfigType
<1>4. Most(1, NumCG) \in Nat /\ Most(1, NumVB) \in Nat
  BY ConstantTypes DEF Most
<1>5. n \in Nat /\ d \in Nat \ {0}
  BY <1>3, <1>4
<1>6. joint_budget(c, l) = IF c.mode = "absolute" THEN k_budget(c, l) + v_budget(c, l)
                          ELSE Most(1, n \div d)
  BY DEF joint_budget
<1> HIDE DEF n, d
<1>7. n \div d \in Nat
  BY <1>5, DivBounds
<1>8. Most(1, n \div d) \in Nat
  BY <1>7 DEF Most
<1> QED
  BY <1>2, <1>6, <1>8

(* The most K, V and joint slots a page of each layer takes. *)
KCaps(c) == [l \in Layers(c) |-> IF StoresNothing(c) THEN 0 ELSE Least(k_budget(c, l), NumCG)]
VCaps(c) == [l \in Layers(c) |-> IF StoresNothing(c) THEN 0 ELSE Least(v_budget(c, l), NumVB)]
JCaps(c) == [l \in Layers(c) |-> IF StoresNothing(c) THEN 0 ELSE joint_budget(c, l)]

LEMMA CapsType ==
  ASSUME NEW c \in Configs
  PROVE  /\ KCaps(c) \in [Layers(c) -> Nat]
         /\ VCaps(c) \in [Layers(c) -> Nat]
         /\ JCaps(c) \in [Layers(c) -> Nat]
<1>1. ASSUME NEW l \in Layers(c)
      PROVE  /\ Least(k_budget(c, l), NumCG) \in Nat
             /\ Least(v_budget(c, l), NumVB) \in Nat
             /\ joint_budget(c, l) \in Nat
  BY BudgetsNat, ConstantTypes DEF Least
<1> QED
  BY <1>1 DEF KCaps, VCaps, JCaps

LEMMA TakesWithinCaps ==
  ASSUME NEW c \in Configs, NEW l \in Layers(c), NEW t \in Takes(c, l)
  PROVE  /\ t[1] \in Nat /\ t[2] \in Nat
         /\ IF c.store_policy = "joint" THEN t[1] + t[2] <= JCaps(c)[l]
            ELSE t[1] <= KCaps(c)[l] /\ t[2] <= VCaps(c)[l]
<1>0. /\ Least(k_budget(c, l), NumCG) \in Nat
      /\ Least(v_budget(c, l), NumVB) \in Nat
      /\ joint_budget(c, l) \in Nat /\ NumCG \in Nat /\ NumVB \in Nat
  BY BudgetsNat, ConstantTypes DEF Least
<1>1. CASE StoresNothing(c)
  BY <1>1 DEF Takes, KCaps, VCaps, JCaps
<1>2. CASE ~ StoresNothing(c) /\ c.store_policy = "joint"
  <2>1. t \in (0 .. NumCG) \X (0 .. NumVB) /\ t[1] + t[2] <= joint_budget(c, l)
    BY <1>2 DEF Takes
  <2>2. JCaps(c)[l] = joint_budget(c, l)
    BY <1>2 DEF JCaps
  <2> QED
    BY <1>0, <1>2, <2>1, <2>2
<1>3. CASE ~ StoresNothing(c) /\ c.store_policy # "joint"
  <2>1. t \in (0 .. Least(k_budget(c, l), NumCG)) \X (0 .. Least(v_budget(c, l), NumVB))
    BY <1>3 DEF Takes
  <2>2. KCaps(c)[l] = Least(k_budget(c, l), NumCG) /\ VCaps(c)[l] = Least(v_budget(c, l), NumVB)
    BY <1>3 DEF KCaps, VCaps
  <2> QED
    BY <1>0, <1>3, <2>1, <2>2
<1> QED
  BY <1>1, <1>2, <1>3

-------------------------------------------------------------------------------
(* The charge of the lanes *)

LanesOf(c) == Layers(c) \X (0 .. NumKvHeads - 1)

(* The times a lane stored a page, times what its layer admits; summed.    *)
Charges(c, stores, caps) == [x \in LanesOf(c) |-> stores[x] * caps[x[1]]]
Charge(c, stores, caps)  == SumFunctionOnSet(Charges(c, stores, caps), LanesOf(c))

LEMMA HeadsFinite == IsFiniteSet(0 .. NumKvHeads - 1)
                     /\ Cardinality(0 .. NumKvHeads - 1) = NumKvHeads
<1>1. NumKvHeads \in Nat \ {0}
  BY ConstantTypes
<1>2. 0 \in Int /\ NumKvHeads - 1 \in Int /\ ~ (0 > NumKvHeads - 1)
      /\ (NumKvHeads - 1) - 0 + 1 = NumKvHeads
  BY <1>1
<1> QED
  BY <1>2, FS_Interval

LEMMA LanesFinite ==
  ASSUME NEW c \in Configs
  PROVE  IsFiniteSet(LanesOf(c)) /\ <<0, 0>> \in LanesOf(c)
<1>1. IsFiniteSet(Layers(c)) /\ IsFiniteSet(0 .. NumKvHeads - 1)
  BY LayersFinite, HeadsFinite
<1>2. 0 \in Layers(c) /\ 0 \in 0 .. NumKvHeads - 1
  BY ConfigType, ConstantTypes DEF Layers
<1> QED
  BY <1>1, <1>2, FS_Product DEF LanesOf

LEMMA ChargesType ==
  ASSUME NEW c \in Configs, NEW stores \in [LanesOf(c) -> Nat],
         NEW caps \in [Layers(c) -> Nat]
  PROVE  /\ \A x \in LanesOf(c) : Charges(c, stores, caps)[x] \in Nat
         /\ Charge(c, stores, caps) \in Nat
<1>1. ASSUME NEW x \in LanesOf(c) PROVE Charges(c, stores, caps)[x] \in Nat
  <2>1. x[1] \in Layers(c)
    BY DEF LanesOf
  <2>2. stores[x] \in Nat /\ caps[x[1]] \in Nat
    BY <2>1
  <2>3. stores[x] * caps[x[1]] \in Nat
    BY <2>2
  <2> QED
    BY <2>3 DEF Charges
<1> QED
  BY <1>1, LanesFinite, SumNat DEF Charge

(* One more page of a lane adds what its layer admits. *)
LEMMA ChargeStep ==
  ASSUME NEW c \in Configs, NEW stores \in [LanesOf(c) -> Nat],
         NEW caps \in [Layers(c) -> Nat], NEW x \in LanesOf(c),
         NEW more \in [LanesOf(c) -> Nat],
         \A y \in LanesOf(c) : more[y] = IF y = x THEN stores[y] + 1 ELSE stores[y]
  PROVE  Charge(c, more, caps) = Charge(c, stores, caps) + caps[x[1]]
<1> DEFINE v == Charges(c, more, caps)
           w == Charges(c, stores, caps)
<1>1. \A y \in LanesOf(c) : v[y] \in Nat /\ w[y] \in Nat
  BY ChargesType
<1>2. \A y \in LanesOf(c) : v[y] = more[y] * caps[y[1]] /\ w[y] = stores[y] * caps[y[1]]
  BY DEF Charges
<1>3. Charge(c, more, caps) = SumFunctionOnSet(v, LanesOf(c))
      /\ Charge(c, stores, caps) = SumFunctionOnSet(w, LanesOf(c))
  BY DEF Charge
<1>4. SumFunctionOnSet(w, LanesOf(c)) \in Nat
  BY <1>3, ChargesType
<1> HIDE DEF v, w
<1>5. \A y \in LanesOf(c) : v[y] \in Int /\ w[y] \in Int /\ (y # x => v[y] = w[y])
  BY <1>1, <1>2
<1>6. SumFunctionOnSet(v, LanesOf(c)) = SumFunctionOnSet(w, LanesOf(c)) + (v[x] - w[x])
  <2> DEFINE S == LanesOf(c)
  <2>1. IsFiniteSet(S) /\ x \in S
    BY LanesFinite
  <2>2. \A y \in S : v[y] \in Int /\ w[y] \in Int /\ (y # x => v[y] = w[y])
    BY <1>5
  <2> HIDE DEF S
  <2>3. SumFunctionOnSet(v, S) = SumFunctionOnSet(w, S) + (v[x] - w[x])
    BY <2>1, <2>2, SumChange
  <2> QED
    BY <2>3 DEF S
<1>7. PICK k \in Nat : k = caps[x[1]]
  BY DEF LanesOf
<1>8. PICK n \in Nat : n = stores[x]
  OBVIOUS
<1>9. (n + 1) * k = n * k + k /\ n * k \in Int
  OBVIOUS
<1>10. v[x] - w[x] = k
  BY <1>2, <1>7, <1>8, <1>9
<1> QED
  BY <1>3, <1>4, <1>6, <1>7, <1>10

(* Lanes that stored at most m pages each charge at most m times the heads *)
(* times the sum of what the layers admit.                                 *)
LEMMA ChargeBound ==
  ASSUME NEW c \in Configs, NEW m \in Nat, NEW stores \in [LanesOf(c) -> 0 .. m],
         NEW caps \in [Layers(c) -> Nat]
  PROVE  Charge(c, stores, caps) <= m * (NumKvHeads * SumFunctionOnSet(caps, Layers(c)))
<1> DEFINE w == Charges(c, stores, caps)
           g == [l \in Layers(c) |-> m * caps[l]]
           full == [x \in LanesOf(c) |-> m * caps[x[1]]]
           H == 0 .. NumKvHeads - 1
<1>0. /\ IsFiniteSet(Layers(c)) /\ IsFiniteSet(H) /\ Cardinality(H) = NumKvHeads
      /\ IsFiniteSet(LanesOf(c)) /\ LanesOf(c) = Layers(c) \X H
  BY LayersFinite, HeadsFinite, LanesFinite DEF LanesOf
<1>1. \A x \in LanesOf(c) : x[1] \in Layers(c)
  BY DEF LanesOf
<1>2. ASSUME NEW x \in LanesOf(c)
      PROVE  w[x] \in Int /\ full[x] \in Int /\ w[x] <= full[x] /\ full[x] = g[x[1]]
  <2>1. PICK k \in Nat : k = caps[x[1]]
    BY <1>1
  <2>2. PICK n \in Nat : n = stores[x] /\ n <= m
    OBVIOUS
  <2>3. k * n <= k * m
    BY <2>2, TimesMonotone
  <2>4. k * n = n * k /\ k * m = m * k /\ n * k \in Int /\ m * k \in Int
    OBVIOUS
  <2>5. w[x] = n * k /\ full[x] = m * k /\ g[x[1]] = m * k
    BY <1>1, <2>1, <2>2 DEF Charges
  <2> QED
    BY <2>3, <2>4, <2>5
<1>3. ASSUME NEW l \in Layers(c)
      PROVE  g[l] \in Int /\ caps[l] \in Int /\ g[l] = m * caps[l] + 0 * caps[l]
  <2>1. PICK k \in Nat : k = caps[l]
    OBVIOUS
  <2>2. m * k = m * k + 0 * k /\ m * k \in Int
    OBVIOUS
  <2> QED
    BY <2>1, <2>2
<1>4. Charge(c, stores, caps) = SumFunctionOnSet(w, LanesOf(c))
  BY DEF Charge
<1> HIDE DEF w, g, full, H
<1>5. SumFunctionOnSet(w, LanesOf(c)) <= SumFunctionOnSet(full, LanesOf(c))
  BY <1>0, <1>2, SumMonotone
<1>6. \A p \in Layers(c) \X H : full[p] = g[p[1]]
  BY <1>0, <1>2
<1>7. SumFunctionOnSet(full, Layers(c) \X H) = Cardinality(H) * SumFunctionOnSet(g, Layers(c))
  BY <1>0, <1>3, <1>6, SumProduct
<1>8. SumFunctionOnSet(g, Layers(c))
        = m * SumFunctionOnSet(caps, Layers(c)) + 0 * SumFunctionOnSet(caps, Layers(c))
  BY <1>0, <1>3, SumLinear
<1>9. SumFunctionOnSet(caps, Layers(c)) \in Nat /\ NumKvHeads \in Nat
  BY <1>0, SumNat, ConstantTypes
<1>10. PICK z \in Nat : z = SumFunctionOnSet(caps, Layers(c))
  BY <1>9
<1>11. NumKvHeads * (m * z + 0 * z) = m * (NumKvHeads * z)
  BY <1>9
<1>12. SumFunctionOnSet(full, LanesOf(c)) = m * (NumKvHeads * z)
  BY <1>0, <1>7, <1>8, <1>10, <1>11
<1> QED
  BY <1>4, <1>5, <1>10, <1>12

-------------------------------------------------------------------------------
(* The arenas of an absolute budget *)

LEMMA CapsSum ==
  ASSUME NEW c \in Configs, NEW s \in Nat, NEW caps \in [Layers(c) -> Nat],
         \A l \in Layers(c) : caps[l] <= AbsBudget(c, l, s)
  PROVE  2 * SumFunctionOnSet(caps, Layers(c)) <= 3 * (s * c.L)
<1> DEFINE R == [l \in Layers(c) |-> AbsBudget(c, l, s)]
<1>1. R \in [Layers(c) -> Int] /\ \A l \in Layers(c) : R[l] = AbsBudget(c, l, s)
  BY AbsBudgetNat
<1> HIDE DEF R
<1>2. /\ R \in [Layers(c) -> Nat] /\ SumFunctionOnSet(R, Layers(c)) \in Nat
      /\ 2 * SumFunctionOnSet(R, Layers(c)) <= 3 * (s * c.L)
  BY <1>1, AbsoluteSum
<1>3. IsFiniteSet(Layers(c)) /\ c.L \in Nat
  BY LayersFinite, ConfigType
<1>4. \A l \in Layers(c) : caps[l] \in Int /\ R[l] \in Int /\ caps[l] <= R[l]
  BY <1>1, <1>2
<1>5. SumFunctionOnSet(caps, Layers(c)) <= SumFunctionOnSet(R, Layers(c))
  BY <1>3, <1>4, SumMonotone
<1>6. SumFunctionOnSet(caps, Layers(c)) \in Nat
  BY <1>3, SumNat
<1>7. PICK n \in Int : n = 3 * (s * c.L)
  BY <1>3
<1> QED
  BY <1>2, <1>5, <1>6, <1>7

LEMMA AbsoluteCaps ==
  ASSUME NEW c \in Configs, c.mode = "absolute"
  PROVE  /\ 2 * SumFunctionOnSet(KCaps(c), Layers(c)) <= 3 * (c.abs_k * c.L)
         /\ 2 * SumFunctionOnSet(VCaps(c), Layers(c)) <= 3 * (c.abs_v * c.L)
         /\ 2 * SumFunctionOnSet(JCaps(c), Layers(c)) <= 3 * ((c.abs_k + c.abs_v) * c.L)
<1> DEFINE S == Layers(c)
           RK == [l \in S |-> AbsBudget(c, l, c.abs_k)]
           RV == [l \in S |-> AbsBudget(c, l, c.abs_v)]
           RB == [l \in S |-> 1 * RK[l] + 1 * RV[l]]
<1>0. /\ c.abs_k \in Nat /\ c.abs_v \in Nat /\ c.L \in Nat \ {0}
      /\ NumCG \in Nat /\ NumVB \in Nat /\ IsFiniteSet(S)
  BY ConfigType, ConstantTypes, LayersFinite
<1>1. \A l \in S : AbsBudget(c, l, c.abs_k) \in Nat /\ AbsBudget(c, l, c.abs_v) \in Nat
  BY <1>0, AbsBudgetNat
<1>2. ~ StoresNothing(c)
  BY DEF StoresNothing
<1>3. ASSUME NEW l \in S
      PROVE  /\ k_budget(c, l) <= AbsBudget(c, l, c.abs_k)
             /\ v_budget(c, l) <= AbsBudget(c, l, c.abs_v)
             /\ k_budget(c, l) \in Nat /\ v_budget(c, l) \in Nat
             /\ joint_budget(c, l) = k_budget(c, l) + v_budget(c, l)
  <2>1. AbsBudget(c, l, c.abs_k) \in Nat /\ AbsBudget(c, l, c.abs_v) \in Nat
    BY <1>1
  <2> QED
    BY <2>1 DEF k_budget, v_budget, joint_budget
<1>4. ASSUME NEW l \in S
      PROVE  /\ KCaps(c)[l] <= AbsBudget(c, l, c.abs_k)
             /\ VCaps(c)[l] <= AbsBudget(c, l, c.abs_v)
             /\ JCaps(c)[l] <= RB[l]
  <2>1. AbsBudget(c, l, c.abs_k) \in Nat /\ AbsBudget(c, l, c.abs_v) \in Nat
    BY <1>1
  <2>2. /\ KCaps(c)[l] = Least(k_budget(c, l), NumCG)
        /\ VCaps(c)[l] = Least(v_budget(c, l), NumVB)
        /\ JCaps(c)[l] = joint_budget(c, l)
    BY <1>2 DEF KCaps, VCaps, JCaps
  <2>3. RB[l] = AbsBudget(c, l, c.abs_k) + AbsBudget(c, l, c.abs_v)
    BY <2>1
  <2> QED
    BY <1>0, <1>3, <2>1, <2>2, <2>3 DEF Least
<1>5. /\ KCaps(c) \in [S -> Nat] /\ VCaps(c) \in [S -> Nat] /\ JCaps(c) \in [S -> Nat]
  BY CapsType
<1>6. /\ RK \in [S -> Int] /\ RV \in [S -> Int]
      /\ \A l \in S : RK[l] = AbsBudget(c, l, c.abs_k)
      /\ \A l \in S : RV[l] = AbsBudget(c, l, c.abs_v)
  BY <1>1
<1>7. \A l \in S : RB[l] = 1 * RK[l] + 1 * RV[l]
  OBVIOUS
<1> HIDE DEF RK, RV, RB
<1>8. /\ SumFunctionOnSet(RK, S) \in Nat /\ 2 * SumFunctionOnSet(RK, S) <= 3 * (c.abs_k * c.L)
      /\ SumFunctionOnSet(RV, S) \in Nat /\ 2 * SumFunctionOnSet(RV, S) <= 3 * (c.abs_v * c.L)
  BY <1>0, <1>6, AbsoluteSum
<1>9. SumFunctionOnSet(RB, S) = 1 * SumFunctionOnSet(RK, S) + 1 * SumFunctionOnSet(RV, S)
  BY <1>0, <1>6, <1>7, SumLinear
<1>10. \A l \in S : RB[l] \in Int
  BY <1>6, <1>7
<1>11. SumFunctionOnSet(JCaps(c), S) <= SumFunctionOnSet(RB, S)
  BY <1>0, <1>4, <1>5, <1>10, SumMonotone
<1>12. SumFunctionOnSet(JCaps(c), S) \in Nat
  BY <1>0, <1>5, SumNat
<1>13. 2 * SumFunctionOnSet(JCaps(c), S) <= 3 * ((c.abs_k + c.abs_v) * c.L)
  <2>1. PICK x \in Nat : x = c.abs_k * c.L
    BY <1>0
  <2>2. PICK y \in Nat : y = c.abs_v * c.L
    BY <1>0
  <2>3. (c.abs_k + c.abs_v) * c.L = x + y
    BY <1>0, <2>1, <2>2
  <2> QED
    BY <1>8, <1>9, <1>11, <1>12, <2>1, <2>2, <2>3
<1>14. 2 * SumFunctionOnSet(KCaps(c), S) <= 3 * (c.abs_k * c.L)
  BY <1>0, <1>4, <1>5, CapsSum
<1>15. 2 * SumFunctionOnSet(VCaps(c), S) <= 3 * (c.abs_v * c.L)
  BY <1>0, <1>4, <1>5, CapsSum
<1> QED
  BY <1>13, <1>14, <1>15

LEMMA SlotsCounted ==
  ASSUME NEW c \in Configs
  PROVE  /\ max_slots(c) \in Nat
         /\ MaxPages * NumKvHeads * c.L * (c.abs_k + c.abs_v) * 2 <= max_slots(c)
<1> DEFINE lanes == MaxPages * NumKvHeads * c.L
           byRatio == (lanes * c.ratio * 4) \div Den
           byAbs == lanes * (c.abs_k + c.abs_v) * 2
<1>0. /\ c.L \in Nat \ {0} /\ c.ratio \in Nat /\ c.abs_k \in Nat /\ c.abs_v \in Nat
      /\ MaxPages \in Nat /\ NumKvHeads \in Nat /\ MinSlots \in Nat /\ Den \in Nat \ {0}
  BY ConfigType, ConstantTypes
<1>1. lanes \in Nat
  BY <1>0
<1>2. lanes * c.ratio * 4 \in Nat /\ byAbs \in Nat
  <2> HIDE DEF lanes
  <2>1. lanes * c.ratio \in Nat /\ c.abs_k + c.abs_v \in Nat
    BY <1>0, <1>1
  <2>2. lanes * (c.abs_k + c.abs_v) \in Nat
    BY <1>1, <2>1
  <2> QED
    BY <2>1, <2>2
<1>3. byRatio \in Nat
  BY <1>0, <1>2, DivBounds
<1>4. max_slots(c) = Most(MinSlots, Most(byRatio, byAbs))
  BY DEF max_slots
<1> HIDE DEF lanes, byRatio, byAbs
<1>5. max_slots(c) \in Nat /\ byAbs <= max_slots(c)
  BY <1>0, <1>2, <1>3, <1>4 DEF Most
<1> QED
  BY <1>5 DEF lanes, byAbs

(* From three pages on, twice the slots cover one page more than there are *)
(* and half as much again for rounding.                                    *)
LEMMA ArenaHolds ==
  ASSUME MaxPages >= 3, NEW c \in Configs, NEW a \in Nat, a <= c.abs_k + c.abs_v,
         NEW caps \in [Layers(c) -> Nat],
         2 * SumFunctionOnSet(caps, Layers(c)) <= 3 * (a * c.L),
         NEW stores \in [LanesOf(c) -> 0 .. MaxPages + 1]
  PROVE  Charge(c, stores, caps) <= max_slots(c)
<1>0. /\ c.L \in Nat \ {0} /\ c.abs_k \in Nat /\ c.abs_v \in Nat
      /\ MaxPages \in Nat /\ NumKvHeads \in Nat /\ IsFiniteSet(Layers(c))
  BY ConfigType, ConstantTypes, LayersFinite
<1>1. PICK H \in Nat : H = NumKvHeads
  BY <1>0
<1>2. PICK L \in Nat : L = c.L
  BY <1>0
<1>3. PICK z \in Nat : z = SumFunctionOnSet(caps, Layers(c))
  BY <1>0, SumNat
<1>4. PICK P \in Nat : P = MaxPages
  BY <1>0
<1>5. P + 1 \in Nat /\ stores \in [LanesOf(c) -> 0 .. P + 1]
  BY <1>4
<1>6. Charge(c, stores, caps) <= (P + 1) * (H * z)
  BY <1>1, <1>3, <1>5, ChargeBound
<1>7. Charge(c, stores, caps) \in Nat
  <2>1. stores \in [LanesOf(c) -> Nat]
    BY <1>5
  <2> QED
    BY <2>1, ChargesType
<1>8. ((P + 1) * H) * (2 * z) <= ((P + 1) * H) * (3 * (a * L))
  <2>1. (P + 1) * H \in Nat /\ 2 * z \in Int /\ 3 * (a * L) \in Int
    OBVIOUS
  <2>2. 2 * z <= 3 * (a * L)
    BY <1>2, <1>3
  <2> QED
    BY <2>1, <2>2, TimesMonotone
<1>9. (H * (a * L)) * (3 * (P + 1)) <= (H * (a * L)) * (4 * P)
  <2>1. 3 * (P + 1) <= 4 * P
    BY <1>4
  <2>2. H * (a * L) \in Nat /\ 3 * (P + 1) \in Int /\ 4 * P \in Int
    OBVIOUS
  <2> QED
    BY <2>1, <2>2, TimesMonotone
<1>10. /\ ((P + 1) * H) * (2 * z) = 2 * ((P + 1) * (H * z))
       /\ ((P + 1) * H) * (3 * (a * L)) = (H * (a * L)) * (3 * (P + 1))
       /\ (H * (a * L)) * (4 * P) = 2 * (((P * H * L) * 2) * a)
  OBVIOUS
<1>11. ((P * H * L) * 2) * a <= ((P * H * L) * 2) * (c.abs_k + c.abs_v)
  <2>1. (P * H * L) * 2 \in Nat /\ c.abs_k + c.abs_v \in Int
    BY <1>0
  <2> QED
    BY <2>1, TimesMonotone
<1>12. PICK b \in Nat : b = c.abs_k + c.abs_v
  BY <1>0
<1>13. ((P * H * L) * 2) * b = P * H * L * b * 2
  OBVIOUS
<1>14. P * H * L * b * 2 <= max_slots(c) /\ max_slots(c) \in Nat
  BY <1>1, <1>2, <1>4, <1>12, SlotsCounted
<1>15. PICK x \in Nat : x = (P + 1) * (H * z)
  OBVIOUS
<1>16. PICK y \in Nat : y = ((P * H * L) * 2) * a
  OBVIOUS
<1>17. PICK m \in Nat : m = (H * (a * L)) * (3 * (P + 1))
  OBVIOUS
<1>18. 2 * x <= m /\ m <= 2 * y
  BY <1>8, <1>9, <1>10, <1>15, <1>16, <1>17
<1>19. y <= P * H * L * b * 2
  BY <1>11, <1>12, <1>13, <1>16
<1>20. P * H * L * b * 2 \in Nat
  OBVIOUS
<1> QED
  BY <1>6, <1>7, <1>14, <1>15, <1>18, <1>19, <1>20

(* A deployment that stores V only admits no K residual. *)
LEMMA VOnlyCaps ==
  ASSUME NEW c \in Configs, c.mode = "absolute", VOnly(c)
  PROVE  c.store_policy # "joint" /\ SumFunctionOnSet(KCaps(c), Layers(c)) = 0
<1>0. /\ IsFiniteSet(Layers(c)) /\ c.L \in Nat /\ c.abs_k \in Nat /\ NumCG \in Nat
      /\ KCaps(c) \in [Layers(c) -> Nat]
  BY LayersFinite, ConfigType, ConstantTypes, CapsType
<1>1. CASE ~ UsesK(c)
  <2>1. c.store_policy # "joint"
    BY <1>1 DEF UsesK
  <2>2. \A l \in Layers(c) : KCaps(c)[l] = 0
    BY <1>0, <1>1 DEF KCaps, k_budget, Least
  <2>3. SumFunctionOnSet(KCaps(c), Layers(c)) = 0 * Cardinality(Layers(c))
    BY <1>0, <2>2, SumConstant
  <2> QED
    BY <1>0, <2>1, <2>3, LayersFinite
<1>2. CASE c.store_policy = "per_kind" /\ c.abs_k = 0
  <2>1. SumFunctionOnSet(KCaps(c), Layers(c)) \in Nat
    BY <1>0, SumNat
  <2>2. 2 * SumFunctionOnSet(KCaps(c), Layers(c)) <= 3 * (0 * c.L)
    BY <1>2, AbsoluteCaps
  <2> QED
    BY <1>0, <1>2, <2>1, <2>2
<1> QED
  BY <1>1, <1>2 DEF VOnly

-------------------------------------------------------------------------------
(* The invariant *)

(* The times each lane stored a page, the reopened one twice. *)
Stored == [x \in Lanes |-> pages[x] + (IF reopened[x] THEN 1 ELSE 0)]

StateTyped ==
  /\ cfg \in Configs
  /\ pages \in [Lanes -> 0 .. MaxPages] /\ reopened \in [Lanes -> BOOLEAN]
  /\ used_k \in Nat /\ used_v \in Nat
  /\ phase \in {"running", "slots_full"}

(* The slots in use never exceed the charge of their kind, or of both,     *)
(* until an allocation fails on a page that is then not stored.            *)
Covered ==
  phase = "running" =>
    IF cfg.store_policy = "joint"
    THEN used_k + used_v <= Charge(cfg, Stored, JCaps(cfg))
    ELSE /\ used_k <= Charge(cfg, Stored, KCaps(cfg))
         /\ used_v <= Charge(cfg, Stored, VCaps(cfg))

BudgetInv == StateTyped /\ Covered /\ ArenaSuffices

LEMMA LanesAre == Lanes = LanesOf(cfg)
BY DEF Lanes, LanesOf

LEMMA StoredType ==
  ASSUME StateTyped
  PROVE  Stored \in [LanesOf(cfg) -> 0 .. MaxPages + 1]
<1>1. MaxPages \in Nat
  BY ConstantTypes
<1> QED
  BY <1>1, LanesAre DEF StateTyped, Stored

(* Within the caps, slots in use stay within the charge of what is stored. *)
LEMMA ChargeGrows ==
  ASSUME NEW c \in Configs, NEW x \in LanesOf(c),
         NEW stores \in [LanesOf(c) -> Nat], NEW more \in [LanesOf(c) -> Nat],
         \A y \in LanesOf(c) : more[y] = IF y = x THEN stores[y] + 1 ELSE stores[y],
         NEW caps \in [Layers(c) -> Nat], NEW used \in Nat, NEW t \in Nat,
         used <= Charge(c, stores, caps), t <= caps[x[1]]
  PROVE  used + t <= Charge(c, more, caps)
<1>1. Charge(c, more, caps) = Charge(c, stores, caps) + caps[x[1]]
  BY ChargeStep
<1>2. Charge(c, stores, caps) \in Nat
  BY ChargesType
<1>3. caps[x[1]] \in Nat
  BY DEF LanesOf
<1> QED
  BY <1>1, <1>2, <1>3

(* What the lanes have stored when lane x stores once more. *)
OneMore(x, more) ==
  /\ more \in [LanesOf(cfg) -> 0 .. MaxPages + 1]
  /\ \A y \in LanesOf(cfg) : more[y] = IF y = x THEN Stored[y] + 1 ELSE Stored[y]

(* The invariant is about a cache that runs. *)
LEMMA CoveredRunning ==
  ASSUME BudgetInv, phase = "running", NEW x \in Lanes, NEW more, OneMore(x, more)
  PROVE  /\ cfg \in Configs /\ x \in LanesOf(cfg) /\ x[1] \in Layers(cfg)
         /\ used_k \in Nat /\ used_v \in Nat
         /\ Stored \in [LanesOf(cfg) -> Nat] /\ more \in [LanesOf(cfg) -> Nat]
         /\ KCaps(cfg) \in [Layers(cfg) -> Nat] /\ VCaps(cfg) \in [Layers(cfg) -> Nat]
         /\ JCaps(cfg) \in [Layers(cfg) -> Nat]
         /\ Charge(cfg, more, KCaps(cfg)) \in Nat /\ Charge(cfg, more, VCaps(cfg)) \in Nat
         /\ Charge(cfg, more, JCaps(cfg)) \in Nat
<1>1. /\ cfg \in Configs /\ x \in LanesOf(cfg) /\ x[1] \in Layers(cfg)
      /\ used_k \in Nat /\ used_v \in Nat
  BY LanesAre DEF BudgetInv, StateTyped, LanesOf
<1>2. Stored \in [LanesOf(cfg) -> Nat] /\ more \in [LanesOf(cfg) -> Nat]
  <2>1. Stored \in [LanesOf(cfg) -> 0 .. MaxPages + 1]
    BY StoredType DEF BudgetInv
  <2>2. MaxPages \in Nat
    BY ConstantTypes
  <2> QED
    BY <2>1, <2>2 DEF OneMore
<1>3. /\ KCaps(cfg) \in [Layers(cfg) -> Nat] /\ VCaps(cfg) \in [Layers(cfg) -> Nat]
      /\ JCaps(cfg) \in [Layers(cfg) -> Nat]
  BY <1>1, CapsType
<1> QED
  BY <1>1, <1>2, <1>3, ChargesType

(* A page within the budgets is charged, whichever action stores it. *)
LEMMA TakesCharged ==
  ASSUME BudgetInv, phase = "running", NEW x \in Lanes, NEW more, OneMore(x, more),
         NEW t \in Takes(cfg, x[1])
  PROVE  /\ t[1] \in Nat /\ t[2] \in Nat
         /\ IF cfg.store_policy = "joint"
            THEN (used_k + t[1]) + (used_v + t[2]) <= Charge(cfg, more, JCaps(cfg))
            ELSE /\ used_k + t[1] <= Charge(cfg, more, KCaps(cfg))
                 /\ used_v + t[2] <= Charge(cfg, more, VCaps(cfg))
<1>0. /\ cfg \in Configs /\ x \in LanesOf(cfg) /\ x[1] \in Layers(cfg)
      /\ used_k \in Nat /\ used_v \in Nat
      /\ Stored \in [LanesOf(cfg) -> Nat] /\ more \in [LanesOf(cfg) -> Nat]
      /\ KCaps(cfg) \in [Layers(cfg) -> Nat] /\ VCaps(cfg) \in [Layers(cfg) -> Nat]
      /\ JCaps(cfg) \in [Layers(cfg) -> Nat]
  BY CoveredRunning
<1>1. /\ t[1] \in Nat /\ t[2] \in Nat
      /\ IF cfg.store_policy = "joint" THEN t[1] + t[2] <= JCaps(cfg)[x[1]]
         ELSE t[1] <= KCaps(cfg)[x[1]] /\ t[2] <= VCaps(cfg)[x[1]]
  BY <1>0, TakesWithinCaps
<1>2. ASSUME NEW caps \in [Layers(cfg) -> Nat], NEW u \in Nat, NEW s \in Nat,
             u <= Charge(cfg, Stored, caps), s <= caps[x[1]]
      PROVE  u + s <= Charge(cfg, more, caps)
  BY <1>0, <1>2, ChargeGrows DEF OneMore
<1>3. PICK k \in Nat : k = used_k
  BY <1>0
<1>4. PICK v \in Nat : v = used_v
  BY <1>0
<1>5. PICK i \in Nat : i = t[1]
  BY <1>1
<1>6. PICK j \in Nat : j = t[2]
  BY <1>1
<1>7. CASE cfg.store_policy = "joint"
  <2>1. k + v <= Charge(cfg, Stored, JCaps(cfg)) /\ i + j <= JCaps(cfg)[x[1]]
    BY <1>1, <1>3, <1>4, <1>5, <1>6, <1>7 DEF BudgetInv, Covered
  <2>2. (k + v) + (i + j) <= Charge(cfg, more, JCaps(cfg))
    BY <1>0, <1>2, <2>1
  <2>3. (k + v) + (i + j) = (k + i) + (v + j)
    OBVIOUS
  <2> QED
    BY <1>1, <1>3, <1>4, <1>5, <1>6, <1>7, <2>2, <2>3
<1>8. CASE cfg.store_policy # "joint"
  <2>1. /\ k <= Charge(cfg, Stored, KCaps(cfg)) /\ i <= KCaps(cfg)[x[1]]
        /\ v <= Charge(cfg, Stored, VCaps(cfg)) /\ j <= VCaps(cfg)[x[1]]
    BY <1>1, <1>3, <1>4, <1>5, <1>6, <1>8 DEF BudgetInv, Covered
  <2>2. k + i <= Charge(cfg, more, KCaps(cfg)) /\ v + j <= Charge(cfg, more, VCaps(cfg))
    BY <1>0, <1>2, <2>1
  <2> QED
    BY <1>1, <1>3, <1>4, <1>5, <1>6, <1>8, <2>2
<1> QED
  BY <1>7, <1>8

(* Under absolute budgets the arenas hold what is charged. *)
LEMMA ChargeFits ==
  ASSUME BudgetInv, phase = "running", NEW x \in Lanes, NEW more, OneMore(x, more),
         NEW t \in Takes(cfg, x[1]), MaxPages >= 3, cfg.mode = "absolute",
         cfg.vdom_optimized => VOnly(cfg)
  PROVE  Fits(t[1], t[2])
<1>0. /\ cfg \in Configs /\ x \in LanesOf(cfg) /\ x[1] \in Layers(cfg)
      /\ used_k \in Nat /\ used_v \in Nat
      /\ KCaps(cfg) \in [Layers(cfg) -> Nat] /\ VCaps(cfg) \in [Layers(cfg) -> Nat]
      /\ JCaps(cfg) \in [Layers(cfg) -> Nat]
      /\ Charge(cfg, more, KCaps(cfg)) \in Nat /\ Charge(cfg, more, VCaps(cfg)) \in Nat
      /\ Charge(cfg, more, JCaps(cfg)) \in Nat
  BY CoveredRunning
<1>1. /\ t[1] \in Nat /\ t[2] \in Nat
      /\ IF cfg.store_policy = "joint"
         THEN (used_k + t[1]) + (used_v + t[2]) <= Charge(cfg, more, JCaps(cfg))
         ELSE /\ used_k + t[1] <= Charge(cfg, more, KCaps(cfg))
              /\ used_v + t[2] <= Charge(cfg, more, VCaps(cfg))
  BY TakesCharged
<1>2. more \in [LanesOf(cfg) -> 0 .. MaxPages + 1]
  BY DEF OneMore
<1>3. cfg.abs_k \in Nat /\ cfg.abs_v \in Nat /\ max_slots(cfg) \in Nat
  BY <1>0, ConfigType, SlotsCounted
<1>4. CASE cfg.store_policy = "joint"
  <2>1. ~ cfg.vdom_optimized
    BY <1>0, <1>4, VOnlyCaps
  <2>2. k_slots(cfg) = max_slots(cfg)
    BY <2>1 DEF k_slots
  <2>3. 2 * SumFunctionOnSet(JCaps(cfg), Layers(cfg)) <= 3 * ((cfg.abs_k + cfg.abs_v) * cfg.L)
    BY <1>0, <1>4, AbsoluteCaps
  <2>4. cfg.abs_k + cfg.abs_v \in Nat /\ cfg.abs_k + cfg.abs_v <= cfg.abs_k + cfg.abs_v
    BY <1>3
  <2>5. Charge(cfg, more, JCaps(cfg)) <= max_slots(cfg)
    BY <1>0, <1>2, <2>3, <2>4, ArenaHolds
  <2> QED
    BY <1>0, <1>1, <1>3, <1>4, <2>2, <2>5 DEF Fits
<1>5. CASE cfg.store_policy # "joint"
  <2>1. /\ 2 * SumFunctionOnSet(KCaps(cfg), Layers(cfg)) <= 3 * (cfg.abs_k * cfg.L)
        /\ 2 * SumFunctionOnSet(VCaps(cfg), Layers(cfg)) <= 3 * (cfg.abs_v * cfg.L)
    BY <1>0, <1>5, AbsoluteCaps
  <2>2. cfg.abs_k <= cfg.abs_k + cfg.abs_v /\ cfg.abs_v <= cfg.abs_k + cfg.abs_v
    BY <1>3
  <2>3. Charge(cfg, more, KCaps(cfg)) <= max_slots(cfg)
    BY <1>0, <1>2, <1>3, <2>1, <2>2, ArenaHolds
  <2>4. Charge(cfg, more, VCaps(cfg)) <= max_slots(cfg)
    BY <1>0, <1>2, <1>3, <2>1, <2>2, ArenaHolds
  <2>5. used_v + t[2] <= max_slots(cfg)
    BY <1>0, <1>1, <1>3, <1>5, <2>4
  <2>6. used_k + t[1] <= k_slots(cfg)
    <3>1. CASE ~ cfg.vdom_optimized
      BY <1>0, <1>1, <1>3, <1>5, <2>3, <3>1 DEF k_slots
    <3>2. CASE cfg.vdom_optimized
      <4>1. SumFunctionOnSet(KCaps(cfg), Layers(cfg)) = 0
        BY <1>0, <3>2, VOnlyCaps
      <4>2. MaxPages + 1 \in Nat /\ NumKvHeads \in Nat
        BY ConstantTypes
      <4>3. Charge(cfg, more, KCaps(cfg)) <= (MaxPages + 1)
              * (NumKvHeads * SumFunctionOnSet(KCaps(cfg), Layers(cfg)))
        BY <1>0, <1>2, <4>2, ChargeBound
      <4>4. (MaxPages + 1) * (NumKvHeads * 0) = 0
        BY <4>2
      <4>5. k_slots(cfg) = 0
        BY <3>2 DEF k_slots
      <4> QED
        BY <1>0, <1>1, <1>5, <4>1, <4>3, <4>4, <4>5
    <3> QED
      BY <3>1, <3>2
  <2> QED
    BY <2>5, <2>6 DEF Fits
<1> QED
  BY <1>4, <1>5

(* Lane x may store a page, a new one or the one its prompt ended in. *)
LEMMA RoomForOneMore ==
  ASSUME StateTyped, NEW x \in Lanes, NewPage(x) \/ OpenPage(x)
  PROVE  OneMore(x, [y \in LanesOf(cfg) |-> IF y = x THEN Stored[y] + 1 ELSE Stored[y]])
<1>1. MaxPages \in Nat /\ Lanes = LanesOf(cfg)
  BY ConstantTypes, LanesAre
<1>2. pages[x] \in 0 .. MaxPages /\ reopened[x] \in BOOLEAN
  BY DEF StateTyped
<1>3. Stored[x] + 1 \in 0 .. MaxPages + 1
  BY <1>1, <1>2 DEF Stored, NewPage, OpenPage
<1>4. Stored \in [LanesOf(cfg) -> 0 .. MaxPages + 1]
  BY StoredType
<1> QED
  BY <1>1, <1>3, <1>4 DEF OneMore

(* A page that is stored keeps the invariant, whichever action stores it.  *)
LEMMA StoreKeeps ==
  ASSUME BudgetInv, NEW x \in Lanes, cfg' = cfg, phase = "running", phase' = phase,
         pages' \in [Lanes -> 0 .. MaxPages], reopened' \in [Lanes -> BOOLEAN],
         OneMore(x, Stored'), TakeSlots(x)
  PROVE  BudgetInv'
<1>1. PICK t \in Takes(cfg, x[1]) : used_k' = used_k + t[1] /\ used_v' = used_v + t[2]
  BY DEF TakeSlots
<1>2. Lanes' = Lanes
  BY DEF Lanes, Layers
<1>3. used_k \in Nat /\ used_v \in Nat
  BY DEF BudgetInv, StateTyped
<1> DEFINE more == Stored'
<1>4. OneMore(x, more)
  OBVIOUS
<1>5. more = Stored'
  OBVIOUS
<1> HIDE DEF more
<1>6. /\ t[1] \in Nat /\ t[2] \in Nat
      /\ IF cfg.store_policy = "joint"
         THEN (used_k + t[1]) + (used_v + t[2]) <= Charge(cfg, more, JCaps(cfg))
         ELSE /\ used_k + t[1] <= Charge(cfg, more, KCaps(cfg))
              /\ used_v + t[2] <= Charge(cfg, more, VCaps(cfg))
  BY <1>4, TakesCharged
<1>7. StateTyped'
  <2>1. used_k' \in Nat /\ used_v' \in Nat
    BY <1>1, <1>3, <1>6
  <2> QED
    BY <1>2, <2>1 DEF BudgetInv, StateTyped
<1>8. Covered'
  BY <1>1, <1>5, <1>6 DEF Covered
<1>9. ArenaSuffices'
  BY DEF ArenaSuffices
<1> QED
  BY <1>7, <1>8, <1>9 DEF BudgetInv

(* An arena never runs dry where the sizes suffice. *)
LEMMA DryKeeps ==
  ASSUME BudgetInv, NEW x \in Lanes, ArenaDry(x)
  PROVE  BudgetInv'
<1>1. /\ phase = "running" /\ (NewPage(x) \/ OpenPage(x)) /\ phase' = "slots_full"
      /\ cfg' = cfg /\ pages' = pages /\ reopened' = reopened
  BY DEF ArenaDry
<1>2. PICK t \in Takes(cfg, x[1]) :
        /\ ~ Fits(t[1], t[2])
        /\ \E k \in 0 .. t[1], v \in 0 .. t[2] : used_k' = used_k + k /\ used_v' = used_v + v
  BY DEF ArenaDry
<1>3. PICK more : OneMore(x, more)
  BY <1>1, RoomForOneMore DEF BudgetInv
<1>4. ~ (MaxPages >= 3 /\ cfg.mode = "absolute" /\ (cfg.vdom_optimized => VOnly(cfg)))
  BY <1>1, <1>2, <1>3, ChargeFits
<1>5. ArenaSuffices'
  BY <1>1, <1>4 DEF ArenaSuffices
<1>6. Covered'
  BY <1>1 DEF Covered
<1>7. StateTyped'
  <2>1. Lanes' = Lanes
    BY <1>1 DEF Lanes, Layers
  <2>2. used_k \in Nat /\ used_v \in Nat
    BY DEF BudgetInv, StateTyped
  <2>3. used_k' \in Nat /\ used_v' \in Nat
    <3>1. PICK k \in 0 .. t[1], v \in 0 .. t[2] : used_k' = used_k + k /\ used_v' = used_v + v
      BY <1>2
    <3>2. k \in Nat /\ v \in Nat
      BY <1>1, <1>3, TakesCharged
    <3> QED
      BY <2>2, <3>1, <3>2
  <2> QED
    BY <1>1, <2>1, <2>3 DEF BudgetInv, StateTyped
<1> QED
  BY <1>5, <1>6, <1>7 DEF BudgetInv

(* What nothing stored is charged. *)
LEMMA NothingCharged ==
  ASSUME NEW c \in Configs, NEW stores, stores = [x \in LanesOf(c) |-> 0]
  PROVE  /\ 0 <= Charge(c, stores, KCaps(c)) /\ 0 <= Charge(c, stores, VCaps(c))
         /\ 0 <= Charge(c, stores, JCaps(c))
<1>1. /\ KCaps(c) \in [Layers(c) -> Nat] /\ VCaps(c) \in [Layers(c) -> Nat]
      /\ JCaps(c) \in [Layers(c) -> Nat] /\ stores \in [LanesOf(c) -> Nat]
  BY CapsType
<1>2. /\ Charge(c, stores, KCaps(c)) \in Nat /\ Charge(c, stores, VCaps(c)) \in Nat
      /\ Charge(c, stores, JCaps(c)) \in Nat
  BY <1>1, ChargesType
<1> QED
  BY <1>2

LEMMA InitBudget == Init => BudgetInv
<1> SUFFICES ASSUME Init PROVE BudgetInv
  OBVIOUS
<1>1. StateTyped
  BY ConstantTypes DEF Init, StateTyped
<1>2. cfg \in Configs /\ used_k = 0 /\ used_v = 0 /\ phase = "running"
  BY DEF Init
<1>3. Stored = [x \in LanesOf(cfg) |-> 0]
  BY LanesAre DEF Init, Stored
<1> QED
  BY <1>1, <1>2, <1>3, NothingCharged DEF BudgetInv, Covered, ArenaSuffices

LEMMA NextBudget == BudgetInv /\ [Next]_vars => BudgetInv'
<1> SUFFICES ASSUME BudgetInv, [Next]_vars PROVE BudgetInv'
  OBVIOUS
<1>0. /\ Lanes = LanesOf(cfg) /\ MaxPages \in Nat
      /\ pages \in [Lanes -> 0 .. MaxPages] /\ reopened \in [Lanes -> BOOLEAN]
      /\ Stored \in [LanesOf(cfg) -> 0 .. MaxPages + 1]
  BY LanesAre, StoredType, ConstantTypes DEF BudgetInv, StateTyped
<1>1. ASSUME NEW x \in Lanes, StorePage(x) PROVE BudgetInv'
  <2>1. /\ cfg' = cfg /\ phase = "running" /\ phase' = phase /\ pages[x] < MaxPages
        /\ pages' = [pages EXCEPT ![x] = @ + 1] /\ reopened' = reopened /\ TakeSlots(x)
    BY <1>1 DEF StorePage, NewPage
  <2>2. pages' \in [Lanes -> 0 .. MaxPages] /\ reopened' \in [Lanes -> BOOLEAN]
    BY <1>0, <2>1
  <2>3. Stored' = [y \in Lanes |-> pages'[y] + (IF reopened[y] THEN 1 ELSE 0)]
    BY <2>1 DEF Stored, Lanes, Layers
  <2>4. ASSUME NEW y \in LanesOf(cfg)
        PROVE  Stored'[y] = IF y = x THEN Stored[y] + 1 ELSE Stored[y]
    <3>1. Stored[y] = pages[y] + (IF reopened[y] THEN 1 ELSE 0) /\ pages[y] \in Nat
      BY <1>0 DEF Stored
    <3>2. pages'[y] = IF y = x THEN pages[y] + 1 ELSE pages[y]
      BY <1>0, <2>1
    <3>3. Stored'[y] = pages'[y] + (IF reopened[y] THEN 1 ELSE 0)
      BY <1>0, <2>3
    <3> QED
      BY <1>0, <2>1, <3>1, <3>2, <3>3
  <2>5. Stored' \in [LanesOf(cfg) -> 0 .. MaxPages + 1]
    BY <1>0, <2>2, <2>3
  <2>6. OneMore(x, Stored')
    BY <2>4, <2>5 DEF OneMore
  <2> QED
    BY <2>1, <2>2, <2>6, StoreKeeps
<1>2. ASSUME NEW x \in Lanes, StoreAgain(x) PROVE BudgetInv'
  <2>1. /\ cfg' = cfg /\ phase = "running" /\ phase' = phase /\ ~ reopened[x]
        /\ reopened' = [reopened EXCEPT ![x] = TRUE] /\ pages' = pages /\ TakeSlots(x)
    BY <1>2 DEF StoreAgain, OpenPage
  <2>2. pages' \in [Lanes -> 0 .. MaxPages] /\ reopened' \in [Lanes -> BOOLEAN]
    BY <1>0, <2>1
  <2>3. Stored' = [y \in Lanes |-> pages[y] + (IF reopened'[y] THEN 1 ELSE 0)]
    BY <2>1 DEF Stored, Lanes, Layers
  <2>4. ASSUME NEW y \in LanesOf(cfg)
        PROVE  Stored'[y] = IF y = x THEN Stored[y] + 1 ELSE Stored[y]
    <3>1. Stored[y] = pages[y] + (IF reopened[y] THEN 1 ELSE 0) /\ pages[y] \in Nat
      BY <1>0 DEF Stored
    <3>2. reopened'[y] = IF y = x THEN TRUE ELSE reopened[y]
      BY <1>0, <2>1
    <3>3. Stored'[y] = pages[y] + (IF reopened'[y] THEN 1 ELSE 0)
      BY <1>0, <2>3
    <3> QED
      BY <1>0, <2>1, <3>1, <3>2, <3>3
  <2>5. Stored' \in [LanesOf(cfg) -> 0 .. MaxPages + 1]
    BY <1>0, <2>2, <2>3
  <2>6. OneMore(x, Stored')
    BY <2>4, <2>5 DEF OneMore
  <2> QED
    BY <2>1, <2>2, <2>6, StoreKeeps
<1>3. ASSUME NewCache PROVE BudgetInv'
  <2>1. /\ cfg' = cfg /\ cfg \in Configs /\ used_k' = 0 /\ used_v' = 0 /\ phase' = "running"
        /\ pages' = [c \in Lanes |-> 0] /\ reopened' = [c \in Lanes |-> FALSE]
    BY <1>3 DEF NewCache, BudgetInv, StateTyped
  <2>2. Lanes' = Lanes
    BY <2>1 DEF Lanes, Layers
  <2>3. StateTyped'
    BY <1>0, <2>1, <2>2 DEF StateTyped
  <2>4. Stored' = [x \in LanesOf(cfg) |-> 0]
    BY <1>0, <2>1, <2>2 DEF Stored
  <2>5. /\ 0 <= Charge(cfg, Stored', KCaps(cfg)) /\ 0 <= Charge(cfg, Stored', VCaps(cfg))
        /\ 0 <= Charge(cfg, Stored', JCaps(cfg))
    BY <2>1, <2>4, NothingCharged
  <2> QED
    BY <2>1, <2>3, <2>5 DEF BudgetInv, Covered, ArenaSuffices
<1>4. CASE UNCHANGED vars
  <2>1. /\ cfg' = cfg /\ pages' = pages /\ reopened' = reopened /\ used_k' = used_k
        /\ used_v' = used_v /\ phase' = phase
    BY <1>4 DEF vars
  <2>2. Lanes' = Lanes
    BY <2>1 DEF Lanes, Layers
  <2>3. Stored' = Stored
    BY <2>1, <2>2 DEF Stored
  <2> QED
    BY <2>1, <2>2, <2>3 DEF BudgetInv, StateTyped, Covered, ArenaSuffices
<1> QED
  BY <1>1, <1>2, <1>3, <1>4, DryKeeps DEF Next

LEMMA BudgetInvariant == Spec => []BudgetInv
<1>1. Init => BudgetInv
  BY InitBudget
<1>2. BudgetInv /\ [Next]_vars => BudgetInv'
  BY NextBudget
<1> QED
  BY <1>1, <1>2, PTL DEF Spec

(* For every number of layers, heads and pages from three on, every layer  *)
(* policy and store policy: the arenas the cache allocates once from the   *)
(* absolute budgets never run dry while the pages of all lanes fill and    *)
(* each lane's last prompt page is stored twice.                           *)
THEOREM ArenasSuffice == Spec => []ArenaSuffices
<1>1. BudgetInv => ArenaSuffices
  BY DEF BudgetInv
<1> QED
  BY <1>1, BudgetInvariant, PTL

(* Every layer policy keeps the sum of the layers' K budgets to within     *)
(* half a slot a layer.                                                    *)
THEOREM PoliciesKeepTotal == Spec => []TotalPreserved
<1>1. BudgetInv => TotalPreserved
  BY TotalKept DEF BudgetInv, StateTyped, TotalPreserved
<1> QED
  BY <1>1, BudgetInvariant, PTL

-------------------------------------------------------------------------------
(* The estimate *)

(* A cap within the ratio's share of its layer keeps, summed over the      *)
(* layers, within the ratio's share of all.                                *)
LEMMA RatioSum ==
  ASSUME NEW c \in Configs, NEW caps \in [Layers(c) -> Nat], NEW total \in Nat,
         \A l \in Layers(c) : (Den * Multiplier(c, l).den) * caps[l]
                                <= (total * c.ratio) * Multiplier(c, l).num
  PROVE  Den * SumFunctionOnSet(caps, Layers(c)) <= c.L * (total * c.ratio)
<1> DEFINE S == Layers(c)
<1>0. /\ c.L \in Nat \ {0} /\ c.ratio \in Nat /\ Den \in Nat \ {0} /\ IsFiniteSet(S)
      /\ SumFunctionOnSet(caps, S) \in Nat
  BY ConfigType, ConstantTypes, LayersFinite, SumNat
<1>1. PICK num, d : Balanced(c, num, d)
  BY MultipliersBalance
<1>2. /\ num \in [S -> Nat] /\ d \in Nat \ {0} /\ SumFunctionOnSet(num, S) = c.L * d
      /\ \A l \in S : Multiplier(c, l) = [num |-> num[l], den |-> d]
  BY <1>1 DEF Balanced
<1>3. PICK a \in Nat : a = total * c.ratio
  BY <1>0
<1>4. PICK b \in Nat : b = Den * d
  BY <1>0, <1>2
<1> DEFINE low  == [l \in S |-> b * caps[l] + 0 * caps[l]]
           high == [l \in S |-> a * num[l] + 0 * num[l]]
<1>5. ASSUME NEW l \in S
      PROVE  low[l] \in Int /\ high[l] \in Int /\ low[l] <= high[l]
  <2>1. b * caps[l] <= a * num[l]
    BY <1>2, <1>3, <1>4
  <2>2. PICK x \in Nat : x = caps[l]
    OBVIOUS
  <2>3. PICK y \in Nat : y = num[l]
    BY <1>2
  <2>4. b * x + 0 * x = b * x /\ a * y + 0 * y = a * y /\ b * x \in Int /\ a * y \in Int
    OBVIOUS
  <2> QED
    BY <2>1, <2>2, <2>3, <2>4
<1>6. /\ \A l \in S : low[l] = b * caps[l] + 0 * caps[l]
      /\ \A l \in S : high[l] = a * num[l] + 0 * num[l]
      /\ \A l \in S : caps[l] \in Int /\ num[l] \in Int
  BY <1>2
<1> HIDE DEF low, high
<1>7. SumFunctionOnSet(low, S) <= SumFunctionOnSet(high, S)
  BY <1>0, <1>5, SumMonotone
<1>8. SumFunctionOnSet(low, S) = b * SumFunctionOnSet(caps, S) + 0 * SumFunctionOnSet(caps, S)
  <2>1. \A l \in S : caps[l] \in Int /\ caps[l] \in Int /\ low[l] = b * caps[l] + 0 * caps[l]
    BY <1>6
  <2>2. IsFiniteSet(S) /\ b \in Int /\ 0 \in Int
    BY <1>0
  <2> HIDE DEF S
  <2> QED
    BY <2>1, <2>2, SumLinear
<1>9. SumFunctionOnSet(high, S) = a * SumFunctionOnSet(num, S) + 0 * SumFunctionOnSet(num, S)
  BY <1>0, <1>6, SumLinear
<1>10. PICK z \in Nat : z = SumFunctionOnSet(caps, S)
  BY <1>0
<1>11. PICK L \in Nat : L = c.L
  BY <1>0
<1>12. b * z + 0 * z = d * (Den * z) /\ a * (L * d) + 0 * (L * d) = d * (L * a)
  BY <1>0, <1>2, <1>4
<1>13. d * (Den * z) <= d * (L * a)
  BY <1>2, <1>7, <1>8, <1>9, <1>10, <1>11, <1>12
<1>14. Den * z <= L * a
  <2>1. Den * z \in Int /\ L * a \in Int
    BY <1>0
  <2> QED
    BY <1>2, <1>13, <2>1, CancelFactor
<1> QED
  BY <1>3, <1>10, <1>11, <1>14

(* The share of a kind, taken in no more than its candidates. *)
LEMMA KindWithinRatio ==
  ASSUME NEW c \in Configs, NEW l \in Layers(c), NEW frac \in Nat, frac <= Den,
         NEW total \in Nat, NEW budget \in Nat,
         budget > 0 => budget = Share(c, l, total, c.ratio, frac)
  PROVE  (Den * Multiplier(c, l).den) * Least(budget, total)
           <= (total * c.ratio) * Multiplier(c, l).num
<1>0. c.ratio \in Nat /\ Den \in Nat \ {0}
  BY ConfigType, ConstantTypes
<1>1. PICK num \in Nat : num = Multiplier(c, l).num
  BY MultiplierType
<1>2. PICK d \in Nat \ {0} : d = Multiplier(c, l).den
  BY MultiplierType
<1>3. PICK r \in Nat : r = c.ratio
  BY <1>0
<1>4. PICK k \in Nat : k = Least(budget, total)
  BY DEF Least
<1>5. CASE k = 0
  <2>1. (Den * d) * 0 = 0 /\ (total * r) * num >= 0
    BY <1>0
  <2> QED
    BY <1>1, <1>2, <1>3, <1>4, <1>5, <2>1
<1>6. CASE k > 0
  <2>1. total > 0 /\ budget > 0 /\ k <= budget
    BY <1>4, <1>6 DEF Least
  <2>2. Most(1, total) = total
    BY <2>1 DEF Most
  <2>3. budget = Share(c, l, total, r, frac)
    BY <1>3, <2>1
  <2>4. (Den * Den * d) * budget <= total * r * frac * num
    BY <1>0, <1>1, <1>2, <1>3, <2>2, <2>3, ShareBelow
  <2>5. (total * r * num) * frac <= (total * r * num) * Den
    <3>1. total * r * num \in Nat
      OBVIOUS
    <3> QED
      BY <1>0, <3>1, TimesMonotone
  <2>6. (Den * Den * d) * k <= (Den * Den * d) * budget
    <3>1. Den * Den * d \in Nat
      BY <1>0
    <3> QED
      BY <2>1, <3>1, TimesMonotone
  <2>7. /\ (Den * Den * d) * k = Den * ((Den * d) * k)
        /\ total * r * frac * num = (total * r * num) * frac
        /\ (total * r * num) * Den = Den * ((total * r) * num)
    BY <1>0
  <2>8. /\ Den * ((Den * d) * k) \in Int /\ (Den * Den * d) * budget \in Int
        /\ (total * r * num) * frac \in Int /\ Den * ((total * r) * num) \in Int
        /\ (Den * d) * k \in Int /\ (total * r) * num \in Int
    BY <1>0
  <2>9. Den * ((Den * d) * k) <= Den * ((total * r) * num)
    BY <2>4, <2>5, <2>6, <2>7, <2>8
  <2>10. (Den * d) * k <= (total * r) * num
    BY <1>0, <2>8, <2>9, CancelFactor
  <2> QED
    BY <1>1, <1>2, <1>3, <1>4, <2>10
<1> QED
  BY <1>4, <1>5, <1>6

(* Where no floor lifts a layer, its caps are within its share. *)
LEMMA CapsWithinRatio ==
  ASSUME NEW c \in Configs, c.mode = "ratio", c.ratio_k = None, c.ratio_v = None,
         c.k_frac <= Den, c.v_frac <= Den, NoneLifted(c), NEW l \in Layers(c)
  PROVE  IF c.store_policy = "joint"
         THEN (Den * Multiplier(c, l).den) * JCaps(c)[l]
                <= ((NumCG + NumVB) * c.ratio) * Multiplier(c, l).num
         ELSE /\ (Den * Multiplier(c, l).den) * KCaps(c)[l]
                   <= (NumCG * c.ratio) * Multiplier(c, l).num
              /\ (Den * Multiplier(c, l).den) * VCaps(c)[l]
                   <= (NumVB * c.ratio) * Multiplier(c, l).num
<1>0. /\ c.ratio \in Nat /\ Den \in Nat \ {0} /\ NumCG \in Nat /\ NumVB \in Nat
      /\ c.k_frac \in Nat /\ c.v_frac \in Nat /\ c.min_per_kind \in Nat
      /\ k_budget(c, l) \in Nat /\ v_budget(c, l) \in Nat
      /\ Multiplier(c, l).num \in Nat /\ Multiplier(c, l).den \in Nat \ {0}
  BY ConfigType, ConstantTypes, BudgetsNat, MultiplierType
<1>1. CASE StoresNothing(c)
  <2>1. KCaps(c)[l] = 0 /\ VCaps(c)[l] = 0 /\ JCaps(c)[l] = 0
    BY <1>1 DEF KCaps, VCaps, JCaps
  <2>2. (Den * Multiplier(c, l).den) * 0 = 0
    BY <1>0
  <2>3. /\ ((NumCG + NumVB) * c.ratio) * Multiplier(c, l).num >= 0
        /\ (NumCG * c.ratio) * Multiplier(c, l).num >= 0
        /\ (NumVB * c.ratio) * Multiplier(c, l).num >= 0
    BY <1>0
  <2> QED
    BY <2>1, <2>2, <2>3
<1>2. CASE ~ StoresNothing(c) /\ c.store_policy = "joint"
  <2> DEFINE num == Multiplier(c, l).num
             n == (NumCG + NumVB) * c.ratio * num
             d == Den * Multiplier(c, l).den
  <2>1. NumCG > 0 /\ NumVB > 0 /\ n >= d
    BY <1>2 DEF NoneLifted
  <2>2. n \in Nat /\ d \in Nat \ {0}
    BY <1>0
  <2>3. JCaps(c)[l] = joint_budget(c, l)
    BY <1>2 DEF JCaps
  <2>4. Most(1, NumCG) = NumCG /\ Most(1, NumVB) = NumVB
    BY <1>0, <2>1 DEF Most
  <2>5. joint_budget(c, l) = Most(1, n \div d)
    BY <2>4 DEF joint_budget
  <2>6. n = ((NumCG + NumVB) * c.ratio) * num
    OBVIOUS
  <2> HIDE DEF n, d
  <2>7. n \div d \in Nat /\ n % d \in 0 .. d - 1 /\ n = d * (n \div d) + (n % d)
    BY <2>2, DivBounds
  <2>8. 1 <= n \div d
    <3>1. d * 1 <= n
      BY <2>1, <2>2
    <3> QED
      BY <2>2, <3>1, BelowQuotient
  <2>9. JCaps(c)[l] = n \div d
    BY <2>3, <2>5, <2>7, <2>8 DEF Most
  <2>10. d * (n \div d) <= n
    BY <2>2, <2>7
  <2>11. d * JCaps(c)[l] <= n
    BY <2>9, <2>10
  <2> QED
    BY <1>2, <2>6, <2>11 DEF d
<1>3. CASE ~ StoresNothing(c) /\ c.store_policy # "joint"
  <2>1. /\ KCaps(c)[l] = Least(k_budget(c, l), NumCG)
        /\ VCaps(c)[l] = Least(v_budget(c, l), NumVB)
    BY <1>3 DEF KCaps, VCaps
  <2>2. /\ k_budget(c, l) > 0 => Share(c, l, NumCG, c.ratio, c.k_frac) >= c.min_per_kind
        /\ v_budget(c, l) > 0 => Share(c, l, NumVB, c.ratio, c.v_frac) >= c.min_per_kind
    BY <1>3 DEF NoneLifted
  <2>3. /\ Share(c, l, NumCG, c.ratio, c.k_frac) \in Nat
        /\ Share(c, l, NumVB, c.ratio, c.v_frac) \in Nat
    BY <1>0, ShareBelow
  <2>4. /\ k_budget(c, l) \in {0, Most(c.min_per_kind, Share(c, l, NumCG, c.ratio, c.k_frac))}
        /\ v_budget(c, l) \in {0, Most(c.min_per_kind, Share(c, l, NumVB, c.ratio, c.v_frac))}
    BY DEF k_budget, v_budget, RatioBudget
  <2>5. k_budget(c, l) > 0 => k_budget(c, l) = Share(c, l, NumCG, c.ratio, c.k_frac)
    BY <1>0, <2>2, <2>3, <2>4 DEF Most
  <2>6. v_budget(c, l) > 0 => v_budget(c, l) = Share(c, l, NumVB, c.ratio, c.v_frac)
    BY <1>0, <2>2, <2>3, <2>4 DEF Most
  <2>7. (Den * Multiplier(c, l).den) * Least(k_budget(c, l), NumCG)
          <= (NumCG * c.ratio) * Multiplier(c, l).num
    BY <1>0, <2>5, KindWithinRatio
  <2>8. (Den * Multiplier(c, l).den) * Least(v_budget(c, l), NumVB)
          <= (NumVB * c.ratio) * Multiplier(c, l).num
    BY <1>0, <2>6, KindWithinRatio
  <2> QED
    BY <1>3, <2>1, <2>7, <2>8
<1> QED
  BY <1>1, <1>2, <1>3

(* The charge of lanes that stored at most n pages, against the estimate.  *)
LEMMA ChargeEstimated ==
  ASSUME NEW c \in Configs, NEW n \in Nat, NEW stores \in [LanesOf(c) -> 0 .. n],
         NEW caps \in [Layers(c) -> Nat], NEW total \in Nat,
         \A l \in Layers(c) : (Den * Multiplier(c, l).den) * caps[l]
                                <= (total * c.ratio) * Multiplier(c, l).num
  PROVE  Den * Charge(c, stores, caps) <= n * NumKvHeads * c.L * total * c.ratio
<1>0. /\ c.L \in Nat /\ c.ratio \in Nat /\ Den \in Nat \ {0} /\ NumKvHeads \in Nat
      /\ IsFiniteSet(Layers(c))
  BY ConfigType, ConstantTypes, LayersFinite
<1>1. Charge(c, stores, caps) <= n * (NumKvHeads * SumFunctionOnSet(caps, Layers(c)))
  BY ChargeBound
<1>2. Den * SumFunctionOnSet(caps, Layers(c)) <= c.L * (total * c.ratio)
  BY RatioSum
<1>3. PICK q \in Nat : q = Charge(c, stores, caps)
  <2>1. stores \in [LanesOf(c) -> Nat]
    OBVIOUS
  <2> QED
    BY <2>1, ChargesType
<1>4. PICK z \in Nat : z = SumFunctionOnSet(caps, Layers(c))
  BY <1>0, SumNat
<1>5. PICK H \in Nat : H = NumKvHeads
  BY <1>0
<1>6. PICK L \in Nat : L = c.L
  BY <1>0
<1>7. PICK r \in Nat : r = c.ratio
  BY <1>0
<1>8. Den * q <= Den * (n * (H * z))
  <2>1. q <= n * (H * z) /\ n * (H * z) \in Int /\ Den \in Nat
    BY <1>0, <1>1, <1>3, <1>4, <1>5
  <2> QED
    BY <2>1, TimesMonotone
<1>9. (n * H) * (Den * z) <= (n * H) * (L * (total * r))
  <2>1. n * H \in Nat /\ Den * z \in Int /\ L * (total * r) \in Int
    BY <1>0
  <2>2. Den * z <= L * (total * r)
    BY <1>2, <1>4, <1>6, <1>7
  <2> QED
    BY <2>1, <2>2, TimesMonotone
<1>10. /\ Den * (n * (H * z)) = (n * H) * (Den * z)
       /\ (n * H) * (L * (total * r)) = n * H * L * total * r
  BY <1>0
<1>11. /\ Den * q \in Int /\ (n * H) * (Den * z) \in Int /\ n * H * L * total * r \in Int
  BY <1>0
<1>12. Den * q <= n * H * L * total * r
  BY <1>8, <1>9, <1>10, <1>11
<1> QED
  BY <1>3, <1>5, <1>6, <1>7, <1>12

(* The largest number of pages of a lane. *)
LEMMA MostPages ==
  ASSUME StateTyped
  PROVE  LET n == CHOOSE m \in 0 .. MaxPages : (\E c \in Lanes : pages[c] = m)
                                             /\ \A c \in Lanes : pages[c] <= m
         IN n \in 0 .. MaxPages /\ \A c \in Lanes : pages[c] <= n
<1>1. IsFiniteSet(Lanes) /\ Lanes # {}
  BY LanesAre, LanesFinite DEF StateTyped
<1>2. pages \in [Lanes -> 0 .. MaxPages] /\ \A c \in Lanes : pages[c] \in Int
  BY DEF StateTyped
<1>3. PICK x \in Lanes : \A c \in Lanes : pages[x] >= pages[c]
  BY <1>1, <1>2, LargestMember
<1>4. \E m \in 0 .. MaxPages : (\E c \in Lanes : pages[c] = m) /\ \A c \in Lanes : pages[c] <= m
  <2>1. pages[x] \in 0 .. MaxPages /\ \A c \in Lanes : pages[c] <= pages[x]
    BY <1>2, <1>3
  <2> QED
    BY <2>1
<1> QED
  BY <1>4

(* In ratio mode, for every number of layers, heads and pages and every    *)
(* layer policy: the memory reported for a prompt counts no fewer slots    *)
(* than its pages take, under the conditions EstimateCoversPages names.    *)
THEOREM EstimateCovers == Spec => []EstimateCoversPages
<1>1. ASSUME BudgetInv PROVE EstimateCoversPages
  <2> DEFINE n == CHOOSE m \in 0 .. MaxPages : (\E c \in Lanes : pages[c] = m)
                                             /\ \A c \in Lanes : pages[c] <= m
  <2>0. n \in 0 .. MaxPages /\ \A c \in Lanes : pages[c] <= n
    BY <1>1, MostPages DEF BudgetInv
  <2> HIDE DEF n
  <2> SUFFICES ASSUME phase = "running", cfg.mode = "ratio", cfg.ratio_k = None, cfg.ratio_v = None,
                      cfg.k_frac <= Den, cfg.v_frac <= Den, NoneLifted(cfg),
                      \A c \in Lanes : ~ reopened[c]
               PROVE  IF cfg.store_policy = "joint"
                      THEN used_k + used_v
                             <= Estimated(cfg, n, NumCG) + Estimated(cfg, n, NumVB) + 1
                      ELSE /\ used_k <= Estimated(cfg, n, NumCG)
                           /\ used_v <= Estimated(cfg, n, NumVB)
    BY DEF EstimateCoversPages, n
  <2>1. /\ cfg \in Configs /\ used_k \in Nat /\ used_v \in Nat
        /\ pages \in [Lanes -> 0 .. MaxPages] /\ Lanes = LanesOf(cfg)
        /\ n \in Nat /\ NumCG \in Nat /\ NumVB \in Nat /\ Den \in Nat \ {0}
        /\ NumKvHeads \in Nat
    BY <1>1, <2>0, LanesAre, ConstantTypes DEF BudgetInv, StateTyped
  <2>2. Stored \in [LanesOf(cfg) -> 0 .. n]
    BY <2>0, <2>1 DEF Stored
  <2>3. /\ KCaps(cfg) \in [Layers(cfg) -> Nat] /\ VCaps(cfg) \in [Layers(cfg) -> Nat]
        /\ JCaps(cfg) \in [Layers(cfg) -> Nat] /\ cfg.L \in Nat /\ cfg.ratio \in Nat
    BY <2>1, CapsType, ConfigType
  <2> DEFINE Product(total) == n * NumKvHeads * cfg.L * total * cfg.ratio
  <2>4. \A total \in Nat : Product(total) \in Nat /\ Estimated(cfg, n, total) = Product(total) \div Den
    <3> SUFFICES ASSUME NEW total \in Nat
                 PROVE  Product(total) \in Nat
                        /\ Estimated(cfg, n, total) = Product(total) \div Den
      OBVIOUS
    <3>1. PICK L \in Nat : L = cfg.L
      BY <2>3
    <3>2. PICK r \in Nat : r = cfg.ratio
      BY <2>3
    <3>3. /\ n * NumKvHeads * L * total * r \in Nat
      BY <2>1
    <3> QED
      BY <3>1, <3>2, <3>3 DEF Estimated
  <2>5. Product(NumCG + NumVB) = Product(NumCG) + Product(NumVB)
    <3>1. PICK L \in Nat : L = cfg.L
      BY <2>3
    <3>2. PICK r \in Nat : r = cfg.ratio
      BY <2>3
    <3>3. n * NumKvHeads * L * (NumCG + NumVB) * r
            = n * NumKvHeads * L * NumCG * r + n * NumKvHeads * L * NumVB * r
      BY <2>1
    <3> QED
      BY <3>1, <3>2, <3>3
  <2>6. CASE cfg.store_policy = "joint"
    <3>1. \A l \in Layers(cfg) : (Den * Multiplier(cfg, l).den) * JCaps(cfg)[l]
            <= ((NumCG + NumVB) * cfg.ratio) * Multiplier(cfg, l).num
      BY <2>1, <2>6, CapsWithinRatio
    <3>2. NumCG + NumVB \in Nat
      BY <2>1
    <3>3. Den * Charge(cfg, Stored, JCaps(cfg)) <= Product(NumCG + NumVB)
      BY <2>1, <2>2, <2>3, <3>1, <3>2, ChargeEstimated
    <3> HIDE DEF Product
    <3>4. PICK a \in Nat : a = Product(NumCG)
      BY <2>1, <2>4
    <3>5. PICK b \in Nat : b = Product(NumVB)
      BY <2>1, <2>4
    <3>6. PICK q \in Nat : q = Charge(cfg, Stored, JCaps(cfg))
      <4>1. Stored \in [LanesOf(cfg) -> Nat]
        BY <2>1, <2>2
      <4> QED
        BY <2>1, <2>3, <4>1, ChargesType
    <3>7. PICK x \in Nat : x = a \div Den
      BY <2>1, DivBounds
    <3>8. PICK y \in Nat : y = b \div Den
      BY <2>1, DivBounds
    <3>9. a <= Den * x + (Den - 1) /\ b <= Den * y + (Den - 1)
      <4>1. a % Den \in 0 .. Den - 1 /\ a = Den * (a \div Den) + (a % Den)
            /\ b % Den \in 0 .. Den - 1 /\ b = Den * (b \div Den) + (b % Den)
        BY <2>1, DivBounds
      <4>2. Den * x \in Int /\ Den * y \in Int
        BY <2>1
      <4> QED
        BY <2>1, <3>7, <3>8, <4>1, <4>2
    <3>10. Den * q <= Den * (x + y + 1) + (Den - 1)
      <4>1. Den * q <= a + b
        BY <2>5, <3>3, <3>4, <3>5, <3>6
      <4>2. Den * (x + y + 1) = Den * x + Den * y + Den /\ Den * x \in Int /\ Den * y \in Int
            /\ Den * q \in Int
        BY <2>1
      <4> QED
        BY <2>1, <3>9, <4>1, <4>2
    <3>11. q <= x + y + 1
      <4> SUFFICES ASSUME x + y + 2 <= q PROVE FALSE
        OBVIOUS
      <4>1. Den * (x + y + 2) <= Den * q
        BY <2>1, TimesMonotone
      <4>2. Den * (x + y + 2) = Den * (x + y + 1) + Den /\ Den * (x + y + 1) \in Int
            /\ Den * q \in Int
        BY <2>1
      <4> QED
        BY <2>1, <3>10, <4>1, <4>2
    <3>12. used_k + used_v <= q
      BY <1>1, <2>6, <3>6 DEF BudgetInv, Covered
    <3>13. Estimated(cfg, n, NumCG) = x /\ Estimated(cfg, n, NumVB) = y
      BY <2>1, <2>4, <3>4, <3>5, <3>7, <3>8
    <3> QED
      BY <2>1, <2>6, <3>11, <3>12, <3>13
  <2>7. CASE cfg.store_policy # "joint"
    <3>1. \A l \in Layers(cfg) :
            /\ (Den * Multiplier(cfg, l).den) * KCaps(cfg)[l]
                 <= (NumCG * cfg.ratio) * Multiplier(cfg, l).num
            /\ (Den * Multiplier(cfg, l).den) * VCaps(cfg)[l]
                 <= (NumVB * cfg.ratio) * Multiplier(cfg, l).num
      BY <2>1, <2>7, CapsWithinRatio
    <3>2. Den * Charge(cfg, Stored, KCaps(cfg)) <= Product(NumCG)
      BY <2>1, <2>2, <2>3, <3>1, ChargeEstimated
    <3>3. Den * Charge(cfg, Stored, VCaps(cfg)) <= Product(NumVB)
      BY <2>1, <2>2, <2>3, <3>1, ChargeEstimated
    <3>4. /\ Charge(cfg, Stored, KCaps(cfg)) \in Nat /\ Charge(cfg, Stored, VCaps(cfg)) \in Nat
      <4>1. Stored \in [LanesOf(cfg) -> Nat]
        BY <2>1, <2>2
      <4> QED
        BY <2>1, <2>3, <4>1, ChargesType
    <3> HIDE DEF Product
    <3>5. Charge(cfg, Stored, KCaps(cfg)) <= Estimated(cfg, n, NumCG)
      BY <2>1, <2>4, <3>2, <3>4, BelowQuotient
    <3>6. Charge(cfg, Stored, VCaps(cfg)) <= Estimated(cfg, n, NumVB)
      BY <2>1, <2>4, <3>3, <3>4, BelowQuotient
    <3>7. Estimated(cfg, n, NumCG) \in Nat /\ Estimated(cfg, n, NumVB) \in Nat
      <4>1. Product(NumCG) \in Nat /\ Product(NumVB) \in Nat
            /\ Estimated(cfg, n, NumCG) = Product(NumCG) \div Den
            /\ Estimated(cfg, n, NumVB) = Product(NumVB) \div Den
        BY <2>1, <2>4
      <4> QED
        BY <2>1, <4>1, DivBounds
    <3>8. /\ used_k <= Charge(cfg, Stored, KCaps(cfg))
          /\ used_v <= Charge(cfg, Stored, VCaps(cfg))
      BY <1>1, <2>7 DEF BudgetInv, Covered
    <3> QED
      BY <2>1, <2>7, <3>4, <3>5, <3>6, <3>7, <3>8
  <2> QED
    BY <2>6, <2>7
<1>2. BudgetInv => EstimateCoversPages
  BY <1>1
<1> QED
  BY <1>2, BudgetInvariant, PTL
=============================================================================
