-------------------------- MODULE LayerPrefillProofs --------------------------
(***************************************************************************)
(* Theorems about LayerPrefill, for every set of settings, number of heads *)
(* and length of the prompt: the residuals are taken against the base the  *)
(* queries attend over, eviction leaves every query the kept keys up to    *)
(* its own unless that is none, and a query gets its own correction.       *)
(*                                                                         *)
(* One invariant serves all of them.  What it adds to the properties is    *)
(* how far each loop has come: the KV heads already written, and the       *)
(* heads, queries and rows of the batch already corrected.                 *)
(***************************************************************************)
EXTENDS LayerPrefill, CommonLemmas

-------------------------------------------------------------------------------
(* The invariant *)

(* Of the setting the counts are all that matters. *)
TypeOK ==
  /\ {cfg.keep, cfg.sink, cfg.chunk} \subseteq Nat /\ cfg.recent \in Nat \cup {Unset}
  /\ T \in Nat \ {0}
  /\ pc \in {"write", "attend", "evict", "correct", "done", "raised"}
  /\ head \in Nat /\ c0 \in Nat
  /\ DOMAIN stored = KvHeads /\ DOMAIN residuals = KvHeads
  /\ DOMAIN delta = 0 .. Qn - 1 /\ DOMAIN out = QHeads

(* The pages of the heads the page loop has passed are written, and their   *)
(* residuals are taken against the same base.                              *)
WroteHead(h) == stored[h] = Written(cfg, h) /\ residuals[h] = Written(cfg, h)

BaseInv ==
  /\ pc = "write" => head < NumKvHeads /\ \A h \in 0 .. head - 1 : WroteHead(h)
  /\ pc \notin {"write", "raised"} => \A h \in KvHeads : WroteHead(h)
  /\ pc \in {"evict", "correct", "done"} =>
       \A q \in QHeads : base[q] = Attended(cfg, q \div kv_group)

(* What the last query attends to after the eviction. *)
KeepsItsShare ==
  /\ attended[T - 1] \in Kept(cfg, T)
  /\ attended[T - 1] \subseteq Tokens

AttentionInv ==
  /\ pc = "evict" => attended = _causal_attention_pure(T)
  /\ CausalUnlessAllEvicted
  /\ pc \in {"correct", "done"} /\ 0 < cfg.keep /\ cfg.keep < Den /\ cfg.mode # "fp" =>
       KeepsItsShare

(* What a query is to receive. *)
Due(h, t) ==
  IF \/ cfg.mode = "carekv_eval" /\ topk(cfg, t + 1) > 0
     \/ cfg.mode = "carekv_stored" /\ cfg.any_read_budget
  THEN <<h, t>> ELSE None

Corrected(heads) == \A h \in heads, t \in Tokens : out[h][t] = Due(h, t)
Untouched(heads) == \A h \in heads, t \in Tokens : out[h][t] = None

(* The query heads that the corrections have finished. *)
Finished(h) == IF Batched(cfg) THEN h \div kv_group < head ELSE h < head

LoopInv ==
  /\ pc \in {"write", "attend", "evict"} => Untouched(QHeads) /\ c0 = 0
  /\ pc \in {"attend", "evict"} => head = 0
  /\ pc = "correct" =>
       /\ cfg.mode = "carekv_eval" \/ (cfg.mode = "carekv_stored" /\ cfg.any_read_budget)
       /\ head < IF Batched(cfg) THEN NumKvHeads ELSE NumHeads
       /\ Corrected({h \in QHeads : Finished(h)})
       /\ Batched(cfg) =>
            /\ c0 < Qn
            /\ \A q \in 0 .. c0 - 1 : delta[q] = QueryAt(head, q)
  /\ pc = "done" => Corrected(QHeads)

PrefillInv == TypeOK /\ BaseInv /\ AttentionInv /\ LoopInv

-------------------------------------------------------------------------------
(* Heads, tokens and the batch *)

(* Every query head belongs to the group of one KV head. *)
LEMMA Groups ==
  /\ NumHeads \in Nat \ {0} /\ NumKvHeads \in Nat \ {0} /\ kv_group \in Nat \ {0}
  /\ NumHeads = kv_group * NumKvHeads
  /\ \A h \in QHeads : h \div kv_group \in KvHeads
<1>1. NumHeads \in Nat \ {0} /\ NumKvHeads \in Nat \ {0} /\ NumHeads % NumKvHeads = 0
  BY PrefillAssumption
<1>2. PICK g \in Nat : g = kv_group
  BY <1>1, DivBounds DEF kv_group
<1>3. NumHeads = NumKvHeads * g
  BY <1>1, <1>2, DivBounds DEF kv_group
<1>4. g # 0 /\ NumHeads = g * NumKvHeads
  BY <1>1, <1>2, <1>3
<1>5. ASSUME NEW h \in QHeads PROVE h \div g \in KvHeads
  <2>1. h \in Nat /\ h < g * NumKvHeads
    BY <1>1, <1>4, <1>5 DEF QHeads
  <2>2. PICK k \in Nat : k = h \div g
    BY <1>4, <2>1, DivBounds
  <2>3. g * k <= h
    BY <1>4, <2>1, <2>2, DivBounds
  <2>4. k < NumKvHeads
    <3>1. SUFFICES ASSUME k >= NumKvHeads PROVE FALSE
      BY <1>1, <2>2
    <3>2. g * k >= g * NumKvHeads
      BY <1>1, <1>2, <3>1
    <3>3. g * k \in Int /\ g * NumKvHeads \in Int
      BY <1>1, <1>2, <2>2
    <3> QED
      BY <2>1, <2>3, <3>2, <3>3
  <2> QED
    BY <1>1, <2>2, <2>4 DEF KvHeads
<1> QED
  BY <1>1, <1>2, <1>4, <1>5

LEMMA BatchSize == ASSUME T \in Nat \ {0} PROVE Qn \in Nat \ {0}
  BY Groups DEF Qn

(* Each query of each head has one place in the batch of its KV head. *)
LEMMA QueryPlace ==
  ASSUME T \in Nat \ {0}, NEW k \in KvHeads, NEW h \in QHeads, h \div kv_group = k, NEW t \in Tokens
  PROVE  /\ (h - k * kv_group) * T + t \in 0 .. Qn - 1
         /\ QueryAt(k, (h - k * kv_group) * T + t) = <<h, t>>
<1>1. PICK g \in Nat \ {0} : g = kv_group
  BY Groups
<1>2. h \in Nat /\ k \in Nat /\ t \in 0 .. T - 1
  BY Groups DEF QHeads, KvHeads, Tokens
<1>3. PICK j \in 0 .. g - 1 : h = g * k + j
  <2>1. h % g \in 0 .. g - 1 /\ h = g * (h \div g) + (h % g)
    BY <1>1, <1>2, DivBounds
  <2> QED
    BY <1>1, <2>1
<1>4. g * k = k * g /\ k * g \in Int
  BY <1>1, <1>2
<1>5. h - k * g = j /\ k * g + j = h
  BY <1>2, <1>3, <1>4
<1>6. (j * T + t) \div T = j /\ (j * T + t) % T = t
  <2>1. j \in Int
    BY <1>1
  <2> QED
    BY <1>2, <2>1, DivUnique
<1>7. j * T + t \in 0 .. g * T - 1
  <2>1. (g - 1 - j) * T >= 0 /\ (g - 1 - j) * T = g * T - T - j * T /\ j * T >= 0
    BY <1>1, <1>3
  <2>2. j * T \in Int /\ g * T \in Int
    BY <1>1, <1>3
  <2> QED
    BY <1>2, <2>1, <2>2
<1> QED
  BY <1>1, <1>5, <1>6, <1>7 DEF QueryAt, Qn

-------------------------------------------------------------------------------
(* Which keys an eviction keeps *)

Above(S, x) == {y \in S : y > x}

(* What lies above a member is finite, and less of it lies above a greater one. *)
LEMMA AboveShrinks ==
  ASSUME NEW S, S \subseteq Nat, IsFiniteSet(S), NEW x \in S
  PROVE  /\ IsFiniteSet(Above(S, x)) /\ Cardinality(Above(S, x)) \in Nat
         /\ \A y \in S : y > x => /\ Cardinality(Above(S, y)) < Cardinality(Above(S, x))
                                 /\ Cardinality(Above(S, y)) \in Nat
<1>1. \A z : IsFiniteSet(Above(S, z)) /\ Cardinality(Above(S, z)) \in Nat
  <2>1. \A z : Above(S, z) \subseteq S
    BY DEF Above
  <2> QED
    BY <2>1, FS_Subset, FS_CardinalityType
<1>2. ASSUME NEW y \in S, y > x PROVE Cardinality(Above(S, y)) < Cardinality(Above(S, x))
  <2>1. x \in Nat /\ y \in Nat
    OBVIOUS
  <2>2. Above(S, y) \subseteq Above(S, x) /\ y \in Above(S, x) /\ y \notin Above(S, y)
    <3>1. \A z \in S : z \in Nat
      OBVIOUS
    <3>2. \A z \in S : z > y => z > x
      BY <1>2, <2>1, <3>1
    <3>3. ~ (y > y)
      BY <2>1
    <3> QED
      BY <1>2, <3>2, <3>3 DEF Above
  <2>3. /\ Cardinality(Above(S, y)) <= Cardinality(Above(S, x))
        /\ Cardinality(Above(S, x)) = Cardinality(Above(S, y)) => Above(S, x) = Above(S, y)
    BY <1>1, <2>2, FS_Subset
  <2> QED
    BY <1>1, <2>2, <2>3
<1> QED
  BY <1>1, <1>2

(* One more is the greatest of the members left out so far. *)
LEMMA LatestGrows ==
  ASSUME NEW S, S \subseteq Nat, IsFiniteSet(S), NEW n \in Nat, n < Cardinality(S),
         Cardinality(Latest(S, n)) = n
  PROVE  Cardinality(Latest(S, n + 1)) = n + 1
<1> DEFINE L == Latest(S, n)
           rest == S \ L
           count(x) == Cardinality(Above(S, x))
<1>1. L \subseteq S /\ IsFiniteSet(L) /\ Cardinality(L) = n
  <2>1. L \subseteq S
    BY DEF Latest
  <2> QED
    BY <2>1, FS_Subset
<1>2. \A i : \A x \in S : x \in Latest(S, i) <=> count(x) < i
  BY DEF Latest, Above
<1>3. \A x \in S : count(x) \in Nat
  BY AboveShrinks
<1>4. \A x, y \in S : y > x => count(y) < count(x)
  BY AboveShrinks
<1>5. rest # {} /\ rest \subseteq S
  <2>1. L # S
    BY <1>1
  <2> QED
    BY <1>1, <2>1
<1>6. \A x \in S : x \in L <=> count(x) < n
  BY <1>2
<1> HIDE DEF L, count
<1>7. PICK m \in rest : \A y \in rest : count(m) <= count(y)
  <2> DEFINE Counts == {i \in Nat : \E y \in rest : i = count(y)}
  <2>1. Counts \subseteq Nat /\ Counts # {}
    BY <1>3, <1>5
  <2>2. PICK i \in Counts : \A j \in Counts : i <= j
    <3> HIDE DEF Counts
    <3> QED
      BY <2>1, LeastMember
  <2>3. PICK m \in rest : i = count(m)
    BY <2>2
  <2>4. \A y \in rest : count(y) \in Counts
    BY <1>3, <1>5
  <2> QED
    BY <2>2, <2>3, <2>4
<1>8. m \in S /\ m \in Nat /\ m \notin L
  BY <1>5, <1>7
<1>9. Above(S, m) = L
  <2>1. ASSUME NEW y \in S, y > m PROVE y \in L
    <3>1. count(y) < count(m) /\ count(y) \in Nat /\ count(m) \in Nat
      BY <1>3, <1>4, <1>8, <2>1
    <3> QED
      BY <1>7, <3>1
  <2>2. ASSUME NEW y \in L PROVE y > m
    <3>1. y \in S /\ y \in Nat /\ count(y) < n /\ count(y) \in Nat /\ y # m
      BY <1>1, <1>3, <1>6, <1>8
    <3>2. count(m) \in Nat /\ ~ (count(m) < n)
      BY <1>3, <1>6, <1>8
    <3>3. ~ (m > y)
      BY <1>4, <1>8, <3>1, <3>2
    <3> QED
      BY <1>8, <3>1, <3>3
  <2> QED
    BY <1>1, <2>1, <2>2 DEF Above
<1>10. count(m) = n
  BY <1>1, <1>9 DEF count
<1>11. Latest(S, n + 1) = L \cup {m}
  <2>1. ASSUME NEW x \in S PROVE x \in Latest(S, n + 1) <=> x \in L \cup {m}
    <3>1. x \in Latest(S, n + 1) <=> count(x) < n + 1
      BY <1>2
    <3>2. count(x) \in Nat /\ x \in Nat
      BY <1>3
    <3>3. CASE x \in L
      BY <1>6, <3>1, <3>2, <3>3
    <3>4. CASE x = m
      BY <1>10, <3>1, <3>4
    <3>5. CASE x \notin L /\ x # m
      <4>1. ~ (x > m)
        BY <1>9, <3>5 DEF Above
      <4>2. m > x
        BY <1>8, <3>2, <3>5, <4>1
      <4>3. n < count(x)
        BY <1>4, <1>8, <1>10, <4>2
      <4> QED
        BY <3>1, <3>2, <3>5, <4>3
    <3> QED
      BY <3>3, <3>4, <3>5
  <2>2. Latest(S, n + 1) \subseteq S
    BY DEF Latest
  <2> QED
    BY <1>1, <1>8, <2>1, <2>2
<1> QED
  BY <1>1, <1>8, <1>11, FS_AddElement

(* As many members of a finite set as one asks for are the latest ones. *)
LEMMA LatestSize ==
  ASSUME NEW S, S \subseteq Nat, IsFiniteSet(S), NEW n \in Nat, n <= Cardinality(S)
  PROVE  Latest(S, n) \in AnyOf(S, n)
<1> DEFINE Good == {i \in Nat : Cardinality(Latest(S, i)) = i}
<1>0. Cardinality(S) \in Nat
  BY FS_CardinalityType
<1>1. Cardinality(Latest(S, 0)) = 0
  <2>1. \A x \in S : ~ (Cardinality(Above(S, x)) < 0)
    <3>1. \A x \in S : Cardinality(Above(S, x)) \in Nat
      BY AboveShrinks
    <3> QED
      BY <3>1
  <2>2. Latest(S, 0) = {}
    BY <2>1 DEF Latest, Above
  <2> QED
    BY <2>2, FS_EmptySet
<1>2. ASSUME NEW i \in 1 .. n, i > 1 => i - 1 \in Good PROVE i \in Good
  <2>1. i - 1 \in Nat /\ i - 1 < Cardinality(S) /\ (i - 1) + 1 = i
    BY <1>0
  <2>2. Cardinality(Latest(S, i - 1)) = i - 1
    BY <1>1, <1>2
  <2>3. Cardinality(Latest(S, (i - 1) + 1)) = (i - 1) + 1
    BY <2>1, <2>2, LatestGrows
  <2> QED
    BY <2>1, <2>3
<1>3. 1 .. n \subseteq Good
  <2> HIDE DEF Good
  <2> QED
    BY <1>2, UpTo
<1>4. Cardinality(Latest(S, n)) = n
  BY <1>1, <1>3
<1>5. Latest(S, n) \subseteq S
  BY DEF Latest
<1> QED
  BY <1>4, <1>5 DEF AnyOf

LEMMA KeepBounds ==
  ASSUME NEW s, s.keep \in Nat, NEW n \in Nat \ {0}
  PROVE  keep_n(s, n) \in Nat /\ (s.keep < Den => keep_n(s, n) <= n)
<1>1. Den \in Nat \ {0} /\ s.keep \in Nat
  BY PrefillAssumption
<1>2. PICK m \in Nat : m = s.keep * n
  BY <1>1
<1>3. Round(m, Den) \in Nat /\ (m <= n * Den => Round(m, Den) <= n)
  BY <1>1, <1>2, RoundBounds
<1>4. ASSUME s.keep < Den PROVE m <= n * Den
  <2>1. n * (Den - s.keep) >= 0 /\ n * (Den - s.keep) = n * Den - s.keep * n
    BY <1>1, <1>4
  <2> QED
    BY <1>1, <1>2, <2>1
<1>5. keep_n(s, n) = Most(1, Round(m, Den))
  BY <1>2 DEF keep_n
<1> QED
  BY <1>3, <1>4, <1>5 DEF Most

(* The forced keys, and of the others as many as the share leaves room for. *)
LEMMA KeptShape ==
  ASSUME NEW s, s.keep \in Nat, NEW n \in Nat \ {0}, NEW kept \in Kept(s, n)
  PROVE  /\ kept \subseteq 0 .. n - 1 /\ Forced(s, n) \subseteq kept
         /\ Cardinality(Forced(s, n)) \in 0 .. n
         /\ Cardinality(kept) = Cardinality(Forced(s, n)) +
              Least(Remaining(s, n), n - Cardinality(Forced(s, n)))
<1> DEFINE keys == 0 .. n - 1
           forced == Forced(s, n)
           rest == keys \ forced
           more == Least(Remaining(s, n), Cardinality(rest))
<1>1. /\ IsFiniteSet(keys) /\ Cardinality(keys) = n
  <2>1. 0 \in Int /\ n - 1 \in Int /\ ~ (0 > n - 1) /\ (n - 1) - 0 + 1 = n
    OBVIOUS
  <2>2. IsFiniteSet(0 .. n - 1) /\ Cardinality(0 .. n - 1) = (n - 1) - 0 + 1
    BY <2>1, FS_Interval
  <2> QED
    BY <2>1, <2>2
<1>2. forced \subseteq keys
  BY DEF Forced
<1>3. /\ IsFiniteSet(forced) /\ IsFiniteSet(rest)
      /\ Cardinality(forced) \in Nat /\ Cardinality(rest) \in Nat
      /\ Cardinality(forced) <= n
      /\ Cardinality(rest) = n - Cardinality(forced)
  <2>1. keys \cap forced = forced
    BY <1>2
  <2> HIDE DEF keys, forced
  <2>2. IsFiniteSet(forced) /\ Cardinality(forced) <= n
    BY <1>1, <1>2, FS_Subset
  <2>3. /\ IsFiniteSet(keys \ forced)
        /\ Cardinality(keys \ forced) = Cardinality(keys) - Cardinality(keys \cap forced)
    BY <1>1, FS_Difference
  <2>4. Cardinality(forced) \in Nat /\ Cardinality(keys \ forced) \in Nat
    BY <2>2, <2>3, FS_CardinalityType
  <2> QED
    BY <1>1, <2>1, <2>2, <2>3, <2>4
<1>4. Remaining(s, n) \in Nat
  BY <1>3, KeepBounds DEF Remaining, Most
<1>5. more \in Nat /\ more <= Cardinality(rest)
  BY <1>3, <1>4 DEF Least
<1>6. rest \subseteq Nat
  OBVIOUS
<1>7. PICK U \in AnyOf(rest, more) : kept = forced \cup U
  <2>1. Latest(rest, more) \in AnyOf(rest, more)
    <3> HIDE DEF rest, more
    <3> QED
      BY <1>3, <1>5, <1>6, LatestSize
  <2>2. \E U \in IF s.policy = "recent_only" THEN {Latest(rest, more)} ELSE AnyOf(rest, more) :
          kept = forced \cup U
    BY DEF Kept
  <2> HIDE DEF rest, more, forced
  <2> QED
    BY <2>1, <2>2
<1>8. U \subseteq rest /\ Cardinality(U) = more
  BY <1>7 DEF AnyOf
<1>9. IsFiniteSet(U) /\ forced \cap U = {}
  <2>1. forced \cap U = {}
    BY <1>8
  <2> HIDE DEF rest, forced
  <2> QED
    BY <1>3, <1>8, <2>1, FS_Subset
<1>10. Cardinality(kept) = Cardinality(forced) + more
  <2> HIDE DEF rest, forced, more
  <2>1. Cardinality({}) = 0
    BY FS_EmptySet
  <2>2. Cardinality(forced \cup U) =
          Cardinality(forced) + Cardinality(U) - Cardinality(forced \cap U)
    BY <1>3, <1>9, FS_Union
  <2>3. PICK f \in Nat : f = Cardinality(forced)
    BY <1>3
  <2>4. more \in Nat /\ Cardinality(U) = more /\ Cardinality(forced \cap U) = 0
    BY <1>5, <1>8, <1>9, <2>1
  <2> QED
    BY <1>7, <2>2, <2>3, <2>4
<1>11. more = Least(Remaining(s, n), n - Cardinality(forced))
  BY <1>3
<1>12. kept \subseteq keys /\ forced \subseteq kept
  BY <1>2, <1>7, <1>8
<1>13. Cardinality(forced) \in 0 .. n
  BY <1>3
<1> HIDE DEF more
<1> QED
  BY <1>10, <1>11, <1>12, <1>13

LEMMA WindowType == TypeOK => RecentWindow(cfg, T) \in Int
<1>1. TypeOK => T \in Nat /\ cfg.recent \in Nat \cup {-1} /\ 10 \in Nat \ {0}
  BY DEF TypeOK, Unset
<1>2. TypeOK => T \div 10 \in Nat
  BY <1>1, DivBounds
<1> QED
  BY <1>1, <1>2 DEF RecentWindow, Most

(* The weights an eviction leaves. *)
Evicted(kept) == [i \in Tokens |-> IF kept = Tokens THEN 0 .. i ELSE Visible(i, kept)]

LastSeesKept(seen, kept) == seen[T - 1] = kept /\ kept \subseteq Tokens

SeesKept(seen) ==
  \A i \in Tokens :
    /\ seen[i] # {}
    /\ \/ seen[i] = seen[T - 1] \cap (0 .. i)
       \/ /\ seen[T - 1] \cap (0 .. i) = {}
          /\ seen[i] \subseteq seen[T - 1]
          /\ FirstQuery(i)

(* No key up to query i is kept: the share, which fits behind it, is.       *)
LEMMA LosersComeFirst ==
  ASSUME TypeOK, 0 < cfg.keep, cfg.keep < Den, NEW kept \in Kept(cfg, T),
         NEW i \in Tokens, kept \cap (0 .. i) = {}
  PROVE  FirstQuery(i)
<1>1. /\ cfg.keep \in Nat /\ cfg.sink \in Nat
      /\ T \in Nat \ {0} /\ Tokens = 0 .. T - 1
  BY DEF TypeOK, Tokens
<1>2. /\ kept \subseteq 0 .. T - 1 /\ Forced(cfg, T) \subseteq kept
      /\ Cardinality(Forced(cfg, T)) \in 0 .. T
      /\ Cardinality(kept) = Cardinality(Forced(cfg, T)) +
           Least(Remaining(cfg, T), T - Cardinality(Forced(cfg, T)))
  BY <1>1, KeptShape
<1>3. i \in Int /\ 0 <= i /\ i <= T - 1 /\ i \in 0 .. i
  BY <1>1
<1>4. i \notin Forced(cfg, T) /\ 0 \notin Forced(cfg, T)
  BY <1>2, <1>3
<1>5. cfg.sink = 0
  <2>1. ~ (0 < cfg.sink)
    BY <1>1, <1>4 DEF Forced
  <2> QED
    BY <1>1, <2>1
<1>6. i + RecentWindow(cfg, T) < T
  <2>1. PICK w \in Int : w = RecentWindow(cfg, T)
    BY WindowType
  <2>2. ~ (i >= T - w)
    BY <1>1, <1>3, <1>4, <2>1 DEF Forced
  <2> QED
    BY <1>1, <1>3, <2>1, <2>2
<1>7. i + keep_n(cfg, T) < T
  <2>1. PICK n \in Nat : n = keep_n(cfg, T) /\ n <= T
    BY <1>1, KeepBounds
  <2>2. PICK f \in 0 .. T : f = Cardinality(Forced(cfg, T))
    BY <1>2
  <2>3. Cardinality(kept) \in Nat /\ Cardinality(kept) >= n
    BY <1>1, <1>2, <2>1, <2>2 DEF Remaining, Least, Most
  <2>4. kept \subseteq (i + 1) .. (T - 1)
    BY <1>1, <1>2, <1>3
  <2>5. Cardinality(kept) <= (T - 1) - i
    <3>1. /\ IsFiniteSet((i + 1) .. (T - 1))
          /\ Cardinality((i + 1) .. (T - 1)) = (T - 1) - i
      <4>1. i + 1 \in Int /\ T - 1 \in Int
        BY <1>1, <1>3
      <4>2. /\ IsFiniteSet((i + 1) .. (T - 1))
            /\ Cardinality((i + 1) .. (T - 1)) =
                 IF i + 1 > T - 1 THEN 0 ELSE (T - 1) - (i + 1) + 1
        BY <4>1, FS_Interval
      <4> QED
        BY <1>1, <1>3, <4>2
    <3> QED
      BY <2>4, <3>1, FS_Subset
  <2> QED
    BY <1>1, <1>3, <2>1, <2>3, <2>5
<1> QED
  BY <1>5, <1>6, <1>7 DEF FirstQuery

(* The last query attends to what is kept, every query to what is kept up   *)
(* to its own key, unless that is nothing.                                  *)
LEMMA EvictedAttention ==
  ASSUME TypeOK, 0 < cfg.keep, cfg.keep < Den, NEW kept \in Kept(cfg, T)
  PROVE  LastSeesKept(Evicted(kept), kept) /\ SeesKept(Evicted(kept))
<1> DEFINE seen == Evicted(kept)
<1>1. T \in Nat \ {0} /\ Tokens = 0 .. T - 1 /\ cfg.keep \in Nat
  BY DEF TypeOK, Tokens
<1>2. kept \subseteq 0 .. T - 1
  BY <1>1, KeptShape
<1>3. T - 1 \in Tokens
  BY <1>1
<1>4. seen[T - 1] = kept
  <2>1. CASE kept = Tokens
    BY <1>1, <1>3, <2>1 DEF Evicted
  <2>2. CASE kept # Tokens
    <3>1. seen[T - 1] = Visible(T - 1, kept) /\ (0 .. T - 1) \cap kept = kept
      BY <1>2, <1>3, <2>2 DEF Evicted
    <3> QED
      BY <3>1 DEF Visible
  <2> QED
    BY <2>1, <2>2
<1>5. ASSUME NEW i \in Tokens
      PROVE  /\ seen[i] # {}
             /\ \/ seen[i] = kept \cap (0 .. i)
                \/ kept \cap (0 .. i) = {} /\ seen[i] \subseteq kept /\ FirstQuery(i)
  <2>1. CASE kept = Tokens
    <3>1. seen[i] = 0 .. i /\ i \in 0 .. i /\ 0 .. i \subseteq Tokens
      BY <1>1, <2>1 DEF Evicted
    <3> QED
      BY <2>1, <3>1
  <2>2. CASE kept # Tokens /\ kept \cap (0 .. i) # {}
    <3>1. seen[i] = kept \cap (0 .. i)
      BY <2>2 DEF Evicted, Visible
    <3> QED
      BY <2>2, <3>1
  <2>3. CASE kept # Tokens /\ kept \cap (0 .. i) = {}
    <3>1. seen[i] = kept
      BY <2>3 DEF Evicted, Visible
    <3>2. FirstQuery(i)
      BY <2>3, LosersComeFirst
    <3>3. kept # {}
      <4>1. PICK n \in Nat : n = keep_n(cfg, T)
        BY <1>1, KeepBounds
      <4>2. n >= 1
        BY <4>1 DEF keep_n, Most
      <4>3. PICK f \in 0 .. T : f = Cardinality(Forced(cfg, T))
        BY <1>1, KeptShape
      <4>4. Cardinality(kept) = f + Least(Remaining(cfg, T), T - f)
        BY <1>1, <4>3, KeptShape
      <4>5. Cardinality(kept) >= 1 /\ Cardinality(kept) \in Nat
        BY <1>1, <4>1, <4>2, <4>3, <4>4 DEF Remaining, Least, Most
      <4> QED
        BY <4>5, FS_EmptySet
    <3> QED
      BY <2>3, <3>1, <3>2, <3>3
  <2> QED
    BY <2>1, <2>2, <2>3
<1> HIDE DEF seen
<1> QED
  BY <1>2, <1>1, <1>4, <1>5 DEF LastSeesKept, SeesKept, seen

-------------------------------------------------------------------------------
(* The invariant holds *)

(* Uniform pages have the base they would have without an override. *)
LEMMA UniformBase ==
  ASSUME cfg.quantizer \notin SideBuffered, NEW h
  PROVE  Written(cfg, h) = <<"uniform">>
  BY DEF Written, Quantized

LEMMA SameBase ==
  ASSUME UNCHANGED <<cfg, override, stored, residuals>>
  PROVE  \A h : WroteHead(h)' = WroteHead(h)
  BY DEF WroteHead, Written

LEMMA SameFirst == ASSUME UNCHANGED <<cfg, T>> PROVE \A i : FirstQuery(i)' = FirstQuery(i)
  BY DEF FirstQuery, RecentWindow, keep_n

LEMMA SameDue == ASSUME UNCHANGED cfg PROVE \A h, t : Due(h, t)' = Due(h, t)
  BY DEF Due, topk

LEMMA InitInv == Init => PrefillInv
<1> SUFFICES ASSUME Init PROVE PrefillInv
  OBVIOUS
<1>1. {cfg.keep, cfg.sink, cfg.chunk} \subseteq Nat /\ cfg.recent \in Nat \cup {Unset}
  <2>1. PICK s \in Settings : cfg = [s EXCEPT !.mode = _resolve_prefill_mode(s.mode)]
    BY DEF Init
  <2>2. s \in SettingShape
    BY PrefillAssumption
  <2> QED
    BY <2>1, <2>2 DEF SettingShape
<1>2. T \in Nat \ {0}
  BY PrefillAssumption DEF Init
<1>3. TypeOK
  BY <1>1, <1>2, Zenon DEF Init, TypeOK, Qn
<1>4. BaseInv
  BY Groups DEF Init, BaseInv
<1>5. AttentionInv
  BY DEF Init, AttentionInv, CausalUnlessAllEvicted
<1>6. LoopInv
  BY DEF Init, LoopInv, Untouched
<1> QED
  BY <1>3, <1>4, <1>5, <1>6 DEF PrefillInv

LEMMA WriteHeadStep == PrefillInv /\ WriteHead => PrefillInv'
<1> SUFFICES ASSUME PrefillInv, WriteHead PROVE PrefillInv'
  OBVIOUS
<1>1. /\ pc = "write" /\ head \in Nat /\ head < NumKvHeads
      /\ UNCHANGED <<cfg, T, c0, override, base, attended, delta, out>>
      /\ \/ head = NumKvHeads - 1 /\ pc' = "attend" /\ head' = 0
         \/ head # NumKvHeads - 1 /\ head' = head + 1 /\ pc' = "write"
  BY DEF WriteHead, PrefillInv, TypeOK, BaseInv
<1>2. /\ stored' = [stored EXCEPT ![head] = Written(cfg, head)]
      /\ residuals' = [residuals EXCEPT ![head] = Written(cfg, head)]
  BY UniformBase DEF WriteHead
<1>3. TypeOK'
  <2>1. head' \in Nat /\ pc' \in {"write", "attend"}
    BY <1>1
  <2> QED
    BY <1>1, <1>2, <2>1 DEF PrefillInv, TypeOK, Qn
<1>4. BaseInv'
  <2>1. \A h \in 0 .. head : stored'[h] = Written(cfg, h) /\ residuals'[h] = Written(cfg, h)
    <3>1. \A h \in 0 .. head - 1 : WroteHead(h)
      BY <1>1 DEF PrefillInv, BaseInv
    <3>2. \A h \in 0 .. head : h \in DOMAIN stored /\ h \in DOMAIN residuals /\ (h # head => h \in 0 .. head - 1)
      BY <1>1, Groups DEF PrefillInv, TypeOK, KvHeads
    <3> QED
      BY <1>2, <3>1, <3>2 DEF WroteHead
  <2>2. \A h \in 0 .. head : WroteHead(h)'
    BY <1>1, <2>1 DEF WroteHead, Written
  <2>3. CASE head = NumKvHeads - 1
    <3>1. KvHeads = 0 .. head /\ pc' = "attend"
      BY <1>1, <2>3 DEF KvHeads
    <3> QED
      BY <2>2, <3>1 DEF BaseInv
  <2>4. CASE head # NumKvHeads - 1
    <3>1. 0 .. head' - 1 = 0 .. head /\ head' < NumKvHeads /\ pc' = "write"
      BY <1>1, <2>4, Groups
    <3> QED
      BY <2>2, <3>1 DEF BaseInv
  <2> QED
    BY <2>3, <2>4
<1>5. AttentionInv'
  BY <1>1 DEF AttentionInv, CausalUnlessAllEvicted
<1>6. LoopInv'
  <2>1. Untouched(QHeads)'
    BY <1>1 DEF PrefillInv, LoopInv, Untouched, Tokens
  <2>2. c0' = 0 /\ (pc' = "attend" => head' = 0) /\ pc' \in {"write", "attend"}
    BY <1>1 DEF PrefillInv, LoopInv
  <2> QED
    BY <2>1, <2>2 DEF LoopInv
<1> QED
  BY <1>3, <1>4, <1>5, <1>6 DEF PrefillInv

LEMMA WriteRaisesStep == PrefillInv /\ WriteRaises => PrefillInv'
<1> SUFFICES ASSUME PrefillInv, WriteRaises PROVE PrefillInv'
  OBVIOUS
<1>1. /\ pc' = "raised"
      /\ UNCHANGED <<cfg, T, head, c0, override, stored, residuals, base, attended, delta, out>>
  BY DEF WriteRaises
<1>2. TypeOK'
  BY <1>1 DEF PrefillInv, TypeOK, Qn
<1> QED
  BY <1>1, <1>2 DEF PrefillInv, BaseInv, AttentionInv, CausalUnlessAllEvicted, LoopInv

LEMMA AttendStep == PrefillInv /\ Attend => PrefillInv'
<1> SUFFICES ASSUME PrefillInv, Attend PROVE PrefillInv'
  OBVIOUS
<1>1. /\ pc = "attend" /\ (cfg.mode = "fp" => pc' = "done") /\ (cfg.mode # "fp" => pc' = "evict")
      /\ UNCHANGED <<cfg, T, head, c0, override, stored, residuals, delta, out>>
      /\ base' = [q \in QHeads |-> Attended(cfg, q \div kv_group)]
      /\ attended' = _causal_attention_pure(T)
  BY DEF Attend
<1>2. TypeOK'
  BY <1>1 DEF PrefillInv, TypeOK, Qn
<1>3. BaseInv'
  <2>1. \A h \in KvHeads : WroteHead(h)'
    BY <1>1, SameBase DEF PrefillInv, BaseInv
  <2>2. \A h : Attended(cfg, h)' = Attended(cfg, h)
    BY <1>1 DEF Attended, _lowrank_correct_eval, Written
  <2>3. \A q \in QHeads : base'[q] = Attended(cfg, q \div kv_group)'
    BY <1>1, <2>2
  <2> QED
    BY <1>1, <2>1, <2>3 DEF BaseInv
<1>4. AttentionInv'
  <2>1. T \in Nat \ {0} /\ T' = T /\ \A i \in 0 .. T - 1 : attended'[i] = 0 .. i
    BY <1>1 DEF PrefillInv, TypeOK, _causal_attention_pure
  <2>2. \A i \in Tokens' : attended'[i] # {} /\ attended'[i] = KeptUpTo(i)'
    <3>1. \A i \in 0 .. T - 1 : 0 \in 0 .. i /\ 0 .. i = (0 .. T - 1) \cap (0 .. i)
      BY <2>1
    <3>2. Tokens' = 0 .. T - 1 /\ attended'[T' - 1] = 0 .. T - 1
      BY <2>1 DEF Tokens
    <3> QED
      BY <2>1, <3>1, <3>2 DEF KeptUpTo
  <2>3. CausalUnlessAllEvicted'
    BY <2>2 DEF CausalUnlessAllEvicted
  <2> QED
    BY <1>1, <2>3 DEF AttentionInv
<1>5. LoopInv'
  <2>1. Untouched(QHeads)' /\ c0' = 0 /\ head' = 0
    BY <1>1 DEF PrefillInv, LoopInv, Untouched, Tokens
  <2>2. ASSUME cfg.mode = "fp" PROVE Corrected(QHeads)'
    <3>1. \A h, t : Due(h, t)' = None
      BY <1>1, <2>2 DEF Due
    <3> QED
      BY <2>1, <3>1 DEF Untouched, Corrected
  <2> QED
    BY <1>1, <2>1, <2>2 DEF LoopInv
<1> QED
  BY <1>2, <1>3, <1>4, <1>5 DEF PrefillInv

LEMMA EvictStep == PrefillInv /\ Evict => PrefillInv'
<1> SUFFICES ASSUME PrefillInv, Evict PROVE PrefillInv'
  OBVIOUS
<1>1. /\ pc = "evict" /\ pc' = AfterBase(cfg)
      /\ UNCHANGED <<cfg, T, head, c0, override, stored, residuals, base, delta, out>>
  BY DEF Evict
<1>2. /\ pc' \in {"done", "correct", "raised"}
      /\ pc' = "done" => \/ cfg.mode = "base_quant"
                         \/ cfg.mode = "carekv_stored" /\ ~ cfg.any_read_budget
      /\ pc' = "correct" => \/ cfg.mode = "carekv_eval"
                            \/ cfg.mode = "carekv_stored" /\ cfg.any_read_budget
  <2> HIDE <1>1
  <2>1. CASE cfg.mode = "base_quant" \/ (cfg.mode = "carekv_stored" /\ ~ cfg.any_read_budget)
    <3>1. AfterBase(cfg) = "done"
      BY <2>1, Zenon DEF AfterBase
    <3> QED
      BY <1>1, <2>1, <3>1
  <2>2. CASE cfg.mode = "carekv_eval" \/ (cfg.mode = "carekv_stored" /\ cfg.any_read_budget)
    <3>1. AfterBase(cfg) = "correct"
      BY <2>2 DEF AfterBase
    <3> QED
      BY <1>1, <2>2, <3>1
  <2>3. CASE /\ ~ (cfg.mode = "base_quant" \/ (cfg.mode = "carekv_stored" /\ ~ cfg.any_read_budget))
             /\ ~ (cfg.mode = "carekv_eval" \/ (cfg.mode = "carekv_stored" /\ cfg.any_read_budget))
    <3>1. AfterBase(cfg) = "raised"
      BY <2>3 DEF AfterBase
    <3> QED
      BY <1>1, <3>1
  <2> QED
    BY <2>1, <2>2, <2>3
<1>3. TypeOK'
  BY <1>1, <1>2 DEF PrefillInv, TypeOK, Qn
<1>4. BaseInv'
  <2>1. \A h \in KvHeads : WroteHead(h)'
    BY <1>1, SameBase DEF PrefillInv, BaseInv
  <2>2. \A q \in QHeads : (base[q] = Attended(cfg, q \div kv_group))'
    BY <1>1 DEF PrefillInv, BaseInv, Attended, _lowrank_correct_eval, Written
  <2> QED
    BY <1>2, <2>1, <2>2 DEF BaseInv
<1>5. AttentionInv'
  <2>1. attended = _causal_attention_pure(T) /\ TypeOK /\ T \in Nat
    BY <1>1 DEF PrefillInv, AttentionInv, TypeOK
  <2>2. Tokens = 0 .. T - 1 /\ \A i \in Tokens : attended[i] = 0 .. i
    BY <2>1 DEF Tokens, _causal_attention_pure
  <2>3. CASE 0 < cfg.keep /\ cfg.keep < Den
    <3>1. PICK kept \in Kept(cfg, T) :
            attended' = [i \in Tokens |-> IF kept = Tokens THEN attended[i] ELSE Visible(i, kept)]
      BY <2>3 DEF Evict
    <3>2. attended' = Evicted(kept)
      <4>1. [i \in Tokens |-> IF kept = Tokens THEN attended[i] ELSE Visible(i, kept)]
              = [i \in Tokens |-> IF kept = Tokens THEN 0 .. i ELSE Visible(i, kept)]
        BY <2>2
      <4> QED
        BY <3>1, <4>1 DEF Evicted
    <3>3. LastSeesKept(attended', kept) /\ SeesKept(attended')
      BY <2>1, <2>3, <3>2, EvictedAttention
    <3>4. KeepsItsShare' /\ CausalUnlessAllEvicted'
      <4>1. cfg' = cfg /\ T' = T
        BY <1>1
      <4>2. Kept(cfg, T)' = Kept(cfg, T) /\ Tokens' = Tokens
        BY <4>1 DEF Kept, Forced, Remaining, RecentWindow, keep_n, Tokens
      <4>3. KeepsItsShare'
        BY <3>3, <4>1, <4>2 DEF LastSeesKept, KeepsItsShare
      <4>4. CausalUnlessAllEvicted'
        BY <3>3, <4>1, <4>2, SameFirst DEF SeesKept, CausalUnlessAllEvicted, KeptUpTo
      <4> QED
        BY <4>3, <4>4
    <3> QED
      BY <1>2, <3>4 DEF AttentionInv
  <2>4. CASE ~ (0 < cfg.keep /\ cfg.keep < Den)
    <3>1. attended' = attended
      BY <2>4 DEF Evict
    <3>2. \A i \in 0 .. T - 1 : 0 \in 0 .. i /\ 0 .. i = (0 .. T - 1) \cap (0 .. i)
      BY <2>1
    <3>3. \A i \in Tokens : attended[i] # {} /\ attended[i] = KeptUpTo(i)
      <4>1. T - 1 \in Tokens
        BY <1>1, <2>2 DEF PrefillInv, TypeOK
      <4> QED
        BY <2>2, <3>2, <4>1 DEF KeptUpTo
    <3>4. CausalUnlessAllEvicted'
      BY <1>1, <3>1, <3>3 DEF CausalUnlessAllEvicted, KeptUpTo, Tokens
    <3> QED
      BY <1>1, <1>2, <2>4, <3>4 DEF AttentionInv
  <2> QED
    BY <2>3, <2>4
<1>6. LoopInv'
  <2>1. Untouched(QHeads)' /\ c0' = 0 /\ head' = 0
    BY <1>1 DEF PrefillInv, LoopInv, Untouched, Tokens
  <2>2. ASSUME pc' = "done" PROVE Corrected(QHeads)'
    <3>1. \A h, t : Due(h, t)' = None
      BY <1>1, <1>2, <2>2 DEF Due
    <3> QED
      BY <2>1, <3>1 DEF Untouched, Corrected
  <2>3. {h \in QHeads : Finished(h)}' = {}
    <3>1. \A h \in QHeads : h >= 0 /\ h \in Int /\ h \div kv_group >= 0 /\ h \div kv_group \in Int
      BY Groups DEF QHeads, KvHeads
    <3>2. \A h \in QHeads : ~ Finished(h)'
      BY <1>1, <2>1, <3>1 DEF Finished
    <3> QED
      BY <3>2
  <2>4. Corrected({h \in QHeads : Finished(h)})'
    BY <2>3 DEF Corrected
  <2>5. c0' < Qn' /\ 0 .. c0' - 1 = {}
    <3>1. Qn' = Qn /\ Qn \in Nat \ {0}
      BY <1>1, BatchSize DEF PrefillInv, TypeOK, Qn
    <3> QED
      BY <2>1, <3>1
  <2>6. head' < IF Batched(cfg)' THEN NumKvHeads ELSE NumHeads
    BY <2>1, Groups
  <2> QED
    BY <1>1, <1>2, <2>2, <2>4, <2>5, <2>6 DEF LoopInv
<1> QED
  BY <1>3, <1>4, <1>5, <1>6 DEF PrefillInv

(* The corrections touch neither the bases nor the weights. *)
LEMMA CorrectionsOnly ==
  ASSUME PrefillInv, pc = "correct", pc' \in {"correct", "done"},
         UNCHANGED <<cfg, T, override, stored, residuals, base, attended>>
  PROVE  BaseInv' /\ AttentionInv'
<1>1. \A h \in KvHeads : WroteHead(h)'
  BY SameBase DEF PrefillInv, BaseInv
<1>2. \A q \in QHeads : (base[q] = Attended(cfg, q \div kv_group))'
  BY DEF PrefillInv, BaseInv, Attended, _lowrank_correct_eval, Written
<1>3. KeepsItsShare => KeepsItsShare'
  BY DEF KeepsItsShare, Tokens
<1>4. AttentionInv'
  BY <1>3, SameFirst DEF PrefillInv, AttentionInv, CausalUnlessAllEvicted, KeptUpTo, Tokens
<1> QED
  BY <1>1, <1>2, <1>4 DEF BaseInv

(* A head is done, and the loop over n heads goes on. *)
LEMMA NextHeadMoves ==
  ASSUME NEW n \in Nat, head \in Nat, head < n, pc = "correct", NextHead(n)
  PROVE  /\ head' \in Nat
         /\ \/ head = n - 1 /\ pc' = "done"
            \/ head # n - 1 /\ pc' = "correct" /\ head' = head + 1 /\ head' < n
  BY DEF NextHead

(* Slot by slot, and over the residuals in memory: one head more. *)
LEMMA HeadCorrected ==
  ASSUME PrefillInv, pc = "correct", ~ Batched(cfg), NextHead(NumHeads),
         out' = [out EXCEPT ![head] = [t \in Tokens |-> Due(head, t)]],
         UNCHANGED <<cfg, T, c0, override, stored, residuals, base, attended, delta>>
  PROVE  PrefillInv'
<1>1. head \in Nat /\ head < NumHeads /\ head \in QHeads
  BY Groups DEF PrefillInv, TypeOK, LoopInv, QHeads
<1>2. /\ head' \in Nat
      /\ \/ head = NumHeads - 1 /\ pc' = "done"
         \/ head # NumHeads - 1 /\ pc' = "correct" /\ head' = head + 1 /\ head' < NumHeads
  BY <1>1, Groups, NextHeadMoves
<1>3. TypeOK'
  BY <1>1, <1>2 DEF PrefillInv, TypeOK, Qn
<1>4. BaseInv' /\ AttentionInv'
  BY <1>2, CorrectionsOnly
<1>5. \A h \in QHeads : h <= head => \A t \in Tokens : out'[h][t] = Due(h, t)
  <2>1. \A h \in QHeads : h < head => \A t \in Tokens : out[h][t] = Due(h, t)
    BY DEF PrefillInv, LoopInv, Corrected, Finished
  <2>2. \A h \in QHeads : h \in Int /\ h \in DOMAIN out
    BY DEF PrefillInv, TypeOK, QHeads
  <2> QED
    BY <1>1, <2>1, <2>2
<1>6. \A h \in QHeads : h <= head => \A t \in Tokens' : out'[h][t] = Due(h, t)'
  BY <1>5, SameDue DEF Tokens
<1>7. LoopInv'
  <2>1. CASE head = NumHeads - 1
    <3>1. \A h \in QHeads : h <= head
      BY <2>1, Groups DEF QHeads
    <3>2. Corrected(QHeads)'
      BY <1>6, <3>1 DEF Corrected
    <3> QED
      BY <1>2, <2>1, <3>2 DEF LoopInv
  <2>2. CASE head # NumHeads - 1
    <3>1. pc' = "correct" /\ head' = head + 1 /\ head' < NumHeads /\ ~ Batched(cfg)'
      BY <1>2, <2>2 DEF Batched
    <3>2. \A h \in QHeads : Finished(h)' => h <= head
      BY <1>1, <3>1 DEF Finished, QHeads
    <3>3. Corrected({h \in QHeads : Finished(h)})'
      BY <1>6, <3>2 DEF Corrected
    <3>4. cfg'.mode = "carekv_eval" \/ (cfg'.mode = "carekv_stored" /\ cfg'.any_read_budget)
      BY DEF PrefillInv, LoopInv
    <3> QED
      BY <3>1, <3>3, <3>4 DEF LoopInv
  <2> QED
    BY <2>1, <2>2
<1> QED
  BY <1>3, <1>4, <1>7 DEF PrefillInv

LEMMA CorrectHeadStep == PrefillInv /\ CorrectHead => PrefillInv'
<1> SUFFICES ASSUME PrefillInv, CorrectHead PROVE PrefillInv'
  OBVIOUS
<1>1. /\ pc = "correct" /\ cfg.mode = "carekv_stored" /\ ~ Batched(cfg) /\ NextHead(NumHeads)
      /\ UNCHANGED <<cfg, T, c0, override, stored, residuals, base, attended, delta>>
  BY DEF CorrectHead
<1>2. \A t : Due(head, t) = <<head, t>>
  BY <1>1 DEF PrefillInv, LoopInv, Due
<1>3. out' = [out EXCEPT ![head] = [t \in Tokens |-> Due(head, t)]]
  BY <1>2 DEF CorrectHead
<1> QED
  BY <1>1, <1>3, HeadCorrected

LEMMA CorrectEvalStep == PrefillInv /\ CorrectEval => PrefillInv'
<1> SUFFICES ASSUME PrefillInv, CorrectEval PROVE PrefillInv'
  OBVIOUS
<1>1. /\ pc = "correct" /\ cfg.mode = "carekv_eval" /\ ~ Batched(cfg) /\ NextHead(NumHeads)
      /\ UNCHANGED <<cfg, T, c0, override, stored, residuals, base, attended, delta>>
  BY DEF CorrectEval, Batched
<1>2. \A t : Due(head, t) = IF topk(cfg, t + 1) > 0 THEN <<head, t>> ELSE None
  BY <1>1 DEF Due
<1>3. out' = [out EXCEPT ![head] = [t \in Tokens |-> Due(head, t)]]
  BY <1>2 DEF CorrectEval
<1> QED
  BY <1>1, <1>3, HeadCorrected

(* The batch: one chunk more, and after the last chunk of a KV head every   *)
(* query head of its group.                                                *)
LEMMA ChunkStep == PrefillInv /\ CorrectChunk => PrefillInv'
<1> SUFFICES ASSUME PrefillInv, CorrectChunk PROVE PrefillInv'
  OBVIOUS
<1> DEFINE filled == [q \in DOMAIN delta |-> IF c0 <= q /\ q < ChunkEnd(c0)
                                             THEN QueryAt(head, q) ELSE delta[q]]
           last == c0 + Most(1, cfg.chunk) >= Qn \/ cfg.chunk = 0
           group == {h \in QHeads : h \div kv_group = head}
<1>1. /\ pc = "correct" /\ Batched(cfg) /\ cfg.mode = "carekv_stored" /\ cfg.any_read_budget
      /\ UNCHANGED <<cfg, T, override, stored, residuals, base, attended>>
  BY DEF CorrectChunk, Batched, PrefillInv, LoopInv
<1>2. /\ T \in Nat \ {0} /\ Qn \in Nat \ {0} /\ cfg.chunk \in Nat /\ c0 \in Nat
      /\ DOMAIN delta = 0 .. Qn - 1 /\ DOMAIN out = QHeads
  BY BatchSize DEF PrefillInv, TypeOK
<1>3. /\ head \in Nat /\ head < NumKvHeads /\ head \in KvHeads /\ c0 < Qn
      /\ \A q \in 0 .. c0 - 1 : delta[q] = QueryAt(head, q)
      /\ \A h \in QHeads : h \div kv_group < head => \A t \in Tokens : out[h][t] = Due(h, t)
  BY <1>1, Groups DEF PrefillInv, TypeOK, LoopInv, KvHeads, Corrected, Finished
<1>4. \A h, t : Due(h, t) = <<h, t>> /\ Due(h, t)' = <<h, t>>
  BY <1>1 DEF Due
<1>5. Qn' = Qn /\ Tokens' = Tokens
  BY <1>1 DEF Qn, Tokens
<1>6. CASE ~ last
  <2>1. delta' = filled /\ c0' = c0 + cfg.chunk /\ UNCHANGED <<out, head, pc>>
    BY <1>6 DEF CorrectChunk
  <2>2. /\ c0' \in Nat /\ c0' < Qn /\ ChunkEnd(c0) = c0'
    BY <1>2, <1>3, <1>6, <2>1 DEF ChunkEnd, Most, Least
  <2>3. \A q \in 0 .. c0' - 1 : delta'[q] = QueryAt(head, q)
    BY <1>2, <1>3, <2>1, <2>2
  <2>4. \A q : QueryAt(head, q)' = QueryAt(head, q)
    BY <1>1, <2>1 DEF QueryAt
  <2>5. TypeOK'
    BY <1>1, <1>5, <2>1, <2>2 DEF PrefillInv, TypeOK
  <2>6. BaseInv' /\ AttentionInv'
    BY <1>1, <2>1, CorrectionsOnly
  <2>7. Corrected({h \in QHeads : Finished(h)})'
    BY <1>1, <1>3, <1>4, <1>5, <2>1 DEF Corrected, Finished, Batched
  <2>8. LoopInv'
    <3>1. \A q \in 0 .. c0' - 1 : delta'[q] = QueryAt(head, q)'
      BY <2>3, <2>4
    <3>2. pc' = "correct" /\ head' < NumKvHeads /\ Batched(cfg)' /\ c0' < Qn'
      BY <1>1, <1>3, <1>5, <2>1, <2>2 DEF Batched
    <3> QED
      BY <1>1, <2>1, <2>7, <3>1, <3>2 DEF LoopInv
  <2> QED
    BY <2>5, <2>6, <2>8 DEF PrefillInv
<1>7. CASE last
  <2>1. /\ out' = [h \in QHeads |-> IF h \in group
                                   THEN [t \in Tokens |-> filled[(h - head * kv_group) * T + t]]
                                   ELSE out[h]]
        /\ delta' = [q \in DOMAIN delta |-> None] /\ c0' = 0
        /\ NextHead(NumKvHeads)
    BY <1>7 DEF CorrectChunk
  <2>2. ChunkEnd(c0) = Qn
    BY <1>2, <1>3, <1>7 DEF ChunkEnd, Most, Least
  <2>3. \A q \in 0 .. Qn - 1 : filled[q] = QueryAt(head, q)
    BY <1>2, <1>3, <2>2
  <2>4. ASSUME NEW h \in QHeads, h \div kv_group <= head, NEW t \in Tokens
        PROVE  out'[h][t] = <<h, t>>
    <3>1. CASE h \div kv_group = head
      <4>1. out'[h][t] = filled[(h - head * kv_group) * T + t]
        BY <2>1, <3>1
      <4> HIDE DEF filled
      <4> QED
        BY <1>2, <1>3, <2>3, <3>1, <4>1, QueryPlace
    <3>2. CASE h \div kv_group # head
      <4>1. h \div kv_group < head
        BY <1>3, <2>4, <3>2, Groups DEF KvHeads
      <4> QED
        BY <1>3, <1>4, <2>1, <3>2, <4>1
    <3> QED
      BY <3>1, <3>2
  <2> HIDE DEF filled, last, group
  <2>5. /\ head' \in Nat
        /\ \/ head = NumKvHeads - 1 /\ pc' = "done"
           \/ head # NumKvHeads - 1 /\ pc' = "correct" /\ head' = head + 1 /\ head' < NumKvHeads
    BY <1>1, <1>3, <2>1, Groups, NextHeadMoves
  <2>6. TypeOK'
    <3>1. DOMAIN out' = QHeads /\ DOMAIN delta' = 0 .. Qn - 1
      BY <1>2, <2>1
    <3> QED
      BY <1>1, <1>2, <1>5, <2>1, <2>5, <3>1 DEF PrefillInv, TypeOK
  <2>7. BaseInv' /\ AttentionInv'
    BY <1>1, <2>5, CorrectionsOnly
  <2>8. LoopInv'
    <3>1. CASE head = NumKvHeads - 1
      <4>1. \A h \in QHeads : h \div kv_group <= head
        BY <3>1, Groups DEF KvHeads
      <4>2. Corrected(QHeads)'
        BY <1>4, <1>5, <2>4, <4>1 DEF Corrected
      <4> QED
        BY <2>5, <3>1, <4>2 DEF LoopInv
    <3>2. CASE head # NumKvHeads - 1
      <4>1. pc' = "correct" /\ head' = head + 1 /\ head' < NumKvHeads /\ Batched(cfg)'
        BY <1>1, <2>5, <3>2 DEF Batched
      <4>2. \A h \in QHeads : Finished(h)' => h \div kv_group <= head
        <5>1. \A h \in QHeads : h \div kv_group \in Int
          BY Groups DEF KvHeads
        <5> QED
          BY <1>3, <4>1, <5>1 DEF Finished
      <4>3. Corrected({h \in QHeads : Finished(h)})'
        BY <1>4, <1>5, <2>4, <4>2 DEF Corrected
      <4>4. c0' < Qn' /\ 0 .. c0' - 1 = {}
        BY <1>2, <1>5, <2>1
      <4> QED
        BY <1>1, <4>1, <4>3, <4>4 DEF LoopInv
    <3> QED
      BY <3>1, <3>2
  <2> QED
    BY <2>6, <2>7, <2>8 DEF PrefillInv
<1> QED
  BY <1>6, <1>7

LEMMA PrefillInvStep == PrefillInv /\ [Next]_vars => PrefillInv'
<1> SUFFICES ASSUME PrefillInv, [Next]_vars PROVE PrefillInv'
  OBVIOUS
<1>1. CASE UNCHANGED vars
  <2>1. /\ UNCHANGED <<cfg, T, pc, head, c0, override, stored, residuals, base, attended>>
        /\ UNCHANGED <<delta, out>>
    BY <1>1 DEF vars
  <2>2. TypeOK'
    BY <2>1 DEF PrefillInv, TypeOK, Qn
  <2>3. BaseInv'
    BY <2>1 DEF PrefillInv, BaseInv, WroteHead, Attended, _lowrank_correct_eval, Written
  <2>4. AttentionInv'
    BY <2>1, SameFirst DEF PrefillInv, AttentionInv, CausalUnlessAllEvicted, KeptUpTo,
       KeepsItsShare, Tokens
  <2>5. LoopInv'
    BY <2>1 DEF PrefillInv, LoopInv, Corrected, Untouched, Finished, Due, Tokens, Qn, QueryAt
  <2> QED
    BY <2>2, <2>3, <2>4, <2>5 DEF PrefillInv
<1> QED
  BY <1>1, WriteHeadStep, WriteRaisesStep, AttendStep, EvictStep, CorrectHeadStep,
     CorrectEvalStep, ChunkStep DEF Next

LEMMA PrefillCorrect == Spec => []PrefillInv
  BY InitInv, PrefillInvStep, PTL DEF Spec

-------------------------------------------------------------------------------
(* Theorems *)

(* Where residuals are added, every query head attends over the base that   *)
(* the pages of its KV head hold and their residuals were taken against,   *)
(* whatever the quantizer, the store mode and the per-token precision.     *)
THEOREM SameBaseEverywhere == Spec => []OneBase
<1>1. PrefillInv => OneBase
  <2> SUFFICES ASSUME PrefillInv, pc \in {"evict", "correct", "done"},
                      cfg.mode \in {"carekv_eval", "carekv_stored"}, NEW q \in QHeads
               PROVE  LET h == q \div kv_group
                      IN stored[h] = residuals[h] /\ base[q] = [k |-> stored[h], v |-> stored[h]]
    BY DEF OneBase
  <2>1. WroteHead(q \div kv_group)
    BY Groups DEF PrefillInv, BaseInv
  <2>2. base[q] = Attended(cfg, q \div kv_group)
    BY DEF PrefillInv, BaseInv
  <2> QED
    BY <2>1, <2>2 DEF WroteHead, Attended
<1> QED
  BY <1>1, PrefillCorrect, PTL

(* For every share, policy, window, number of sink tokens and length of the *)
(* prompt: a query attends to the kept keys up to its own, or, where the    *)
(* eviction left none of them, it is one of the first queries, no more than *)
(* the share that was evicted, and there are no sink tokens.                *)
THEOREM CausalAfterEviction == Spec => []CausalUnlessAllEvicted
<1>1. PrefillInv => CausalUnlessAllEvicted
  BY DEF PrefillInv, AttentionInv
<1> QED
  BY <1>1, PrefillCorrect, PTL

(* An eviction keeps the keys it must and, where they leave room, exactly   *)
(* as many as the share allows.                                            *)
THEOREM ShareKept == Spec => []EvictionKeepsItsShare
<1>1. PrefillInv => EvictionKeepsItsShare
  <2> SUFFICES ASSUME PrefillInv PROVE EvictionKeepsItsShare
    OBVIOUS
  <2>1. PICK w \in Int : w = RecentWindow(cfg, T)
    BY WindowType DEF PrefillInv
  <2>2. T \in Nat /\ Tokens = 0 .. T - 1
    BY DEF PrefillInv, TypeOK, Tokens
  <2>3. {j \in Tokens : j < cfg.sink \/ T - j <= w} = Forced(cfg, T)
    <3>1. \A j \in Tokens : T - j <= w <=> j >= T - w
      BY <2>1, <2>2
    <3> QED
      BY <2>1, <2>2, <3>1 DEF Forced
  <2> SUFFICES ASSUME pc \in {"correct", "done"}, 0 < cfg.keep, cfg.keep < Den, cfg.mode # "fp"
               PROVE  /\ Cardinality(attended[T - 1]) =
                           Most(keep_n(cfg, T), Cardinality(attended[T - 1] \cap Forced(cfg, T)))
                      /\ Forced(cfg, T) \subseteq attended[T - 1]
    <3>1. \A j \in Tokens : j < cfg.sink \/ T - j <= w => j \in Forced(cfg, T)
      BY <2>3
    <3> QED
      BY <2>1, <2>3, <3>1 DEF EvictionKeepsItsShare
  <2>4. attended[T - 1] \in Kept(cfg, T) /\ cfg.keep \in Nat /\ T \in Nat \ {0}
    BY DEF PrefillInv, AttentionInv, KeepsItsShare, TypeOK
  <2>5. PICK kept \in Kept(cfg, T) : kept = attended[T - 1]
    BY <2>4
  <2>6. PICK f \in 0 .. T : f = Cardinality(Forced(cfg, T))
    BY <2>4, KeptShape
  <2>7. /\ Forced(cfg, T) \subseteq kept
        /\ Cardinality(kept) = f + Least(Remaining(cfg, T), T - f)
    BY <2>4, <2>6, KeptShape
  <2>8. PICK n \in Nat : n = keep_n(cfg, T) /\ n <= T
    BY <2>4, KeepBounds
  <2>9. Remaining(cfg, T) = Most(0, n - f)
    BY <2>6, <2>8 DEF Remaining
  <2>10. f + Least(Most(0, n - f), T - f) = Most(n, f)
    BY <2>4, <2>6, <2>8 DEF Least, Most
  <2>11. kept \cap Forced(cfg, T) = Forced(cfg, T)
    BY <2>7
  <2> QED
    BY <2>5, <2>6, <2>7, <2>8, <2>9, <2>10, <2>11
<1> QED
  BY <1>1, PrefillCorrect, PTL

(* Every query of every head ends with the correction computed for itself,  *)
(* for any number of heads, and any size of the chunks.                    *)
THEOREM OwnCorrections == Spec => []OwnCorrection
<1>1. PrefillInv => OwnCorrection
  BY DEF PrefillInv, LoopInv, Corrected, Due, OwnCorrection
<1> QED
  BY <1>1, PrefillCorrect, PTL
===============================================================================
