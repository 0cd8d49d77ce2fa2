----------------------------- MODULE CommonLemmas -----------------------------
(***************************************************************************)
(* Lemmas that the proofs of several components rest on: induction over    *)
(* the natural numbers, division and rounding, what FlattenSeq returns, and *)
(* sums over finite sets.                                                  *)
(*                                                                         *)
(* The induction theorems of the library take a predicate, which the       *)
(* provers cannot instantiate.  The least member of a set of numbers needs *)
(* none, and does the same for the set of numbers a predicate holds of.    *)
(***************************************************************************)
EXTENDS SequencesExt, Integers, Rounding, WellFoundedInduction, SequenceTheorems,
        FiniteSetTheorems, TLAPS

-------------------------------------------------------------------------------
(* Induction *)

(* The natural numbers are well ordered; the library states it for an       *)
(* operator, and here for the relation that is passed to WFMin.            *)
NatLess == {x \in Nat \X Nat : x[1] < x[2]}

LEMMA NatLessWellFounded == IsWellFoundedOn(NatLess, Nat)
  BY NatLessThanWellFounded DEF OpToRel, NatLess

(* A non-empty set of natural numbers has a least member. *)
LEMMA LeastMember ==
  ASSUME NEW T, T \subseteq Nat, T # {}
  PROVE  \E m \in T : \A k \in T : m <= k
<1>1. PICK m \in T : \A k \in T : ~ (<<k, m>> \in NatLess)
  BY NatLessWellFounded, WFMin
<1>2. ASSUME NEW k \in T PROVE m <= k
  <2>1. k \in Nat /\ m \in Nat /\ <<k, m>> \in Nat \X Nat
    OBVIOUS
  <2>2. ~ (k < m)
    BY <1>1, <2>1 DEF NatLess
  <2> QED
    BY <2>1, <2>2
<1> QED
  BY <1>2

(* Induction over 1 .. n, for a set instead of a predicate. *)
LEMMA UpTo ==
  ASSUME NEW n \in Nat, NEW S,
         \A i \in 1 .. n : (i > 1 => i - 1 \in S) => i \in S
  PROVE  1 .. n \subseteq S
<1> SUFFICES ASSUME (1 .. n) \ S # {} PROVE FALSE
  OBVIOUS
<1> DEFINE T == (1 .. n) \ S
<1>0. T \subseteq Nat /\ T # {}
  OBVIOUS
<1> HIDE DEF T
<1>1. PICK m \in T : \A k \in T : m <= k
  BY <1>0, LeastMember
<1> USE DEF T
<1>2. m > 1 => m - 1 \in (1 .. n)
  OBVIOUS
<1>3. m > 1 => m - 1 \in S
  BY <1>1, <1>2
<1> QED
  BY <1>1, <1>3

-------------------------------------------------------------------------------
(* Division and rounding *)

LEMMA DivBounds ==
  ASSUME NEW n \in Nat, NEW d \in Nat \ {0}
  PROVE  /\ n \div d \in Nat /\ n % d \in 0 .. d - 1
         /\ n = d * (n \div d) + (n % d)
<1>1. n \div d \in Int /\ n \div d >= 0
  OBVIOUS
<1>2. n % d \in 0 .. d - 1
  OBVIOUS
<1>3. n = d * (n \div d) + (n % d)
  OBVIOUS
<1> QED
  BY <1>1, <1>2, <1>3

(* Division by the same number is monotone. *)
LEMMA DivMonotone ==
  ASSUME NEW m \in Nat, NEW n \in Nat, m <= n, NEW d \in Nat \ {0}
  PROVE  m \div d <= n \div d
<1> DEFINE a == m \div d
           b == n \div d
<1>1. /\ a \in Nat /\ b \in Nat
      /\ m = d * a + (m % d) /\ n = d * b + (n % d)
      /\ m % d \in 0 .. d - 1 /\ n % d \in 0 .. d - 1
  BY DivBounds
<1> HIDE DEF a, b
<1>2. SUFFICES ASSUME a >= b + 1 PROVE FALSE
  BY <1>1 DEF a, b
<1>3. d * a >= d * (b + 1) /\ d * (b + 1) = d * b + d
  BY <1>1, <1>2
<1>4. d * a \in Int /\ d * b \in Int
  BY <1>1
<1> QED
  BY <1>1, <1>3, <1>4

(* A rounded quotient is a natural number, at most m when the exact one is. *)
LEMMA RoundBounds ==
  ASSUME NEW n \in Nat, NEW d \in Nat \ {0}
  PROVE  /\ Round(n, d) \in Nat
         /\ \A m \in Nat : n <= m * d => Round(n, d) <= m
<1> DEFINE f == n \div d
           r == n % d
<1>1. f \in Nat /\ r \in 0 .. d - 1 /\ n = d * f + r
  BY DivBounds
<1>2. Round(n, d) = IF 2 * r < d \/ (2 * r = d /\ f % 2 = 0) THEN f ELSE f + 1
  BY DEF Round
<1> HIDE DEF f, r
<1>3. Round(n, d) \in Nat /\ Round(n, d) <= f + 1 /\ (r = 0 => Round(n, d) = f)
  BY <1>1, <1>2
<1>4. ASSUME NEW m \in Nat, n <= m * d PROVE Round(n, d) <= m
  <2>1. CASE f + 1 <= m
    BY <2>1, <1>1, <1>3
  <2>2. CASE f >= m
    <3>1. d * f >= d * m
      BY <2>2, <1>1
    <3>2. d * m = m * d
      OBVIOUS
    <3>3. r = 0 /\ d * f = d * m
      BY <3>1, <3>2, <1>1, <1>4
    <3>4. f = m
      BY <3>3, <1>1
    <3> QED
      BY <3>3, <3>4, <1>3
  <2> QED
    BY <2>1, <2>2, <1>1
<1> QED
  BY <1>3, <1>4

(* The quotient and the remainder of a number written as such. *)
LEMMA DivUnique ==
  ASSUME NEW d \in Nat \ {0}, NEW q \in Int, NEW r \in 0 .. d - 1
  PROVE  (q * d + r) \div d = q /\ (q * d + r) % d = r
<1> DEFINE n == q * d + r
<1>1. PICK a \in Int : a = n \div d
  OBVIOUS
<1>2. PICK b \in 0 .. d - 1 : b = n % d
  OBVIOUS
<1>3. n = d * a + b
  BY <1>1, <1>2
<1>4. CASE a >= q + 1
  <2>1. d * a >= d * (q + 1) /\ d * (q + 1) = q * d + d
    BY <1>4
  <2> QED
    BY <1>3, <2>1
<1>5. CASE q >= a + 1
  <2>1. d * q >= d * (a + 1) /\ d * (a + 1) = d * a + d /\ d * q = q * d
    BY <1>5
  <2> QED
    BY <1>3, <2>1
<1>6. CASE a = q
  BY <1>1, <1>2, <1>3, <1>6
<1> QED
  BY <1>4, <1>5, <1>6

(* Round is within half of the quotient. *)
LEMMA RoundNear ==
  ASSUME NEW n \in Nat, NEW d \in Nat \ {0}
  PROVE  /\ Round(n, d) \in Nat
         /\ 2 * n - d <= 2 * (d * Round(n, d)) /\ 2 * (d * Round(n, d)) <= 2 * n + d
<1> DEFINE f == n \div d
           r == n % d
<1>1. f \in Nat /\ r \in 0 .. d - 1 /\ n = d * f + r
  BY DivBounds
<1>2. Round(n, d) = IF 2 * r < d \/ (2 * r = d /\ f % 2 = 0) THEN f ELSE f + 1
  BY DEF Round
<1> HIDE DEF f, r
<1>3. PICK p \in Nat : p = d * f
  BY <1>1
<1>4. CASE 2 * r < d \/ (2 * r = d /\ f % 2 = 0)
  <2>1. Round(n, d) = f /\ 2 * r <= d
    BY <1>1, <1>2, <1>4
  <2> QED
    BY <1>1, <1>3, <2>1
<1>5. CASE ~ (2 * r < d \/ (2 * r = d /\ f % 2 = 0))
  <2>1. Round(n, d) = f + 1 /\ 2 * r >= d
    BY <1>1, <1>2, <1>5
  <2>2. d * (f + 1) = p + d
    BY <1>1, <1>3
  <2> QED
    BY <1>1, <1>3, <2>1, <2>2
<1> QED
  BY <1>4, <1>5

LEMMA RoundMonotone ==
  ASSUME NEW m \in Nat, NEW n \in Nat, m <= n, NEW d \in Nat \ {0}
  PROVE  Round(m, d) <= Round(n, d)
<1>1. PICK a \in Nat : a = Round(m, d)
  BY RoundNear
<1>2. PICK b \in Nat : b = Round(n, d)
  BY RoundNear
<1>3. 2 * (d * a) <= 2 * m + d /\ 2 * n - d <= 2 * (d * b)
  BY <1>1, <1>2, RoundNear
<1>4. SUFFICES ASSUME b < a PROVE FALSE
  BY <1>1, <1>2
<1>5. PICK e \in Nat : a = b + 1 + e
  BY <1>4
<1>6. d * a = d * b + d + d * e /\ d * e \in Nat /\ d * b \in Nat
  BY <1>5
<1>7. m = n
  BY <1>3, <1>6
<1> QED
  BY <1>1, <1>2, <1>4, <1>7

(* Of a sum divided by the fraction f / d, the part that is left over does *)
(* not shrink when the sum grows.                                          *)
LEMMA RoundLeaves ==
  ASSUME NEW m \in Nat, NEW n \in Nat, m <= n, NEW d \in Nat \ {0}, NEW f \in 0 .. d
  PROVE  m - Round(m * f, d) <= n - Round(n * f, d)
<1>0. m * f \in Nat /\ n * f \in Nat
  OBVIOUS
<1>1. PICK a \in Nat : a = Round(m * f, d)
  BY <1>0, RoundNear
<1>2. PICK b \in Nat : b = Round(n * f, d)
  BY <1>0, RoundNear
<1>3. PICK j \in Nat : n = m + j
  OBVIOUS
<1>4. SUFFICES ASSUME b > a + j PROVE FALSE
  BY <1>1, <1>2, <1>3
<1>5. PICK e \in Nat : b = a + j + 1 + e
  BY <1>4
<1>6. 2 * (m * f) - d <= 2 * (d * a) /\ 2 * (d * b) <= 2 * (n * f) + d
  BY <1>0, <1>1, <1>2, RoundNear
<1>7. d * b = d * a + d * j + d + d * e /\ d * e \in Nat /\ d * a \in Nat /\ d * j \in Nat
  BY <1>5
<1>8. n * f = m * f + j * f /\ j * f \in Nat
  BY <1>3
<1>9. d * j <= j * f
  BY <1>6, <1>7, <1>8, <1>0
<1>10. CASE f = d
  <2>1. /\ (m * d + 0) \div d = m /\ (m * d + 0) % d = 0
        /\ (n * d + 0) \div d = n /\ (n * d + 0) % d = 0
    BY DivUnique
  <2>2. m * f = m * d + 0 /\ n * f = n * d + 0
    BY <1>10
  <2>3. a = m /\ b = n
    BY <1>1, <1>2, <2>1, <2>2 DEF Round
  <2> QED
    BY <1>3, <1>4, <2>3
<1>11. CASE f # d
  <2>1. PICK g \in Nat : d = f + 1 + g
    BY <1>11
  <2>2. d * j = j * f + j + j * g /\ j * g \in Nat
    BY <2>1
  <2>3. j = 0
    BY <1>8, <1>9, <2>2
  <2> QED
    BY <1>1, <1>2, <1>3, <1>4, <2>3
<1> QED
  BY <1>10, <1>11

-------------------------------------------------------------------------------
(* FlattenSeq *)

(* The recursion of FlattenSeq, cut off at n. *)
Recursion(f, seqs, n) ==
  f = [i \in 1 .. n |-> IF i = 1 THEN seqs[i] ELSE f[i - 1] \o seqs[i]]

(* It has a solution, so that FlattenSeq satisfies its own recursion. *)
LEMMA RecursionSolved ==
  ASSUME NEW seqs, NEW n \in Nat
  PROVE  \E f : Recursion(f, seqs, n)
<1> DEFINE S == {m \in 1 .. n : \E f : Recursion(f, seqs, m)}
<1>1. ASSUME NEW m \in 1 .. n, m > 1 => m - 1 \in S PROVE m \in S
  <2>1. CASE m = 1
    <3> DEFINE g == [i \in 1 .. 1 |-> seqs[i]]
    <3>1. Recursion(g, seqs, 1)
      BY DEF Recursion
    <3> QED
      BY <2>1, <3>1
  <2>2. CASE m > 1
    <3>1. PICK f : Recursion(f, seqs, m - 1)
      BY <1>1, <2>2
    <3> DEFINE g == [i \in 1 .. m |-> IF i < m THEN f[i] ELSE f[m - 1] \o seqs[m]]
    <3>2. ASSUME NEW i \in 1 .. m
          PROVE  g[i] = IF i = 1 THEN seqs[i] ELSE g[i - 1] \o seqs[i]
      <4>1. CASE i < m
        <5>1. i \in 1 .. m - 1 /\ (i # 1 => i - 1 \in 1 .. m /\ i - 1 < m)
          BY <4>1
        <5>2. f[i] = IF i = 1 THEN seqs[i] ELSE f[i - 1] \o seqs[i]
          BY <3>1, <5>1 DEF Recursion
        <5>3. g[i] = f[i] /\ (i # 1 => g[i - 1] = f[i - 1])
          BY <4>1, <5>1
        <5> QED
          BY <5>2, <5>3
      <4>2. CASE i = m
        <5>1. m \in 1 .. m /\ ~ (m < m)
          BY <2>2
        <5>2. g[m] = f[m - 1] \o seqs[m]
          BY <5>1
        <5>3. g[m - 1] = f[m - 1]
          BY <2>2
        <5> QED
          BY <2>2, <4>2, <5>2, <5>3
      <4> QED
        BY <4>1, <4>2
    <3>3. g = [i \in 1 .. m |-> g[i]]
      OBVIOUS
    <3> HIDE DEF g
    <3>4. Recursion(g, seqs, m)
      BY <3>2, <3>3 DEF Recursion
    <3> QED
      BY <3>4
  <2> QED
    BY <2>1, <2>2
<1>2. CASE n = 0
  <2> DEFINE g == [i \in 1 .. 0 |-> seqs[i]]
  <2>1. Recursion(g, seqs, 0)
    BY DEF Recursion
  <2> QED
    BY <1>2, <2>1
<1>3. CASE n > 0
  <2>1. 1 .. n \subseteq S
    <3> HIDE DEF S
    <3> QED
      BY <1>1, UpTo
  <2>2. n \in S
    BY <1>3, <2>1
  <2> QED
    BY <2>2
<1> QED
  BY <1>2, <1>3

LEMMA FlattenRecursion ==
  ASSUME NEW seqs, Len(seqs) \in Nat \ {0}
  PROVE  \E f : Recursion(f, seqs, Len(seqs)) /\ FlattenSeq(seqs) = f[Len(seqs)]
<1> DEFINE f == CHOOSE f : f = [i \in 1 .. Len(seqs) |->
                  IF i = 1 THEN seqs[i] ELSE f[i - 1] \o seqs[i]]
<1>1. FlattenSeq(seqs) = f[Len(seqs)]
  BY DEF FlattenSeq
<1>2. \E g : Recursion(g, seqs, Len(seqs))
  BY RecursionSolved
<1>3. \E g : g = [i \in 1 .. Len(seqs) |->
                  IF i = 1 THEN seqs[i] ELSE g[i - 1] \o seqs[i]]
  BY <1>2 DEF Recursion
<1>4. f = [i \in 1 .. Len(seqs) |-> IF i = 1 THEN seqs[i] ELSE f[i - 1] \o seqs[i]]
  BY <1>3
<1> HIDE DEF f
<1>5. Recursion(f, seqs, Len(seqs))
  BY <1>4 DEF Recursion
<1> QED
  BY <1>1, <1>5

(* The first m of these sequences one after the other, all but the last of *)
(* the given size: where each element ends up.                             *)
InPlace(all, seqs, size, i, t) ==
  /\ (i - 1) * size + t \in 1 .. Len(all)
  /\ all[(i - 1) * size + t] = seqs[i][t]

Laid(all, seqs, size, m) ==
  /\ Len(all) = (m - 1) * size + Len(seqs[m])
  /\ \A i \in 1 .. m : \A t \in 1 .. Len(seqs[i]) : InPlace(all, seqs, size, i, t)
  /\ \A k \in 1 .. Len(all) :
       \E i \in 1 .. m : \E t \in 1 .. Len(seqs[i]) : k = (i - 1) * size + t

(* One more sequence. *)
LEMMA LaidStep ==
  ASSUME NEW S, NEW size \in Nat, NEW m \in Nat, m > 1, NEW seqs, NEW all \in Seq(S),
         \A i \in 1 .. m : seqs[i] \in Seq(S),
         Len(seqs[m - 1]) = size, Laid(all, seqs, size, m - 1)
  PROVE  Laid(all \o seqs[m], seqs, size, m)
<1> DEFINE last == seqs[m]
           joined == all \o last
<1>1. PICK k \in Nat : k = (m - 2) * size
  OBVIOUS
<1>2. /\ (m - 1) * size = k + size /\ Len(all) = k + size
      /\ (m - 1) - 1 = m - 2
  BY <1>1 DEF Laid
<1>3. last \in Seq(S) /\ Len(last) \in Nat
  OBVIOUS
<1>4. /\ Len(joined) = Len(all) + Len(last)
      /\ \A i \in 1 .. Len(all) : joined[i] = all[i]
      /\ \A t \in 1 .. Len(last) : joined[Len(all) + t] = last[t]
  BY <1>3
<1> HIDE DEF joined
<1>5. ASSUME NEW i \in 1 .. m, NEW t \in 1 .. Len(seqs[i])
      PROVE  InPlace(joined, seqs, size, i, t)
  <2>1. CASE i = m
    <3>1. (i - 1) * size + t = Len(all) + t /\ t \in 1 .. Len(last)
      BY <1>1, <1>2, <2>1
    <3>2. Len(all) + t \in 1 .. Len(joined)
      BY <1>1, <1>2, <1>3, <1>4, <3>1
    <3> QED
      BY <1>4, <2>1, <3>1, <3>2 DEF InPlace
  <2>2. CASE i # m
    <3>1. i \in 1 .. m - 1
      BY <2>2
    <3>2. InPlace(all, seqs, size, i, t)
      BY <3>1 DEF Laid
    <3> DEFINE j == (i - 1) * size + t
    <3>3. j \in 1 .. Len(all) /\ all[j] = seqs[i][t]
      BY <3>2 DEF InPlace
    <3> HIDE DEF j
    <3>4. j \in 1 .. Len(joined) /\ joined[j] = seqs[i][t]
      BY <1>3, <1>4, <3>3
    <3> QED
      BY <3>4 DEF InPlace, j
  <2> QED
    BY <2>1, <2>2
<1>6. ASSUME NEW j \in 1 .. Len(joined)
      PROVE  \E i \in 1 .. m : \E t \in 1 .. Len(seqs[i]) : j = (i - 1) * size + t
  <2>1. CASE j \in 1 .. Len(all)
    <3>1. PICK i \in 1 .. m - 1 : \E t \in 1 .. Len(seqs[i]) : j = (i - 1) * size + t
      BY <2>1 DEF Laid
    <3>2. i \in 1 .. m
      OBVIOUS
    <3> QED
      BY <3>1, <3>2
  <2>2. CASE ~ (j \in 1 .. Len(all))
    <3>a. Len(all) \in Nat /\ Len(last) \in Nat
      BY <1>3
    <3>1. PICK a \in Nat : a = Len(all)
      BY <3>a
    <3>b. PICK b \in Nat : b = Len(last)
      BY <3>a
    <3>2. j \in 1 .. a + b /\ ~ (j \in 1 .. a)
      BY <1>4, <2>2, <3>1, <3>b
    <3>3. j - a \in 1 .. Len(seqs[m]) /\ a = (m - 1) * size
      <4>1. a = (m - 1) * size
        BY <1>1, <1>2, <3>1
      <4>2. j - a \in 1 .. b
        BY <3>2
      <4> QED
        BY <3>b, <4>1, <4>2
    <3>4. j = (m - 1) * size + (j - a) /\ m \in 1 .. m
      <4>1. j \in Int /\ j = a + (j - a)
        BY <3>1, <3>2
      <4> QED
        BY <3>3, <4>1
    <3> QED
      BY <3>3, <3>4
  <2> QED
    BY <2>1, <2>2
<1>7. Len(joined) = (m - 1) * size + Len(last)
  BY <1>1, <1>2, <1>3, <1>4
<1> QED
  BY <1>5, <1>6, <1>7 DEF Laid, joined

LEMMA FlattenLaid ==
  ASSUME NEW S, NEW size \in Nat, NEW seqs, Len(seqs) \in Nat \ {0},
         \A i \in 1 .. Len(seqs) : seqs[i] \in Seq(S),
         \A i \in 1 .. Len(seqs) - 1 : Len(seqs[i]) = size
  PROVE  FlattenSeq(seqs) \in Seq(S) /\ Laid(FlattenSeq(seqs), seqs, size, Len(seqs))
<1>1. PICK n \in Nat \ {0} : n = Len(seqs)
  OBVIOUS
<1>2. PICK f : Recursion(f, seqs, n) /\ FlattenSeq(seqs) = f[n]
  BY <1>1, FlattenRecursion
<1> DEFINE T == {m \in 1 .. n : f[m] \in Seq(S) /\ Laid(f[m], seqs, size, m)}
<1>3. ASSUME NEW m \in 1 .. n, m > 1 => m - 1 \in T PROVE m \in T
  <2>1. f[m] = IF m = 1 THEN seqs[m] ELSE f[m - 1] \o seqs[m]
    BY <1>2 DEF Recursion
  <2>2. CASE m = 1
    <3>1. f[1] = seqs[1] /\ seqs[1] \in Seq(S) /\ (1 - 1) * size = 0
      BY <1>1, <2>1, <2>2
    <3>2. \A t \in 1 .. Len(seqs[1]) : (1 - 1) * size + t = t
      BY <3>1
    <3>3. \A t \in 1 .. Len(seqs[1]) : InPlace(seqs[1], seqs, size, 1, t)
      BY <3>2 DEF InPlace
    <3>4. \A t \in 1 .. Len(seqs[1]) :
            \E i \in 1 .. 1 : \E u \in 1 .. Len(seqs[i]) : t = (i - 1) * size + u
      <4> SUFFICES ASSUME NEW t \in 1 .. Len(seqs[1])
                   PROVE  \E i \in 1 .. 1 : \E u \in 1 .. Len(seqs[i]) : t = (i - 1) * size + u
        OBVIOUS
      <4>1. 1 \in 1 .. 1 /\ t = (1 - 1) * size + t
        BY <3>2
      <4> QED
        BY <4>1
    <3>5. Len(seqs[1]) = (1 - 1) * size + Len(seqs[1])
      <4>1. Len(seqs[1]) \in Nat
        BY <3>1
      <4>2. \A l \in Nat : l = 0 + l
        OBVIOUS
      <4> QED
        BY <3>1, <4>1, <4>2, Zenon
    <3>6. \A i \in 1 .. 1 : i = 1
      OBVIOUS
    <3>7. Laid(seqs[1], seqs, size, 1)
      BY <3>3, <3>4, <3>5, <3>6 DEF Laid
    <3> QED
      BY <2>2, <3>1, <3>7
  <2>3. CASE m > 1
    <3>1. f[m - 1] \in Seq(S) /\ Laid(f[m - 1], seqs, size, m - 1)
      BY <1>3, <2>3
    <3>2. /\ \A i \in 1 .. m : seqs[i] \in Seq(S)
          /\ Len(seqs[m - 1]) = size
      BY <1>1, <2>3
    <3>3. Laid(f[m - 1] \o seqs[m], seqs, size, m)
      BY <2>3, <3>1, <3>2, LaidStep
    <3>4. f[m - 1] \o seqs[m] \in Seq(S)
      BY <3>1, <3>2
    <3>5. f[m] = f[m - 1] \o seqs[m]
      <4>1. m # 1
        BY <2>3
      <4> QED
        BY <2>1, <4>1, Zenon
    <3> QED
      BY <3>3, <3>4, <3>5
  <2> QED
    BY <2>2, <2>3
<1>4. 1 .. n \subseteq T
  <2> HIDE DEF T
  <2> QED
    BY <1>3, UpTo
<1> QED
  BY <1>1, <1>2, <1>4

-------------------------------------------------------------------------------
(* Sums and best members of finite sets *)

(* SumFunctionOnSet(w, S) is defined by recursion over the subsets of S,   *)
(* one chosen element at a time.                                           *)
Chosen(s) == CHOOSE x \in s : TRUE

SumOf(w, f, s) == IF s = {} THEN 0 ELSE w[Chosen(s)] + f[s \ {Chosen(s)}]

Small(S, m) == {s \in SUBSET S : Cardinality(s) <= m}

SumsUpTo(f, w, S, m) == f = [s \in Small(S, m) |-> SumOf(w, f, s)]

Sums(f, w, S) == f = [s \in SUBSET S |-> SumOf(w, f, s)]

LEMMA ChosenOut ==
  ASSUME NEW S, IsFiniteSet(S), NEW s \in SUBSET S, s # {}
  PROVE  /\ Chosen(s) \in s /\ s \ {Chosen(s)} \in SUBSET S
         /\ Cardinality(s) \in Nat /\ Cardinality(s) > 0
         /\ Cardinality(s \ {Chosen(s)}) = Cardinality(s) - 1
<1>1. Chosen(s) \in s
  BY DEF Chosen
<1>2. IsFiniteSet(s) /\ Cardinality(s) \in Nat
  BY FS_Subset, FS_CardinalityType
<1>3. Cardinality(s) # 0
  BY <1>2, FS_EmptySet
<1>4. Cardinality(s \ {Chosen(s)}) = Cardinality(s) - 1
  BY <1>1, <1>2, FS_RemoveElement
<1> QED
  BY <1>1, <1>2, <1>3, <1>4

(* The recursion has a solution. *)
LEMMA SumsExist ==
  ASSUME NEW w, NEW S, IsFiniteSet(S)
  PROVE  \E f : Sums(f, w, S)
<1> DEFINE Bad == {m \in Nat : ~ \E f : SumsUpTo(f, w, S, m)}
<1>1. Bad = {}
  <2> SUFFICES ASSUME Bad # {} PROVE FALSE
    OBVIOUS
  <2>1. PICK m \in Bad : \A k \in Bad : m <= k
    BY LeastMember
  <2>2. m \in Nat /\ ~ \E f : SumsUpTo(f, w, S, m)
    BY <2>1
  <2>3. CASE m = 0
    <3> DEFINE g == [s \in Small(S, 0) |-> 0]
    <3>1. ASSUME NEW s \in Small(S, 0) PROVE SumOf(w, g, s) = 0
      <4>1. s \in SUBSET S /\ Cardinality(s) <= 0
        BY DEF Small
      <4>2. ASSUME s # {} PROVE FALSE
        <5>1. Cardinality(s) \in Nat /\ Cardinality(s) > 0
          BY <4>1, <4>2, ChosenOut
        <5> QED
          BY <4>1, <5>1
      <4> QED
        BY <4>2 DEF SumOf
    <3>2. g = [s \in Small(S, 0) |-> SumOf(w, g, s)]
      BY <3>1
    <3> HIDE DEF g
    <3>3. SumsUpTo(g, w, S, 0)
      BY <3>2 DEF SumsUpTo
    <3> QED
      BY <2>2, <2>3, <3>3
  <2>4. CASE m # 0
    <3>1. m - 1 \in Nat /\ m - 1 \notin Bad
      BY <2>1, <2>2, <2>4
    <3>2. PICK f : SumsUpTo(f, w, S, m - 1)
      BY <3>1
    <3> DEFINE g == [s \in Small(S, m) |-> SumOf(w, f, s)]
    <3>3. ASSUME NEW s \in Small(S, m) PROVE SumOf(w, g, s) = SumOf(w, f, s)
      <4>1. CASE s = {}
        BY <4>1 DEF SumOf
      <4>2. CASE s # {}
        <5> DEFINE r == s \ {Chosen(s)}
        <5>1. s \in SUBSET S /\ Cardinality(s) <= m
          BY DEF Small
        <5>2. r \in SUBSET S /\ Cardinality(s) \in Nat /\ Cardinality(r) = Cardinality(s) - 1
          BY <4>2, <5>1, ChosenOut
        <5> HIDE DEF r
        <5>3. r \in Small(S, m) /\ r \in Small(S, m - 1)
          BY <2>2, <5>1, <5>2 DEF Small
        <5>4. g[r] = SumOf(w, f, r)
          BY <5>3
        <5>5. f[r] = SumOf(w, f, r)
          BY <3>2, <5>3, Zenon DEF SumsUpTo
        <5> HIDE DEF g
        <5>6. g[r] = f[r]
          BY <5>4, <5>5
        <5> QED
          BY <4>2, <5>6 DEF SumOf, r
      <4> QED
        BY <4>1, <4>2
    <3>4. g = [s \in Small(S, m) |-> SumOf(w, g, s)]
      BY <3>3
    <3> HIDE DEF g
    <3>5. SumsUpTo(g, w, S, m)
      BY <3>4 DEF SumsUpTo
    <3> QED
      BY <2>2, <3>5
  <2> QED
    BY <2>3, <2>4
<1>2. Cardinality(S) \in Nat
  BY FS_CardinalityType
<1>3. PICK f : SumsUpTo(f, w, S, Cardinality(S))
  BY <1>1, <1>2
<1>4. Small(S, Cardinality(S)) = SUBSET S
  BY FS_Subset DEF Small
<1>5. Sums(f, w, S)
  BY <1>3, <1>4 DEF Sums, SumsUpTo
<1> QED
  BY <1>5

LEMMA SumSolved ==
  ASSUME NEW w, NEW S, IsFiniteSet(S)
  PROVE  \E f : Sums(f, w, S) /\ SumFunctionOnSet(w, S) = f[S]
<1> DEFINE f == CHOOSE f : f = [s \in SUBSET S |->
                  IF s = {} THEN 0
                  ELSE w[CHOOSE x \in s : TRUE] + f[s \ {CHOOSE x \in s : TRUE}]]
<1>1. SumFunctionOnSet(w, S) = f[S]
  BY DEF SumFunctionOnSet, FoldFunctionOnSet, MapThenFoldSet
<1>2. \E g : Sums(g, w, S)
  BY SumsExist
<1>3. \E g : g = [s \in SUBSET S |->
                  IF s = {} THEN 0
                  ELSE w[CHOOSE x \in s : TRUE] + g[s \ {CHOOSE x \in s : TRUE}]]
  BY <1>2 DEF Sums, SumOf, Chosen
<1>4. f = [s \in SUBSET S |->
             IF s = {} THEN 0
             ELSE w[CHOOSE x \in s : TRUE] + f[s \ {CHOOSE x \in s : TRUE}]]
  BY <1>3
<1> HIDE DEF f
<1>5. Sums(f, w, S)
  BY <1>4 DEF Sums, SumOf, Chosen
<1> QED
  BY <1>1, <1>5

(* Solutions agree where both are defined. *)
LEMMA SumsAgree ==
  ASSUME NEW w, NEW S, IsFiniteSet(S), NEW f, Sums(f, w, S),
         NEW R \in SUBSET S, NEW g, Sums(g, w, R)
  PROVE  \A s \in SUBSET R : g[s] = f[s]
<1> DEFINE Bad == {k \in Nat : \E s \in SUBSET R : Cardinality(s) = k /\ g[s] # f[s]}
<1>0. \A s \in SUBSET R : s \in SUBSET S
  OBVIOUS
<1>1. Bad = {}
  <2> SUFFICES ASSUME Bad # {} PROVE FALSE
    OBVIOUS
  <2>1. PICK k \in Bad : \A j \in Bad : k <= j
    BY LeastMember
  <2>2. PICK s \in SUBSET R : Cardinality(s) = k /\ g[s] # f[s]
    BY <2>1
  <2>3. f[s] = SumOf(w, f, s) /\ g[s] = SumOf(w, g, s)
    BY <1>0, Zenon DEF Sums
  <2>4. s # {}
    BY <2>2, <2>3 DEF SumOf
  <2> DEFINE r == s \ {Chosen(s)}
  <2>5. r \in SUBSET R /\ k \in Nat /\ k > 0 /\ Cardinality(r) = k - 1
    BY <1>0, <2>2, <2>4, ChosenOut
  <2>6. f[s] = w[Chosen(s)] + f[r] /\ g[s] = w[Chosen(s)] + g[r]
    BY <2>3, <2>4 DEF SumOf
  <2> HIDE DEF r
  <2>7. k - 1 \notin Bad /\ k - 1 \in Nat
    BY <2>1, <2>5
  <2>8. f[r] = g[r]
    BY <2>5, <2>7
  <2> QED
    BY <2>2, <2>6, <2>8
<1>2. ASSUME NEW s \in SUBSET R PROVE Cardinality(s) \in Nat
  <2>1. s \in SUBSET S
    BY <1>0
  <2> QED
    BY <2>1, FS_Subset, FS_CardinalityType
<1> QED
  BY <1>1, <1>2

LEMMA SumsInt ==
  ASSUME NEW w, NEW S, IsFiniteSet(S), \A x \in S : w[x] \in Int, NEW f, Sums(f, w, S)
  PROVE  \A s \in SUBSET S : f[s] \in Int
<1> DEFINE Bad == {k \in Nat : \E s \in SUBSET S : Cardinality(s) = k /\ f[s] \notin Int}
<1>1. Bad = {}
  <2> SUFFICES ASSUME Bad # {} PROVE FALSE
    OBVIOUS
  <2>1. PICK k \in Bad : \A j \in Bad : k <= j
    BY LeastMember
  <2>2. PICK s \in SUBSET S : Cardinality(s) = k /\ f[s] \notin Int
    BY <2>1
  <2>3. f[s] = SumOf(w, f, s)
    BY Zenon DEF Sums
  <2>4. s # {}
    BY <2>2, <2>3 DEF SumOf
  <2> DEFINE r == s \ {Chosen(s)}
  <2>5. Chosen(s) \in S /\ r \in SUBSET S /\ k \in Nat /\ k > 0 /\ Cardinality(r) = k - 1
    BY <2>2, <2>4, ChosenOut
  <2>6. f[s] = w[Chosen(s)] + f[r]
    BY <2>3, <2>4 DEF SumOf
  <2> HIDE DEF r
  <2>7. k - 1 \notin Bad /\ k - 1 \in Nat
    BY <2>1, <2>5
  <2>8. f[r] \in Int
    BY <2>5, <2>7
  <2> QED
    BY <2>2, <2>5, <2>6, <2>8
<1>2. ASSUME NEW s \in SUBSET S PROVE Cardinality(s) \in Nat
  BY FS_Subset, FS_CardinalityType
<1> QED
  BY <1>1, <1>2

(* Any element, not only the chosen one, may be taken out first. *)
LEMMA SumsSplit ==
  ASSUME NEW w, NEW S, IsFiniteSet(S), \A x \in S : w[x] \in Int, NEW f, Sums(f, w, S)
  PROVE  \A s \in SUBSET S : \A x \in s : f[s] = w[x] + f[s \ {x}]
<1> DEFINE Bad == {k \in Nat : \E s \in SUBSET S : \E x \in s :
                     Cardinality(s) = k /\ f[s] # w[x] + f[s \ {x}]}
<1>0. \A s \in SUBSET S : f[s] \in Int
  BY SumsInt
<1>1. Bad = {}
  <2> SUFFICES ASSUME Bad # {} PROVE FALSE
    OBVIOUS
  <2>1. PICK k \in Bad : \A j \in Bad : k <= j
    BY LeastMember
  <2>2. PICK s \in SUBSET S : \E x \in s : Cardinality(s) = k /\ f[s] # w[x] + f[s \ {x}]
    BY <2>1
  <2>3. PICK x \in s : Cardinality(s) = k /\ f[s] # w[x] + f[s \ {x}]
    BY <2>2
  <2> DEFINE c == Chosen(s)
             r == s \ {c}
             t == s \ {x}
             both == (s \ {c}) \ {x}
  <2>4. c \in s /\ r \in SUBSET S /\ k \in Nat /\ k > 0 /\ Cardinality(r) = k - 1
    BY <2>3, ChosenOut
  <2>5. f[s] = w[c] + f[r]
    <3>1. f[s] = SumOf(w, f, s)
      BY Zenon DEF Sums
    <3> QED
      BY <3>1, <2>3 DEF SumOf
  <2>6. x # c
    BY <2>3, <2>5
  <2>7. t \in SUBSET S /\ Cardinality(t) = k - 1
    <3>1. IsFiniteSet(s)
      BY FS_Subset
    <3> QED
      BY <2>3, <3>1, FS_RemoveElement
  <2>8. x \in r /\ c \in t /\ t \ {c} = both /\ r \ {x} = both /\ both \in SUBSET S
    BY <2>4, <2>6
  <2> HIDE DEF c, r, t, both
  <2>9. ASSUME NEW u \in SUBSET S, NEW y \in u, Cardinality(u) = k - 1
        PROVE  f[u] = w[y] + f[u \ {y}]
    <3> SUFFICES ASSUME f[u] # w[y] + f[u \ {y}] PROVE FALSE
      OBVIOUS
    <3>1. k \in Nat /\ k - 1 \in Nat
      BY <2>4
    <3>2. \E s1 \in SUBSET S : \E x1 \in s1 :
            Cardinality(s1) = k - 1 /\ f[s1] # w[x1] + f[s1 \ {x1}]
      BY <2>9, Zenon
    <3>3. k - 1 \in Bad
      BY <3>1, <3>2, Zenon
    <3> HIDE DEF Bad
    <3>4. k <= k - 1
      BY <2>1, <3>3
    <3> QED
      BY <3>1, <3>4
  <2>10. f[r] = w[x] + f[both]
    <3>1. f[r] = w[x] + f[r \ {x}]
      BY <2>4, <2>8, <2>9, Zenon
    <3> QED
      BY <2>8, <3>1
  <2>11. f[t] = w[c] + f[both]
    <3>1. f[t] = w[c] + f[t \ {c}]
      BY <2>7, <2>8, <2>9, Zenon
    <3> QED
      BY <2>8, <3>1
  <2>12. w[x] \in Int /\ w[c] \in Int /\ f[both] \in Int
    BY <1>0, <2>4, <2>8
  <2>13. f[s] = w[x] + f[t]
    BY <2>5, <2>10, <2>11, <2>12
  <2> QED
    BY <2>3, <2>13 DEF t
<1>2. ASSUME NEW s \in SUBSET S PROVE Cardinality(s) \in Nat
  BY FS_Subset, FS_CardinalityType
<1> QED
  BY <1>1, <1>2

LEMMA SumInt ==
  ASSUME NEW w, NEW S, IsFiniteSet(S), \A x \in S : w[x] \in Int
  PROVE  SumFunctionOnSet(w, S) \in Int
<1>1. PICK f : Sums(f, w, S) /\ SumFunctionOnSet(w, S) = f[S]
  BY SumSolved
<1>2. S \in SUBSET S
  OBVIOUS
<1> QED
  BY <1>1, <1>2, SumsInt

LEMMA SumEmpty ==
  ASSUME NEW w
  PROVE  SumFunctionOnSet(w, {}) = 0
<1>0. IsFiniteSet({})
  BY FS_EmptySet
<1>1. PICK f : Sums(f, w, {}) /\ SumFunctionOnSet(w, {}) = f[{}]
  BY <1>0, SumSolved
<1>2. f[{}] = SumOf(w, f, {})
  BY <1>1 DEF Sums
<1> QED
  BY <1>1, <1>2 DEF SumOf

LEMMA SumRemove ==
  ASSUME NEW w, NEW S, IsFiniteSet(S), \A x \in S : w[x] \in Int, NEW x \in S
  PROVE  SumFunctionOnSet(w, S) = w[x] + SumFunctionOnSet(w, S \ {x})
<1>1. PICK f : Sums(f, w, S) /\ SumFunctionOnSet(w, S) = f[S]
  BY SumSolved
<1>2. IsFiniteSet(S \ {x})
  BY FS_RemoveElement
<1>3. PICK g : Sums(g, w, S \ {x}) /\ SumFunctionOnSet(w, S \ {x}) = g[S \ {x}]
  BY <1>2, SumSolved
<1>4. S \ {x} \in SUBSET S /\ S \ {x} \in SUBSET (S \ {x}) /\ S \in SUBSET S
  OBVIOUS
<1>5. g[S \ {x}] = f[S \ {x}]
  BY <1>1, <1>3, <1>4, SumsAgree
<1>6. f[S] = w[x] + f[S \ {x}]
  BY <1>1, <1>4, SumsSplit
<1> QED
  BY <1>1, <1>3, <1>5, <1>6

(* What holds of {}, and of a set with one element more, holds of a finite *)
(* set; F collects the sets it holds of.                                   *)
LEMMA SetInduction ==
  ASSUME NEW S, IsFiniteSet(S), NEW F, {} \in F,
         \A T \in SUBSET S : \A x \in S \ T : T \in F => T \cup {x} \in F
  PROVE  S \in F
<1> DEFINE Bad == {k \in Nat : \E T \in SUBSET S : Cardinality(T) = k /\ T \notin F}
<1>1. Bad = {}
  <2> SUFFICES ASSUME Bad # {} PROVE FALSE
    OBVIOUS
  <2>1. PICK k \in Bad : \A j \in Bad : k <= j
    BY LeastMember
  <2>2. PICK T \in SUBSET S : Cardinality(T) = k /\ T \notin F
    BY <2>1
  <2>3. T # {}
    BY <2>2
  <2> DEFINE r == T \ {Chosen(T)}
  <2>4. Chosen(T) \in T /\ r \in SUBSET S /\ k \in Nat /\ k > 0 /\ Cardinality(r) = k - 1
    BY <2>2, <2>3, ChosenOut
  <2>5. r \cup {Chosen(T)} = T /\ Chosen(T) \in S \ r
    BY <2>4
  <2> HIDE DEF r
  <2>6. k - 1 \notin Bad /\ k - 1 \in Nat
    BY <2>1, <2>4
  <2>7. r \in F
    BY <2>4, <2>6
  <2> QED
    BY <2>2, <2>4, <2>5, <2>7
<1>2. Cardinality(S) \in Nat /\ S \in SUBSET S
  BY FS_CardinalityType
<1> QED
  BY <1>1, <1>2

LEMMA SumAdd ==
  ASSUME NEW w, NEW S, IsFiniteSet(S), \A x \in S : w[x] \in Int,
         NEW T \in SUBSET S, NEW x \in S \ T
  PROVE  /\ SumFunctionOnSet(w, T \cup {x}) = w[x] + SumFunctionOnSet(w, T)
         /\ SumFunctionOnSet(w, T) \in Int
<1>1. IsFiniteSet(T) /\ IsFiniteSet(T \cup {x})
  <2>1. T \cup {x} \in SUBSET S
    OBVIOUS
  <2> QED
    BY <2>1, FS_Subset
<1>2. (T \cup {x}) \ {x} = T /\ x \in T \cup {x} /\ \A y \in T \cup {x} : w[y] \in Int
  OBVIOUS
<1>3. SumFunctionOnSet(w, T \cup {x}) = w[x] + SumFunctionOnSet(w, (T \cup {x}) \ {x})
  BY <1>1, <1>2, SumRemove
<1>4. \A y \in T : w[y] \in Int
  OBVIOUS
<1>5. SumFunctionOnSet(w, T) \in Int
  BY <1>1, <1>4, SumInt
<1> QED
  BY <1>2, <1>3, <1>5

(* A sum is linear and monotone in what is summed. *)
LEMMA SumLinear ==
  ASSUME NEW S, IsFiniteSet(S), NEW u, NEW v, NEW w, NEW a \in Int, NEW b \in Int,
         \A x \in S : v[x] \in Int /\ w[x] \in Int /\ u[x] = a * v[x] + b * w[x]
  PROVE  SumFunctionOnSet(u, S) = a * SumFunctionOnSet(v, S) + b * SumFunctionOnSet(w, S)
<1> DEFINE Holds(T) == SumFunctionOnSet(u, T)
                         = a * SumFunctionOnSet(v, T) + b * SumFunctionOnSet(w, T)
           F == {T \in SUBSET S : Holds(T)}
<1>1. {} \in F
  BY SumEmpty
<1>2. ASSUME NEW T \in SUBSET S, NEW x \in S \ T, T \in F PROVE T \cup {x} \in F
  <2>1. \A y \in S : u[y] \in Int
    OBVIOUS
  <2>2. /\ SumFunctionOnSet(u, T \cup {x}) = u[x] + SumFunctionOnSet(u, T)
        /\ SumFunctionOnSet(u, T) \in Int
    BY <2>1, SumAdd
  <2>3. /\ SumFunctionOnSet(v, T \cup {x}) = v[x] + SumFunctionOnSet(v, T)
        /\ SumFunctionOnSet(v, T) \in Int
    BY SumAdd
  <2>4. /\ SumFunctionOnSet(w, T \cup {x}) = w[x] + SumFunctionOnSet(w, T)
        /\ SumFunctionOnSet(w, T) \in Int
    BY SumAdd
  <2>5. SumFunctionOnSet(u, T) = a * SumFunctionOnSet(v, T) + b * SumFunctionOnSet(w, T)
    BY <1>2
  <2>6. PICK p \in Int : p = SumFunctionOnSet(v, T)
    BY <2>3
  <2>7. PICK q \in Int : q = SumFunctionOnSet(w, T)
    BY <2>4
  <2>8. PICK y \in Int : y = v[x]
    OBVIOUS
  <2>9. PICK z \in Int : z = w[x]
    OBVIOUS
  <2>10. a * (y + p) + b * (z + q) = (a * y + b * z) + (a * p + b * q)
    OBVIOUS
  <2>11. Holds(T \cup {x})
    BY <2>2, <2>3, <2>4, <2>5, <2>6, <2>7, <2>8, <2>9, <2>10
  <2> QED
    BY <2>11
<1> HIDE DEF F
<1>3. S \in F
  BY <1>1, <1>2, SetInduction
<1> QED
  BY <1>3 DEF F

LEMMA SumMonotone ==
  ASSUME NEW S, IsFiniteSet(S), NEW v, NEW w,
         \A x \in S : v[x] \in Int /\ w[x] \in Int /\ v[x] <= w[x]
  PROVE  SumFunctionOnSet(v, S) <= SumFunctionOnSet(w, S)
<1> DEFINE F == {T \in SUBSET S : SumFunctionOnSet(v, T) <= SumFunctionOnSet(w, T)}
<1>1. {} \in F
  BY SumEmpty
<1>2. ASSUME NEW T \in SUBSET S, NEW x \in S \ T, T \in F PROVE T \cup {x} \in F
  <2>1. /\ SumFunctionOnSet(v, T \cup {x}) = v[x] + SumFunctionOnSet(v, T)
        /\ SumFunctionOnSet(v, T) \in Int
    BY SumAdd
  <2>2. /\ SumFunctionOnSet(w, T \cup {x}) = w[x] + SumFunctionOnSet(w, T)
        /\ SumFunctionOnSet(w, T) \in Int
    BY SumAdd
  <2>3. SumFunctionOnSet(v, T) <= SumFunctionOnSet(w, T)
    BY <1>2
  <2>4. SumFunctionOnSet(v, T \cup {x}) <= SumFunctionOnSet(w, T \cup {x})
    BY <2>1, <2>2, <2>3
  <2> QED
    BY <2>4
<1> HIDE DEF F
<1>3. S \in F
  BY <1>1, <1>2, SetInduction
<1> QED
  BY <1>3 DEF F

LEMMA SumConstant ==
  ASSUME NEW S, IsFiniteSet(S), NEW w, NEW k \in Int, \A x \in S : w[x] = k
  PROVE  SumFunctionOnSet(w, S) = k * Cardinality(S)
<1> DEFINE F == {T \in SUBSET S : SumFunctionOnSet(w, T) = k * Cardinality(T)}
<1>1. {} \in F
  BY SumEmpty, FS_EmptySet
<1>2. ASSUME NEW T \in SUBSET S, NEW x \in S \ T, T \in F PROVE T \cup {x} \in F
  <2>1. SumFunctionOnSet(w, T \cup {x}) = w[x] + SumFunctionOnSet(w, T)
    BY SumAdd
  <2>2. IsFiniteSet(T) /\ Cardinality(T) \in Nat
    BY FS_Subset, FS_CardinalityType
  <2>3. Cardinality(T \cup {x}) = Cardinality(T) + 1
    BY <2>2, FS_AddElement
  <2>4. SumFunctionOnSet(w, T) = k * Cardinality(T) /\ w[x] = k
    BY <1>2
  <2>5. SumFunctionOnSet(w, T \cup {x}) = k * Cardinality(T \cup {x})
    BY <2>1, <2>2, <2>3, <2>4
  <2> QED
    BY <2>5
<1> HIDE DEF F
<1>3. S \in F
  BY <1>1, <1>2, SetInduction
<1> QED
  BY <1>3 DEF F

LEMMA SumSame ==
  ASSUME NEW S, IsFiniteSet(S), NEW v, NEW w, \A x \in S : w[x] \in Int /\ v[x] = w[x]
  PROVE  SumFunctionOnSet(v, S) = SumFunctionOnSet(w, S)
<1>1. SumFunctionOnSet(v, S) <= SumFunctionOnSet(w, S)
  BY SumMonotone
<1>2. SumFunctionOnSet(w, S) <= SumFunctionOnSet(v, S)
  BY SumMonotone
<1>3. SumFunctionOnSet(w, S) \in Int /\ SumFunctionOnSet(v, S) \in Int
  BY SumInt
<1> QED
  BY <1>1, <1>2, <1>3

(* One term changes. *)
LEMMA SumChange ==
  ASSUME NEW S, IsFiniteSet(S), NEW v, NEW w, NEW x \in S,
         \A y \in S : v[y] \in Int /\ w[y] \in Int /\ (y # x => v[y] = w[y])
  PROVE  SumFunctionOnSet(v, S) = SumFunctionOnSet(w, S) + (v[x] - w[x])
<1>1. IsFiniteSet(S \ {x})
  BY FS_RemoveElement
<1>2. \A y \in S \ {x} : w[y] \in Int /\ v[y] = w[y]
  OBVIOUS
<1>3. SumFunctionOnSet(v, S \ {x}) = SumFunctionOnSet(w, S \ {x})
  BY <1>1, <1>2, SumSame
<1>4. SumFunctionOnSet(w, S \ {x}) \in Int
  BY <1>1, <1>2, SumInt
<1>5. /\ SumFunctionOnSet(v, S) = v[x] + SumFunctionOnSet(v, S \ {x})
      /\ SumFunctionOnSet(w, S) = w[x] + SumFunctionOnSet(w, S \ {x})
  BY SumRemove
<1> QED
  BY <1>3, <1>4, <1>5

LEMMA SumUnion ==
  ASSUME NEW R, IsFiniteSet(R), NEW S, IsFiniteSet(S), R \cap S = {},
         NEW w, \A x \in R \cup S : w[x] \in Int
  PROVE  SumFunctionOnSet(w, R \cup S) = SumFunctionOnSet(w, R) + SumFunctionOnSet(w, S)
<1> DEFINE F == {T \in SUBSET S : SumFunctionOnSet(w, R \cup T)
                                    = SumFunctionOnSet(w, R) + SumFunctionOnSet(w, T)}
<1>0. IsFiniteSet(R \cup S) /\ SumFunctionOnSet(w, R) \in Int
  BY FS_Union, SumInt
<1>1. {} \in F
  <2>1. R \cup {} = R
    OBVIOUS
  <2> QED
    BY <1>0, <2>1, SumEmpty
<1>2. ASSUME NEW T \in SUBSET S, NEW x \in S \ T, T \in F PROVE T \cup {x} \in F
  <2>1. /\ SumFunctionOnSet(w, T \cup {x}) = w[x] + SumFunctionOnSet(w, T)
        /\ SumFunctionOnSet(w, T) \in Int
    BY SumAdd
  <2>2. /\ (R \cup T) \in SUBSET (R \cup S) /\ x \in (R \cup S) \ (R \cup T)
        /\ R \cup (T \cup {x}) = (R \cup T) \cup {x} /\ w[x] \in Int
    OBVIOUS
  <2>3. SumFunctionOnSet(w, (R \cup T) \cup {x}) = w[x] + SumFunctionOnSet(w, R \cup T)
    <3> DEFINE A == R \cup S
               B == R \cup T
    <3>1. IsFiniteSet(A) /\ (\A y \in A : w[y] \in Int) /\ B \in SUBSET A /\ x \in A \ B
      BY <1>0, <2>2
    <3> HIDE DEF A, B
    <3>2. SumFunctionOnSet(w, B \cup {x}) = w[x] + SumFunctionOnSet(w, B)
      BY <3>1, SumAdd
    <3> QED
      BY <3>2 DEF B
  <2>4. SumFunctionOnSet(w, R \cup T) = SumFunctionOnSet(w, R) + SumFunctionOnSet(w, T)
    BY <1>2
  <2>5. SumFunctionOnSet(w, R \cup (T \cup {x}))
          = SumFunctionOnSet(w, R) + SumFunctionOnSet(w, T \cup {x})
    <3>1. SumFunctionOnSet(w, R \cup (T \cup {x})) = SumFunctionOnSet(w, (R \cup T) \cup {x})
      BY <2>2
    <3>2. PICK n \in Int : n = SumFunctionOnSet(w, R)
      BY <1>0
    <3>3. PICK z \in Int : z = SumFunctionOnSet(w, T)
      BY <2>1
    <3>4. PICK y \in Int : y = w[x]
      BY <2>2
    <3> QED
      BY <2>1, <2>3, <2>4, <3>1, <3>2, <3>3, <3>4
  <2> QED
    BY <2>5
<1> HIDE DEF F
<1>3. S \in F
  BY <1>1, <1>2, SetInduction
<1> QED
  BY <1>3 DEF F

(* What depends on the first of a pair is summed once for each second. *)
LEMMA SumProduct ==
  ASSUME NEW S, IsFiniteSet(S), NEW T, IsFiniteSet(T), NEW g, \A x \in S : g[x] \in Int,
         NEW w, \A p \in S \X T : w[p] = g[p[1]]
  PROVE  SumFunctionOnSet(w, S \X T) = Cardinality(T) * SumFunctionOnSet(g, S)
<1> DEFINE F == {R \in SUBSET S : SumFunctionOnSet(w, R \X T)
                                    = Cardinality(T) * SumFunctionOnSet(g, R)}
<1>0. Cardinality(T) \in Nat
  BY FS_CardinalityType
<1>1. {} \in F
  <2>1. SumFunctionOnSet(w, {} \X T) = SumFunctionOnSet(w, {})
    <3>1. {} \X T = {}
      OBVIOUS
    <3> QED
      BY <3>1, Zenon
  <2>2. SumFunctionOnSet(w, {}) = 0 /\ SumFunctionOnSet(g, {}) = 0
    BY SumEmpty
  <2>3. SumFunctionOnSet(w, {} \X T) = Cardinality(T) * SumFunctionOnSet(g, {})
    BY <1>0, <2>1, <2>2
  <2> QED
    BY <2>3
<1>2. ASSUME NEW R \in SUBSET S, NEW x \in S \ R, R \in F PROVE R \cup {x} \in F
  <2>1. /\ SumFunctionOnSet(g, R \cup {x}) = g[x] + SumFunctionOnSet(g, R)
        /\ SumFunctionOnSet(g, R) \in Int
    BY SumAdd
  <2>2. /\ (R \cup {x}) \X T = (R \X T) \cup ({x} \X T)
        /\ (R \X T) \cap ({x} \X T) = {}
    OBVIOUS
  <2>3. IsFiniteSet(R) /\ IsFiniteSet({x}) /\ Cardinality({x}) = 1
    BY FS_Subset, FS_Singleton
  <2>4. /\ IsFiniteSet(R \X T) /\ IsFiniteSet({x} \X T)
        /\ Cardinality({x} \X T) = 1 * Cardinality(T)
    BY <2>3, FS_Product
  <2>5. \A p \in (R \X T) \cup ({x} \X T) : w[p] \in Int
    OBVIOUS
  <2>6. SumFunctionOnSet(w, (R \X T) \cup ({x} \X T))
          = SumFunctionOnSet(w, R \X T) + SumFunctionOnSet(w, {x} \X T)
    BY <2>2, <2>4, <2>5, SumUnion
  <2>7. SumFunctionOnSet(w, {x} \X T) = g[x] * Cardinality({x} \X T)
    <3>1. g[x] \in Int /\ \A p \in {x} \X T : w[p] = g[x]
      OBVIOUS
    <3> QED
      BY <2>4, <3>1, SumConstant
  <2>8. SumFunctionOnSet(w, R \X T) = Cardinality(T) * SumFunctionOnSet(g, R)
    BY <1>2
  <2>9. PICK n \in Int : n = Cardinality(T)
    BY <1>0
  <2>10. PICK y \in Int : y = g[x]
    OBVIOUS
  <2>11. PICK z \in Int : z = SumFunctionOnSet(g, R)
    BY <2>1
  <2>12. n * z + y * (1 * n) = n * (y + z)
    OBVIOUS
  <2>13. SumFunctionOnSet(w, (R \cup {x}) \X T) = Cardinality(T) * SumFunctionOnSet(g, R \cup {x})
    BY <2>1, <2>2, <2>4, <2>6, <2>7, <2>8, <2>9, <2>10, <2>11, <2>12
  <2> QED
    BY <2>13
<1> HIDE DEF F
<1>3. S \in F
  BY <1>1, <1>2, SetInduction
<1> QED
  BY <1>3 DEF F

(* The sum of natural numbers is one. *)
LEMMA SumNat ==
  ASSUME NEW w, NEW S, IsFiniteSet(S), \A x \in S : w[x] \in Nat
  PROVE  SumFunctionOnSet(w, S) \in Nat
<1> DEFINE zero == [x \in S |-> 0]
<1>1. SumFunctionOnSet(w, S) \in Int
  BY SumInt
<1>2. \A x \in S : zero[x] = 0 /\ zero[x] \in Int /\ w[x] \in Int /\ zero[x] <= w[x]
  OBVIOUS
<1> HIDE DEF zero
<1>3. SumFunctionOnSet(zero, S) = 0 * Cardinality(S)
  BY <1>2, SumConstant
<1>4. SumFunctionOnSet(zero, S) <= SumFunctionOnSet(w, S)
  BY <1>2, SumMonotone
<1>5. Cardinality(S) \in Nat
  BY FS_CardinalityType
<1> QED
  BY <1>1, <1>3, <1>4, <1>5

(* A non-empty finite set has a member with the largest key. *)
LEMMA LargestMember ==
  ASSUME NEW Key, NEW S, IsFiniteSet(S), S # {}, \A x \in S : Key[x] \in Int
  PROVE  \E m \in S : \A x \in S : Key[m] >= Key[x]
<1> DEFINE Above(m) == {x \in S : Key[x] > Key[m]}
           Counts == {Cardinality(Above(m)) : m \in S}
<1>1. ASSUME NEW m \in S PROVE IsFiniteSet(Above(m)) /\ Cardinality(Above(m)) \in Nat
  <2>1. Above(m) \in SUBSET S
    OBVIOUS
  <2> QED
    BY <2>1, FS_Subset, FS_CardinalityType
<1>2. Counts \subseteq Nat /\ Counts # {}
  <2> HIDE DEF Above
  <2> QED
    BY <1>1
<1>3. PICK least \in Counts : \A k \in Counts : least <= k
  BY <1>2, LeastMember
<1>4. PICK m \in S : Cardinality(Above(m)) = least
  OBVIOUS
<1>5. ASSUME NEW x \in S, Key[x] > Key[m] PROVE FALSE
  <2>1. Above(x) \in SUBSET Above(m)
    BY <1>5
  <2>2. x \in Above(m) /\ x \notin Above(x)
    BY <1>5
  <2>3. Above(x) # Above(m)
    BY <2>2
  <2> HIDE DEF Above
  <2>4. Cardinality(Above(x)) < Cardinality(Above(m))
    BY <1>1, <2>1, <2>3, FS_Subset
  <2>5. Cardinality(Above(x)) \in Counts
    OBVIOUS
  <2> QED
    BY <1>1, <1>3, <1>4, <2>4, <2>5
<1> QED
  BY <1>5
=============================================================================
