----------------------------- MODULE BatchCacheProofs -----------------------------
(***************************************************************************)
(* Proofs about BatchCache, for any keys, payloads, sizes of chunks and    *)
(* failures.                                                               *)
(***************************************************************************)
EXTENDS BatchCache, Induction, SequenceTheorems

------------------------------------------------------------------------------
(* Sequences *)

\* The elements of a sequence are those at its indices.
LEMMA ToSetIs ==
  ASSUME NEW X, NEW s \in Seq(X)
  PROVE  /\ Len(s) \in Nat /\ DOMAIN s = 1..Len(s)
         /\ ToSet(s) = {s[i] : i \in 1..Len(s)} /\ ToSet(s) \subseteq X
         /\ \A i \in 1..Len(s) : s[i] \in X
BY LenProperties, ElementOfSeq DEF ToSet

\* The first n elements, or all of fewer.
LEMMA FirstIs ==
  ASSUME NEW X, NEW s \in Seq(X), NEW n \in Nat
  PROVE  /\ First(s, n) \in Seq(X)
         /\ Len(First(s, n)) = IF n < Len(s) THEN n ELSE Len(s)
         /\ \A i \in 1..Len(First(s, n)) : First(s, n)[i] = s[i]
<1> DEFINE m == IF n < Len(s) THEN n ELSE Len(s)
<1>1. Len(s) \in Nat /\ m \in Nat /\ m <= Len(s) /\ First(s, n) = SubSeq(s, 1, m)
  BY LenProperties DEF First
<1>2. \A i \in 1..m : s[i] \in X
  BY <1>1, ToSetIs
<1> HIDE DEF m
<1>3. /\ SubSeq(s, 1, m) \in Seq(X)
      /\ Len(SubSeq(s, 1, m)) = IF 1 <= m THEN m - 1 + 1 ELSE 0
      /\ \A i \in 1..m - 1 + 1 : SubSeq(s, 1, m)[i] = s[1 + i - 1]
  BY <1>1, <1>2, SubSeqProperties
<1>4. m - 1 + 1 = m /\ (1 <= m \/ m = 0) /\ \A i \in 1..m : 1 + i - 1 = i
  BY <1>1
<1>5. /\ First(s, n) \in Seq(X) /\ Len(First(s, n)) = m
      /\ \A i \in 1..m : First(s, n)[i] = s[i]
  BY <1>1, <1>3, <1>4
<1> QED BY <1>5 DEF m

\* What is behind the first n elements, each n places further ahead.
LEMMA WithoutIs ==
  ASSUME NEW X, NEW s \in Seq(X), NEW n \in Nat
  PROVE  /\ Without(s, n) \in Seq(X)
         /\ Len(Without(s, n)) = IF n < Len(s) THEN Len(s) - n ELSE 0
         /\ \A i \in 1..Len(Without(s, n)) : Without(s, n)[i] = s[n + i]
         /\ \A i \in 1..Len(s) : i > n => i - n \in 1..Len(Without(s, n)) /\ Without(s, n)[i - n] = s[i]
<1>1. Len(s) \in Nat /\ Without(s, n) = SubSeq(s, n + 1, Len(s))
  BY LenProperties DEF Without
<1>2. \A i \in n + 1..Len(s) : s[i] \in X
  BY <1>1, ToSetIs
<1>3. /\ SubSeq(s, n + 1, Len(s)) \in Seq(X)
      /\ Len(SubSeq(s, n + 1, Len(s))) = IF n + 1 <= Len(s) THEN Len(s) - (n + 1) + 1 ELSE 0
      /\ \A i \in 1..Len(s) - (n + 1) + 1 : SubSeq(s, n + 1, Len(s))[i] = s[n + 1 + i - 1]
  BY <1>1, <1>2, SubSeqProperties
<1> DEFINE w == Without(s, n)
<1>4. /\ w \in Seq(X)
      /\ Len(w) = IF n + 1 <= Len(s) THEN Len(s) - (n + 1) + 1 ELSE 0
      /\ \A i \in 1..Len(s) - (n + 1) + 1 : w[i] = s[n + 1 + i - 1]
  BY <1>1, <1>3
<1> HIDE DEF w
<1>5. Len(w) = IF n < Len(s) THEN Len(s) - n ELSE 0
  BY <1>1, <1>4
<1>6. ASSUME NEW i \in 1..Len(w) PROVE w[i] = s[n + i]
  <2>1. i \in 1..Len(s) - (n + 1) + 1 /\ n + 1 + i - 1 = n + i
    BY <1>1, <1>5
  <2>2. w[i] = s[n + 1 + i - 1]
    BY <1>4, <2>1
  <2> QED BY <2>1, <2>2
<1>7. ASSUME NEW i \in 1..Len(s), i > n PROVE i - n \in 1..Len(w) /\ w[i - n] = s[i]
  <2>1. i - n \in 1..Len(w) /\ n + (i - n) = i
    BY <1>1, <1>5, <1>7
  <2>2. w[i - n] = s[n + (i - n)]
    BY <1>6, <2>1
  <2> QED BY <2>1, <2>2
<1> QED BY <1>4, <1>5, <1>6, <1>7 DEF w

\* What is in a sequence is among the first n elements or behind them.
LEMMA Parts ==
  ASSUME NEW X, NEW s \in Seq(X), NEW n \in Nat
  PROVE  /\ First(s, n) \in Seq(X) /\ Without(s, n) \in Seq(X)
         /\ ToSet(First(s, n)) \subseteq ToSet(s) /\ ToSet(Without(s, n)) \subseteq ToSet(s)
         /\ ToSet(s) \subseteq ToSet(First(s, n)) \cup ToSet(Without(s, n))
<1>1. /\ First(s, n) \in Seq(X) /\ Without(s, n) \in Seq(X) /\ Len(s) \in Nat
      /\ Len(First(s, n)) \in 0..Len(s)
      /\ Len(First(s, n)) = IF n < Len(s) THEN n ELSE Len(s)
      /\ \A i \in 1..Len(First(s, n)) : First(s, n)[i] = s[i]
  BY FirstIs, WithoutIs, LenProperties
<1>2. /\ Len(Without(s, n)) = IF n < Len(s) THEN Len(s) - n ELSE 0
      /\ \A i \in 1..Len(Without(s, n)) : Without(s, n)[i] = s[n + i]
      /\ \A i \in 1..Len(s) : i > n => i - n \in 1..Len(Without(s, n)) /\ Without(s, n)[i - n] = s[i]
  BY WithoutIs
<1>3. /\ ToSet(s) = {s[i] : i \in 1..Len(s)}
      /\ ToSet(First(s, n)) = {First(s, n)[i] : i \in 1..Len(First(s, n))}
      /\ ToSet(Without(s, n)) = {Without(s, n)[i] : i \in 1..Len(Without(s, n))}
  BY <1>1, ToSetIs
<1>4. ToSet(First(s, n)) \subseteq ToSet(s)
  BY <1>1, <1>3
<1>5. ASSUME NEW i \in 1..Len(Without(s, n)) PROVE Without(s, n)[i] \in ToSet(s)
  <2>1. n + i \in 1..Len(s)
    BY <1>1, <1>2
  <2> QED BY <1>2, <1>3, <2>1
<1>6. ASSUME NEW i \in 1..Len(s) PROVE s[i] \in ToSet(First(s, n)) \cup ToSet(Without(s, n))
  <2>1. CASE i > n
    BY <1>2, <1>3, <2>1
  <2>2. CASE ~(i > n)
    <3>1. i \in 1..Len(First(s, n)) /\ First(s, n)[i] = s[i]
      BY <1>1, <2>2
    <3> QED BY <1>3, <3>1
  <2> QED BY <2>1, <2>2
<1> QED BY <1>1, <1>3, <1>4, <1>5, <1>6

\* Those(s, S) has the elements of s that are in S, and no others.
LEMMA ThoseAre ==
  ASSUME NEW X, NEW s \in Seq(X), NEW S
  PROVE  Those(s, S) \in Seq(X) /\ ToSet(Those(s, S)) = ToSet(s) \cap S
<1> DEFINE last(m) == IF s[m] \in S THEN <<s[m]>> ELSE <<>>
           step(g, m) == IF m = 0 THEN <<>> ELSE g[m - 1] \o last(m)
           upto(m) == {s[i] : i \in 1..m} \cap S
           Fits(g, n) == /\ g \in [0..n -> Seq(X)]
                         /\ \A m \in 0..n : g[m] = step(g, m) /\ ToSet(g[m]) = upto(m)
<1>0. Len(s) \in Nat /\ \A i \in 1..Len(s) : s[i] \in X
  BY ToSetIs
<1>1. ASSUME NEW m \in 1..Len(s), NEW t \in Seq(X), ToSet(t) = upto(m - 1)
      PROVE  t \o last(m) \in Seq(X) /\ ToSet(t \o last(m)) = upto(m)
  <2>1. s[m] \in X /\ 1..m = 1..m - 1 \cup {m}
    BY <1>0
  <2>2. last(m) \in Seq(X) /\ ToSet(last(m)) = {s[m]} \cap S
    <3>1. CASE s[m] \in S
      <4>1. <<s[m]>> \in Seq(X) /\ Len(<<s[m]>>) = 1 /\ <<s[m]>>[1] = s[m]
        BY <2>1
      <4>2. ToSet(<<s[m]>>) = {s[m]}
        <5>1. ToSet(<<s[m]>>) = {<<s[m]>>[i] : i \in 1..1}
          BY <4>1, ToSetIs
        <5>2. 1..1 = {1}
          OBVIOUS
        <5> QED BY <4>1, <5>1, <5>2
      <4> QED BY <3>1, <4>1, <4>2
    <3>2. CASE s[m] \notin S
      BY <3>2, EmptySeq DEF ToSet
    <3> QED BY <3>1, <3>2
  <2> HIDE DEF last
  <2>3. t \o last(m) \in Seq(X)
    BY <2>2, ConcatProperties
  <2>4. ToSet(t \o last(m)) = ToSet(t) \cup ToSet(last(m))
    <3>1. Range(t \o last(m)) = Range(t) \cup Range(last(m))
      BY <2>2, RangeConcatenation
    <3> QED BY <3>1 DEF Range, ToSet
  <2> QED BY <1>1, <2>1, <2>2, <2>3, <2>4
<1> HIDE DEF last
<1>s. ASSUME NEW g, NEW v, NEW n \in Nat, v = step(g, n + 1)
      PROVE  v = g[n] \o last(n + 1)
  <2>1. PICK k : k = n + 1
    OBVIOUS
  <2>2. k # 0 /\ k - 1 = n
    BY <2>1
  <2>3. step(g, k) = g[k - 1] \o last(k)
    BY <2>2
  <2> HIDE DEF step
  <2> QED BY <1>s, <2>1, <2>2, <2>3
<1> DEFINE N == {n \in Nat : n <= Len(s) => \E g : Fits(g, n)}
<1>2. 0 \in N
  <2>1. 0..0 = {0}
    OBVIOUS
  <2>2. Fits([m \in 0..0 |-> <<>>], 0)
    BY <2>1, EmptySeq DEF ToSet
  <2> HIDE DEF Fits
  <2> QED BY <2>2
<1>3. ASSUME NEW n \in N PROVE n + 1 \in N
  <2> HIDE DEF Fits
  <2> SUFFICES ASSUME n + 1 <= Len(s) PROVE \E g : Fits(g, n + 1)
    OBVIOUS
  <2> USE DEF Fits
  <2>0. n \in Nat /\ n <= Len(s) /\ n + 1 \in 1..Len(s) /\ n \in 0..n /\ n + 1 - 1 = n
    BY <1>0
  <2>1. PICK g : Fits(g, n)
    BY <2>0
  <2> DEFINE h == [m \in 0..n + 1 |-> IF m = n + 1 THEN g[n] \o last(n + 1) ELSE g[m]]
  <2>2. /\ g[n] \o last(n + 1) \in Seq(X) /\ ToSet(g[n] \o last(n + 1)) = upto(n + 1)
    <3>1. g[n] \in Seq(X) /\ ToSet(g[n]) = upto(n + 1 - 1)
      BY <2>0, <2>1
    <3> HIDE DEF upto
    <3> QED BY <1>1, <2>0, <3>1
  <2>3. 0..n + 1 = 0..n \cup {n + 1} /\ n + 1 \notin 0..n
    BY <2>0
  <2>4. h \in [0..n + 1 -> Seq(X)]
    BY <2>1, <2>2, <2>3
  <2>5. /\ h[n + 1] = g[n] \o last(n + 1)
        /\ \A m \in 0..n : h[m] = g[m]
    BY <2>3
  <2> HIDE DEF h
  <2>6. h[n + 1] = step(h, n + 1) /\ ToSet(h[n + 1]) = upto(n + 1)
    <3> HIDE DEF step, upto
    <3>1. PICK v : v = step(h, n + 1)
      OBVIOUS
    <3>2. v = h[n] \o last(n + 1)
      BY <1>s, <2>0, <3>1
    <3> QED BY <2>0, <2>2, <2>5, <3>1, <3>2
  <2>7. ASSUME NEW m \in 0..n PROVE h[m] = step(h, m) /\ ToSet(h[m]) = upto(m)
    <3>1. g[m] = step(g, m) /\ ToSet(g[m]) = upto(m)
      BY <2>1
    <3>2. m = 0 \/ (m # 0 /\ m - 1 \in 0..n)
      BY <2>0
    <3> QED BY <2>5, <3>1, <3>2
  <2>8. Fits(h, n + 1)
    BY <2>3, <2>4, <2>6, <2>7
  <2> HIDE DEF Fits
  <2> QED BY <2>8
<1>4. PICK g : Fits(g, Len(s))
  <2> HIDE DEF Fits
  <2>1. N \subseteq Nat
    OBVIOUS
  <2>2. N = Nat
    <3> HIDE DEF N
    <3> QED BY <1>2, <1>3, <2>1, AllNumbers
  <2> QED BY <1>0, <2>2
<1> DEFINE Solves(f) == f = [n \in 0..Len(s) |-> step(f, n)]
           those == CHOOSE f : Solves(f)
<1>5. Those(s, S) = those[Len(s)]
  BY DEF Those, last
<1>6. Solves(g)
  <2>1. g = [n \in 0..Len(s) |-> g[n]] /\ \A n \in 0..Len(s) : g[n] = step(g, n)
    BY <1>4
  <2> HIDE DEF step
  <2> QED BY <2>1
<1>7. Solves(those)
  <2> HIDE DEF Solves
  <2> QED BY <1>6
<1>8. \A n \in 0..Len(s) : those[n] = step(those, n)
  <2> HIDE DEF those, step
  <2> QED BY <1>7
<1> HIDE DEF those
<1> DEFINE M == {n \in Nat : n <= Len(s) => those[n] = g[n]}
<1>9. 0 \in M
  BY <1>0, <1>4, <1>8
<1>10. ASSUME NEW n \in M PROVE n + 1 \in M
  <2> SUFFICES ASSUME n + 1 <= Len(s) PROVE those[n + 1] = g[n + 1]
    OBVIOUS
  <2>1. n + 1 \in 0..Len(s) /\ n <= Len(s) /\ n + 1 # 0 /\ n + 1 - 1 = n
    BY <1>0
  <2>2. those[n] = g[n]
    BY <2>1
  <2>3. those[n + 1] = those[n] \o last(n + 1)
    <3> HIDE DEF step
    <3>1. those[n + 1] = step(those, n + 1)
      BY <1>8, <2>1
    <3> QED BY <1>s, <2>1, <3>1
  <2>4. g[n + 1] = g[n] \o last(n + 1)
    <3>1. g[n + 1] = step(g, n + 1)
      BY <1>4, <2>1
    <3> HIDE DEF step
    <3> QED BY <1>s, <2>1, <3>1
  <2> QED BY <2>1, <2>2, <2>3, <2>4
<1>11. M = Nat
  <2>1. M \subseteq Nat
    OBVIOUS
  <2> HIDE DEF M
  <2> QED BY <1>9, <1>10, <2>1, AllNumbers
<1>12. those[Len(s)] = g[Len(s)]
  BY <1>0, <1>11
<1>13. g[Len(s)] \in Seq(X) /\ ToSet(g[Len(s)]) = upto(Len(s))
  BY <1>0, <1>4
<1> QED BY <1>5, <1>12, <1>13, ToSetIs

\* A sequence has finitely many elements.
LEMMA FiniteRange ==
  ASSUME NEW X, NEW s \in Seq(X)
  PROVE  IsFiniteSet(ToSet(s))
<1>1. Len(s) \in Nat /\ DOMAIN s = 1..Len(s) /\ ToSet(s) = {s[i] : i \in 1..Len(s)}
  BY ToSetIs
<1>2. [i \in 1..Len(s) |-> s[i]] \in Surjection(1..Len(s), ToSet(s))
  BY <1>1 DEF Surjection
<1>3. IsFiniteSet(1..Len(s))
  BY <1>1, FS_Interval
<1> QED BY <1>2, <1>3, FS_Surjection

\* SetToSeq() lists a finite set.
LEMMA SetToSeqIs ==
  ASSUME NEW S, IsFiniteSet(S)
  PROVE  SetToSeq(S) \in Seq(S) /\ ToSet(SetToSeq(S)) = S
<1>1. PICK f : f \in Bijection(1..Cardinality(S), S)
  BY FS_CardinalityType DEF ExistsBijection
<1>2. Cardinality(S) \in Nat
  BY FS_CardinalityType
<1>3. f \in [1..Cardinality(S) -> S] /\ IsInjective(f)
  BY <1>1 DEF Bijection, Injection, IsInjective
<1>4. SetToSeq(S) \in [1..Cardinality(S) -> S] /\ IsInjective(SetToSeq(S))
  BY <1>3 DEF SetToSeq
<1> DEFINE f2 == SetToSeq(S)
           n == Cardinality(S)
<1>5. f2 \in Injection(1..n, S)
  BY <1>4 DEF Injection, IsInjective
<1>6. IsFiniteSet(1..n) /\ Cardinality(1..n) = n
  BY <1>2, FS_Interval
<1>7. f2 \in Surjection(1..n, S)
  <2> HIDE DEF f2, n
  <2>1. S = S
    OBVIOUS
  <2> QED BY <1>5, <1>6, FS_Injection DEF n
<1>8. f2 \in [1..n -> S] /\ \A x \in S : \E i \in 1..n : f2[i] = x
  BY <1>7 DEF Surjection
<1> QED BY <1>2, <1>8 DEF ToSet

------------------------------------------------------------------------------
(* Answers in a row *)

\* There are n numbers from 1 to n.
LEMMA Upto ==
  ASSUME NEW n \in Nat
  PROVE  IsFiniteSet(1..n) /\ Cardinality(1..n) = n
<1>1. /\ IsFiniteSet(1..n)
      /\ Cardinality(1..n) = IF 1 > n THEN 0 ELSE n - 1 + 1
  BY FS_Interval
<1>2. (IF 1 > n THEN 0 ELSE n - 1 + 1) = n
  OBVIOUS
<1> QED BY <1>1, <1>2

\* The place of a number among those of a set.
Rank(S, x) == Cardinality({m \in S : m <= x})

\* A set of n numbers has an i-th smallest for every i up to n, by induction on a bound of the set.
LEMMA Ranked ==
  ASSUME NEW bound \in Nat, NEW S \in SUBSET (1..bound)
  PROVE  \A i \in 1..Cardinality(S) : \E x \in S : Rank(S, x) = i
<1> DEFINE T == {b \in Nat : \A R \in SUBSET (1..b) :
                   \A i \in 1..Cardinality(R) : \E x \in R : Rank(R, x) = i}
<1>1. 0 \in T
  <2> SUFFICES ASSUME NEW R \in SUBSET (1..0) PROVE 1..Cardinality(R) = {}
    OBVIOUS
  <2>1. R = {}
    OBVIOUS
  <2> QED BY <2>1, FS_EmptySet
<1>2. ASSUME NEW b \in T PROVE b + 1 \in T
  <2> SUFFICES ASSUME NEW R \in SUBSET (1..b + 1), NEW i \in 1..Cardinality(R)
               PROVE  \E x \in R : Rank(R, x) = i
    OBVIOUS
  <2> DEFINE Q == R \ {b + 1}
  <2>1. Q \in SUBSET (1..b) /\ b \in Nat
    OBVIOUS
  <2>2. IsFiniteSet(R) /\ IsFiniteSet(Q) /\ Cardinality(R) \in Nat
    <3>1. IsFiniteSet(1..b + 1) /\ R \subseteq 1..b + 1 /\ Q \subseteq R
      BY <2>1, Upto
    <3> HIDE DEF Q
    <3> QED BY <3>1, FS_Subset, FS_CardinalityType
  <2>3. \A j \in 1..Cardinality(Q) : \E x \in Q : Rank(Q, x) = j
    BY <2>1
  <2>4. \A x \in Q : Rank(R, x) = Rank(Q, x)
    <3> SUFFICES ASSUME NEW x \in Q PROVE {m \in R : m <= x} = {m \in Q : m <= x}
      BY DEF Rank
    <3> QED BY <2>1
  <2>5. CASE b + 1 \notin R
    <3>1. Q = R
      BY <2>5
    <3> QED BY <2>3, <3>1
  <2>6. CASE b + 1 \in R
    <3>1. Cardinality(Q) = Cardinality(R) - 1
      BY <2>2, <2>6, FS_RemoveElement
    <3>2. CASE i = Cardinality(R)
      <4>1. {m \in R : m <= b + 1} = R
        <5>1. \A m \in R : m <= b + 1
          BY <2>1
        <5> QED BY <5>1
      <4> QED BY <2>6, <3>2, <4>1 DEF Rank
    <3>3. CASE i # Cardinality(R)
      <4>1. i \in 1..Cardinality(Q)
        BY <2>2, <3>1, <3>3
      <4> QED BY <2>3, <2>4, <4>1
    <3> QED BY <3>2, <3>3
  <2> QED BY <2>5, <2>6
<1>3. T = Nat
  <2> HIDE DEF T
  <2>1. T \subseteq Nat
    BY DEF T
  <2> QED BY <1>1, <1>2, <2>1, AllNumbers
<1> QED BY <1>3

\* The i-th smallest of a set that holds all numbers up to i is i.
LEMMA NthOfAll ==
  ASSUME NEW bound \in Nat, NEW S \in SUBSET (1..bound), NEW i \in 1..bound, 1..i \subseteq S
  PROVE  Nth(S, i) = i
<1>1. i \in S /\ Cardinality({m \in S : m <= i}) = i
  <2>1. i \in Nat /\ i \in 1..i
    OBVIOUS
  <2>2. \A m \in S : m <= i <=> m \in 1..i
    OBVIOUS
  <2>3. {m \in S : m <= i} = 1..i
    BY <2>2
  <2>4. Cardinality(1..i) = i
    BY <2>1, Upto
  <2> QED BY <2>1, <2>3, <2>4
<1>2. ASSUME NEW n \in S, Cardinality({m \in S : m <= n}) = i PROVE n = i
  <2> DEFINE R == {m \in S : m <= n}
  <2>1. IsFiniteSet(1..i) /\ Cardinality(1..i) = i /\ IsFiniteSet(1..n) /\ Cardinality(1..n) = n
    BY Upto
  <2>2. R \subseteq 1..n
    <3>1. \A m \in S : m <= n => m \in 1..n
      OBVIOUS
    <3> QED BY <3>1
  <2>3. IsFiniteSet(R) /\ Cardinality(R) <= n
    BY <2>1, <2>2, FS_Subset
  <2>4. CASE i < n
    <3>1. (1..i) \cup {n} \subseteq R /\ n \notin 1..i
      BY <2>4
    <3>2. IsFiniteSet((1..i) \cup {n}) /\ Cardinality((1..i) \cup {n}) = i + 1
      BY <2>1, <3>1, FS_AddElement
    <3>3. i + 1 <= Cardinality(R)
      <4> HIDE DEF R
      <4> QED BY <2>3, <3>1, <3>2, FS_Subset
    <3> QED BY <1>2, <3>3
  <2>5. CASE ~(i < n)
    <3>1. i <= n
      BY <1>2, <2>3
    <3> QED BY <2>5, <3>1
  <2> QED BY <2>4, <2>5
<1> QED BY <1>1, <1>2 DEF Nth

\* What Redis answers for a key.
HeldFor(k) == IF redis[k] = None THEN Null ELSE redis[k]

\* A later key is asked for by a later MGET, or the same.
LEMMA LaterMget ==
  ASSUME BatchAssumption, NEW i \in Nat, NEW j \in Nat, i <= j, 1 <= i
  PROVE  MgetOf(i) \in 1..MgetOf(j) /\ MgetOf(i) \in Nat /\ MgetOf(j) \in Nat
<1> DEFINE L == MgetLimit
<1>1. L \in Nat /\ L # 0
  BY DEF BatchAssumption
<1> HIDE DEF L
<1>2. (i - 1) \div L \in Nat /\ (j - 1) \div L \in Nat /\ (i - 1) \div L <= (j - 1) \div L
  BY <1>1
<1> QED BY <1>2 DEF MgetOf, L

\* What batchGetManyRemote() answers: the answer at a place is that for the key there, unless an
\* answered MGET follows a failed one; with no failure all places are answered.
LEMMA ManyRemoteIs ==
  ASSUME BatchAssumption, NEW keys \in Seq(Keys), NEW failed \in SUBSET Mgets(keys)
  PROVE  LET values == ManyRemote(keys, failed)
         IN /\ \E n \in 0..Len(keys) : DOMAIN values = 1..n
            /\ failed = {} => DOMAIN values = 1..Len(keys)
            /\ \A i \in DOMAIN values : \E k \in Keys : values[i] = HeldFor(k)
            /\ \A i \in DOMAIN values :
                 keys[i] \notin Shifted(keys, failed) => values[i] = HeldFor(keys[i])
<1> DEFINE places == Places(keys, failed)
           values == ManyRemote(keys, failed)
           n == Cardinality(places)
<1>1. Len(keys) \in Nat /\ DOMAIN keys = 1..Len(keys) /\ \A i \in 1..Len(keys) : keys[i] \in Keys
  BY ToSetIs
<1>2. places \in SUBSET (1..Len(keys))
  BY <1>1 DEF Places
<1>3. IsFiniteSet(places) /\ n \in 0..Len(keys)
  <2>1. IsFiniteSet(1..Len(keys)) /\ Cardinality(1..Len(keys)) = Len(keys)
    BY <1>1, Upto
  <2> HIDE DEF places
  <2>2. IsFiniteSet(places) /\ Cardinality(places) <= Len(keys)
    <3> DEFINE all == 1..Len(keys)
    <3>1. IsFiniteSet(all) /\ places \in SUBSET all /\ Cardinality(all) = Len(keys)
      BY <1>2, <2>1
    <3> HIDE DEF all
    <3>2. Cardinality(places) <= Cardinality(all)
      BY <3>1, FS_Subset
    <3> QED BY <3>1, <3>2, FS_Subset
  <2>3. Cardinality(places) \in Nat
    BY <2>2, FS_CardinalityType
  <2> QED BY <1>1, <2>2, <2>3
<1>4. values = [i \in 1..n |-> HeldFor([m \in 1..n |-> keys[Nth(places, m)]][i])]
  BY DEF ManyRemote, Mget, HeldFor
<1> HIDE DEF values, n
<1>5. DOMAIN values = 1..n /\ \A i \in 1..n : values[i] = HeldFor(keys[Nth(places, i)])
  BY <1>4
<1>6. failed = {} => n = Len(keys)
  <2>1. failed = {} => places = 1..Len(keys)
    BY <1>1 DEF Places
  <2> HIDE DEF places
  <2> QED BY <1>1, <2>1, Upto DEF n
<1> HIDE DEF places
<1>7. ASSUME NEW i \in 1..n PROVE Nth(places, i) \in 1..Len(keys)
  <2>1. \E x \in places : Cardinality({m \in places : m <= x}) = i
    <3>1. i \in 1..Cardinality(places)
      BY DEF n
    <3>2. \A m \in 1..Cardinality(places) : \E x \in places : Rank(places, x) = m
      BY <1>1, <1>2, Ranked
    <3> QED BY <3>1, <3>2 DEF Rank
  <2>2. Nth(places, i) \in places
    BY <2>1 DEF Nth
  <2> QED BY <1>2, <2>2
<1>8. ASSUME NEW i \in 1..n, keys[i] \notin Shifted(keys, failed) PROVE Nth(places, i) = i
  <2>1. i \in 1..Len(keys) /\ n \in Nat /\ Len(keys) \in Nat
    BY <1>1, <1>3
  <2>2. ~\E p \in failed, q \in Mgets(keys) \ failed : p <= MgetOf(i) /\ p < q
    BY <1>1, <1>8, <2>1 DEF Shifted
  <2>3. \A a \in 1..Len(keys) : MgetOf(a) \in Mgets(keys) /\ MgetOf(a) \in Nat
    BY <1>1, LaterMget DEF Mgets
  <2>4. failed \subseteq Nat
    <3>1. Mgets(keys) \subseteq Nat
      BY DEF Mgets
    <3> QED BY <3>1
  <2>5. CASE \E p \in failed : p <= MgetOf(i)
    <3>1. PICK p \in failed : p <= MgetOf(i)
      BY <2>5
    <3>2. ASSUME NEW a \in places PROVE a \in 1..i - 1
      <4>1. a \in 1..Len(keys) /\ MgetOf(a) \in Mgets(keys) \ failed
        BY <1>1, <1>2, <2>3 DEF places, Places
      <4>2. ~(p < MgetOf(a)) /\ MgetOf(a) # p
        BY <2>2, <3>1, <4>1
      <4>3. MgetOf(a) < MgetOf(i)
        BY <2>1, <2>3, <2>4, <3>1, <4>1, <4>2
      <4>4. ~(i <= a)
        <5> SUFFICES ASSUME i <= a PROVE FALSE
          OBVIOUS
        <5>1. MgetOf(i) \in 1..MgetOf(a) /\ MgetOf(a) \in Nat
          BY <2>1, <4>1, LaterMget
        <5> QED BY <4>3, <5>1
      <4> QED BY <2>1, <4>1, <4>4
    <3>3. IsFiniteSet(1..i - 1) /\ Cardinality(1..i - 1) = i - 1
      <4>1. i - 1 \in Nat
        BY <2>1
      <4> QED BY <4>1, Upto
    <3>4. n <= i - 1
      BY <3>2, <3>3, FS_Subset DEF n
    <3> QED BY <2>1, <3>4
  <2>6. CASE \A p \in failed : ~(p <= MgetOf(i))
    <3>1. ASSUME NEW m \in 1..i PROVE m \in places
      <4>1. m \in 1..Len(keys) /\ MgetOf(m) \in 1..MgetOf(i)
        BY <2>1, LaterMget
      <4>2. MgetOf(m) \notin failed
        BY <2>6, <4>1
      <4> QED BY <1>1, <4>1, <4>2 DEF places, Places
    <3> QED BY <1>1, <1>2, <2>1, <3>1, NthOfAll
  <2> QED BY <2>5, <2>6
<1> QED BY <1>1, <1>3, <1>5, <1>6, <1>7, <1>8 DEF values

\* What it answers for at most MgetLimit keys: one MGET's answers, or none.
LEMMA OneMget ==
  ASSUME BatchAssumption, NEW keys \in Seq(Keys), Len(keys) <= MgetLimit, NEW S \in SUBSET {1}
  PROVE  LET values == ManyRemote(keys, S)
             held == [i \in 1..Len(keys) |-> HeldFor(keys[i])]
         IN IF 1 \in S THEN values = <<>> ELSE values = held
<1> DEFINE n == Len(keys)
<1>1. n \in Nat /\ DOMAIN keys = 1..n /\ MgetLimit \in Nat /\ MgetLimit # 0
  BY LenProperties DEF BatchAssumption
<1>2. ASSUME NEW i \in 1..n PROVE MgetOf(i) = 1
  <2>1. i - 1 \in 0..MgetLimit - 1
    BY <1>1
  <2>2. (i - 1) \div MgetLimit = 0
    BY <1>1, <2>1
  <2> QED BY <2>2 DEF MgetOf
<1>3. CASE 1 \in S
  <2>1. Places(keys, S) = {}
    BY <1>1, <1>2, <1>3 DEF Places
  <2>2. Cardinality(Places(keys, S)) = 0
    BY <2>1, FS_EmptySet
  <2>3. ManyRemote(keys, S) = <<>>
    BY <2>2 DEF ManyRemote, Mget
  <2> QED BY <1>3, <2>3
<1>4. CASE S = {}
  <2>1. {} \in SUBSET Mgets(keys) /\ Shifted(keys, {}) = {}
    BY DEF Shifted
  <2> DEFINE values == ManyRemote(keys, {})
  <2>2. DOMAIN values = 1..n /\ \A i \in 1..n : values[i] = HeldFor(keys[i])
    <3>1. DOMAIN values = 1..n
      BY <2>1, ManyRemoteIs
    <3> QED BY <2>1, <3>1, ManyRemoteIs
  <2>3. values = [i \in 1..n |-> HeldFor(keys[i])]
    <3>1. values = [i \in DOMAIN values |-> values[i]]
      BY DEF ManyRemote, Mget
    <3> HIDE DEF values
    <3> QED BY <2>2, <3>1
  <2> QED BY <1>4, <2>3
<1> QED BY <1>3, <1>4

------------------------------------------------------------------------------
(* The job *)

Steps == {"begin", "done", "handle", "store", "redis", "getter", "save"}

JobSet ==
  [op : BatchCalls \cup {"none"}, step : Steps, payload : Seq(Keys), rest : Seq(Keys),
   chunk : Seq(Keys), remaining : Seq(Keys), found : SUBSET Keys, fresh : SUBSET Keys,
   size : Nat \ {0}, skip : BOOLEAN, tries : 0..MaxTries - 1, clean : BOOLEAN]

JobOK ==
  /\ job \in JobSet
  /\ IsFiniteSet(job.found) /\ IsFiniteSet(job.fresh)
  /\ job.step \in {"redis", "getter", "save"} => job.op = "batchApply"
  /\ job.step \in {"handle", "store"} => job.op = "batchProcess"
  /\ job.step \in {"getter", "save"} \/ job.fresh = {}

\* The job of no call has the type of a job.
LEMMA IdleIs ==
  ASSUME BatchAssumption
  PROVE  /\ Idle \in JobSet /\ IsFiniteSet(Idle.found) /\ IsFiniteSet(Idle.fresh)
         /\ Idle.step = "done" /\ Idle.tries = 0 /\ Idle.size = 1 /\ Idle.skip = FALSE
<1>1. <<>> \in Seq(Keys) /\ 1 \in Nat \ {0} /\ 0 \in 0..MaxTries - 1
  BY EmptySeq DEF BatchAssumption
<1>2. Idle \in JobSet
  BY <1>1 DEF Idle, JobSet, Steps
<1> QED BY <1>2, FS_EmptySet DEF Idle

\* However a call ends, the job is over, with the operation and payload it had.
LEMMA EndsOK ==
  ASSUME BatchAssumption, JobOK, NEW clean \in BOOLEAN, Ends(clean)
  PROVE  /\ JobOK' /\ job'.step = "done" /\ job'.op = job.op /\ job'.payload = job.payload
         /\ job'.clean = clean /\ job'.fresh = {}
<1> DEFINE j == [Idle EXCEPT !.op = job.op, !.payload = job.payload, !.clean = clean]
<1>1. job.op \in BatchCalls \cup {"none"} /\ job.payload \in Seq(Keys)
  BY DEF JobOK, JobSet
<1>2. j \in JobSet /\ j.step = "done" /\ j.found = {} /\ j.fresh = {} /\ j.op = job.op
      /\ j.payload = job.payload /\ j.clean = clean
  BY <1>1, IdleIs DEF JobSet, Idle
<1>3. job' = j
  BY DEF Ends
<1> HIDE DEF j
<1> QED BY <1>2, <1>3, FS_EmptySet DEF JobOK

\* The values an entry or an answer for k may hold.
MayHold(k) == IF k \in mixed THEN Values \cup {None} ELSE {None, Own(k)}

\* The types of the caches and of what the caller gets, and no value but a key's own where it
\* cannot have been mixed up; what the getter found, which is all that batchGet() writes to Redis,
\* is the keys' own.
OwnInv ==
  /\ memory \in [Keys -> Values \cup {None}]
  /\ redis \in [Keys -> Values \cup {None}]
  /\ answer \in [Keys -> Values \cup {None, Undefined}]
  /\ mixed \subseteq Keys
  /\ OwnValues
  /\ job.step \in {"redis", "getter", "save"} => /\ \A k \in Keys : answer[k] \in MayHold(k)
                                                 /\ \A k \in job.fresh : answer[k] = Own(k)
  /\ job.step = "save" => ToSet(job.rest) \subseteq job.fresh

\* A value that belongs to a key is a value.
LEMMA OwnIs ==
  ASSUME BatchAssumption
  PROVE  \A k \in Keys : /\ Own(k) \in Values /\ Own(k) \notin {None, Undefined}
                         /\ k \notin {None, Null, Undefined}
BY DEF BatchAssumption, Own, Values

\* At first there are no values at all.
LEMMA OwnInit ==
  ASSUME BatchAssumption, BatchInit
  PROVE  JobOK /\ OwnInv
BY IdleIs, OwnIs DEF BatchInit, JobOK, OwnInv, OwnValues, Idle

\* An entry that comes holds its own value; one that goes leaves none.
LEMMA ComeOwn ==
  ASSUME BatchAssumption, JobOK, OwnInv, NEW k \in Keys, Come(k) \/ Go(k)
  PROVE  JobOK' /\ OwnInv'
<1>1. UNCHANGED <<job, answer, mixed>>
  BY DEF Come, Go
<1>2. JobOK'
  BY <1>1 DEF JobOK
<1>3. memory' \in [Keys -> Values \cup {None}] /\ \A x \in Keys : memory'[x] \in MayHold(x)
  <2>1. \A x \in Keys : memory'[x] = memory[x] \/ memory'[x] = None
    BY DEF Come, Go, OwnInv
  <2>2. memory' \in [Keys -> Values \cup {None}]
    BY DEF Come, Go, OwnInv
  <2> QED BY <2>1, <2>2 DEF OwnInv, OwnValues, MayHold
<1>4. redis' \in [Keys -> Values \cup {None}] /\ \A x \in Keys : redis'[x] \in {None, Own(x)}
  BY OwnIs DEF Come, Go, OwnInv, OwnValues, RemoveRemote
<1> QED BY <1>1, <1>2, <1>3, <1>4 DEF OwnInv, OwnValues, MayHold

\* A call begins with nothing answered.
LEMMA BeginOwn ==
  ASSUME BatchAssumption, JobOK, OwnInv, NEW op \in BatchCalls, Begin(op)
  PROVE  JobOK' /\ OwnInv'
<1>1. PICK p \in Payloads, n \in IF op = "batchApply" THEN ChunkSizes ELSE {Idle.size},
           s \in IF op = "batchProcess" THEN BOOLEAN ELSE {Idle.skip} :
         job' = [Idle EXCEPT !.op = op, !.step = "begin", !.payload = p, !.rest = p,
                             !.size = n, !.skip = s]
  BY DEF Begin
<1>2. p \in Seq(Keys) /\ n \in Nat \ {0} /\ s \in BOOLEAN
  <2>1. p \in Seq(Keys)
    BY DEF BatchAssumption
  <2>2. n \in ChunkSizes \/ n = 1
    BY IdleIs
  <2>3. ChunkSizes \subseteq Nat \ {0} /\ 1 \in Nat \ {0}
    BY DEF BatchAssumption
  <2>4. s \in BOOLEAN
    BY IdleIs
  <2> QED BY <2>1, <2>2, <2>3, <2>4
<1> DEFINE j == [Idle EXCEPT !.op = op, !.step = "begin", !.payload = p, !.rest = p,
                             !.size = n, !.skip = s]
<1>3. j \in JobSet /\ j.step = "begin" /\ j.found = {} /\ j.fresh = {}
  BY <1>2, IdleIs DEF JobSet, Steps, Idle
<1>4. JobOK' /\ job'.step = "begin"
  <2> HIDE DEF j
  <2>1. job' = j
    BY <1>1 DEF j
  <2> QED BY <1>3, <2>1, FS_EmptySet DEF JobOK
<1>5. UNCHANGED <<memory, redis, mixed>> /\ answer' = [k \in Keys |-> None]
  BY DEF Begin, cacheVars
<1> QED BY <1>4, <1>5 DEF OwnInv, OwnValues

\* A key that is in a sequence is at an index of it.
LEMMA ChosenIndex ==
  ASSUME NEW X, NEW s \in Seq(X), NEW k \in ToSet(s)
  PROVE  LET i == CHOOSE i \in DOMAIN s : s[i] = k
         IN i \in 1..Len(s) /\ i \in DOMAIN s /\ s[i] = k
<1>1. DOMAIN s = 1..Len(s) /\ \E i \in DOMAIN s : s[i] = k
  BY ToSetIs
<1> QED BY <1>1

\* getMany() finds the answer for a key at the place of the key in its MGET.
LEMMA GetManyOwn ==
  ASSUME BatchAssumption, JobOK, OwnInv, GetMany
  PROVE  JobOK' /\ OwnInv'
<1> DEFINE missing == Those(job.payload, {k \in Keys : memory[k] \in {None, Null}})
           got(fails, k) == LET v == At(Mget(missing, fails),
                                        CHOOSE i \in DOMAIN missing : missing[i] = k)
                            IN IF v = Null THEN Undefined ELSE v
<1>1. PICK fails \in BOOLEAN :
        /\ answer' = [k \in Keys |->
             CASE k \notin ToSet(job.payload) -> None
               [] k \in ToSet(job.payload) \ ToSet(missing) -> memory[k]
               [] OTHER -> got(fails, k)]
        /\ Ends(~fails)
        /\ UNCHANGED <<memory, redis, mixed>>
  BY DEF GetMany, cacheVars
<1>2. JobOK' /\ job'.step = "done"
  BY <1>1, EndsOK
<1>3. job.payload \in Seq(Keys)
  BY DEF JobOK, JobSet
<1>4. missing \in Seq(Keys)
  BY <1>3, ThoseAre
<1> HIDE DEF missing
<1>5. ASSUME NEW k \in Keys PROVE answer'[k] \in MayHold(k) \cup {Undefined, Own(k)}
  <2>1. CASE k \notin ToSet(job.payload)
    <3> HIDE DEF got
    <3> QED BY <1>1, <2>1 DEF MayHold
  <2>2. CASE k \in ToSet(job.payload) /\ k \notin ToSet(missing)
    BY <1>1, <2>2 DEF OwnInv, OwnValues, MayHold
  <2>3. CASE k \in ToSet(job.payload) /\ k \in ToSet(missing)
    <3> DEFINE i == CHOOSE i \in DOMAIN missing : missing[i] = k
               v == At(Mget(missing, fails), i)
    <3>1. i \in DOMAIN missing /\ missing[i] = k
      BY <1>4, <2>3, ChosenIndex
    <3>2. answer'[k] = IF v = Null THEN Undefined ELSE v
      <4>1. got(fails, k) = IF v = Null THEN Undefined ELSE v
        OBVIOUS
      <4> HIDE DEF got, v
      <4> QED BY <1>1, <2>3, <4>1
    <3> HIDE DEF i
    <3>3. v \in {Undefined, Null, redis[k]} /\ (v = redis[k] => v = Undefined \/ v = Null \/ redis[k] # None)
      <4>1. CASE fails
        BY <4>1 DEF At, Mget
      <4>2. CASE ~fails
        <5>1. v = IF redis[k] = None THEN Null ELSE redis[k]
          BY <3>1, <4>2 DEF At, Mget
        <5> QED BY <5>1
      <4> QED BY <4>1, <4>2
    <3> HIDE DEF v
    <3>4. redis[k] \in {None, Own(k)}
      BY DEF OwnInv, OwnValues
    <3>5. answer'[k] \in {None, Undefined, Own(k)}
      BY <3>2, <3>3, <3>4
    <3> QED BY <3>5 DEF MayHold
  <2> QED BY <2>1, <2>2, <2>3
<1>6. answer' \in [Keys -> Values \cup {None, Undefined}]
  <2>1. answer' = [k \in Keys |-> answer'[k]]
    BY <1>1
  <2> QED BY <1>5, <2>1, OwnIs DEF MayHold
<1>7. \A k \in Keys : k \notin mixed => answer'[k] \in {None, Undefined, Own(k)}
  BY <1>5 DEF MayHold
<1>8. UNCHANGED <<memory, redis, mixed>>
  BY <1>1
<1> QED BY <1>2, <1>6, <1>7, <1>8 DEF OwnInv, OwnValues

\* What redis[k] answers for the keys of a chunk, at their places, when nothing fails.
LEMMA ProcessChunkIs ==
  ASSUME BatchAssumption, JobOK, OwnInv, ProcessChunkBegins
  PROVE  \E missing \in Seq(Keys), fails \in BOOLEAN :
           LET chunk == First(job.rest, ProcessChunk)
           IN /\ ToSet(missing) \subseteq ToSet(chunk)
              /\ job.op = "batchProcess" /\ job.step = "begin"
              /\ job' = [job EXCEPT !.chunk = missing, !.clean = @ /\ ~fails,
                   !.step = IF missing = <<>> THEN "begin" ELSE "handle",
                   !.rest = IF missing = <<>> THEN Without(@, ProcessChunk) ELSE @,
                   !.tries = IF missing = <<>> THEN 0 ELSE @]
              /\ \A k \in Keys \ (ToSet(chunk) \ ToSet(missing)) : answer'[k] = answer[k]
              /\ \A k \in ToSet(chunk) \ ToSet(missing) :
                   answer'[k] \in {Undefined, Own(k)} /\ (fails \/ answer'[k] = Own(k))
              /\ answer' \in [Keys -> Values \cup {None, Undefined}]
              /\ UNCHANGED <<cacheVars, handled, missed, applied, changes>>
<1> DEFINE chunk == First(job.rest, ProcessChunk)
           cachedIf(fails) == IF job.skip THEN [i \in DOMAIN chunk |-> Null]
                              ELSE ManyRemote(chunk, IF fails THEN {1} ELSE {})
           missingOf(cached) ==
             Those([i \in DOMAIN cached |-> IF cached[i] = Null THEN chunk[i] ELSE None], Keys)
           settled(cached, missing) == [k \in Keys |-> IF k \in ToSet(chunk) \ ToSet(missing)
             THEN At(cached, CHOOSE i \in DOMAIN chunk : chunk[i] = k) ELSE answer[k]]
<1>1. PICK fails \in BOOLEAN :
        LET cached == cachedIf(fails)  missing == missingOf(cached)
        IN /\ job.op = "batchProcess" /\ job.step = "begin"
           /\ IF fails THEN ~job.skip /\ Failing ELSE UNCHANGED errors
           /\ answer' = settled(cached, missing)
           /\ job' = [job EXCEPT !.chunk = missing, !.clean = @ /\ ~fails,
                !.step = IF missing = <<>> THEN "begin" ELSE "handle",
                !.rest = IF missing = <<>> THEN Without(@, ProcessChunk) ELSE @,
                !.tries = IF missing = <<>> THEN 0 ELSE @]
           /\ UNCHANGED <<cacheVars, handled, missed, applied, changes>>
  BY DEF ProcessChunkBegins
<1>2. job.rest \in Seq(Keys) /\ ProcessChunk \in 1..MgetLimit /\ MgetLimit \in Nat
  BY DEF JobOK, JobSet, BatchAssumption
<1>3. chunk \in Seq(Keys) /\ Len(chunk) \in Nat /\ Len(chunk) <= MgetLimit
  <2>1. ProcessChunk \in Nat /\ Len(job.rest) \in Nat
    BY <1>2, LenProperties
  <2>2. /\ chunk \in Seq(Keys)
        /\ Len(chunk) = IF ProcessChunk < Len(job.rest) THEN ProcessChunk ELSE Len(job.rest)
    BY <1>2, <2>1, FirstIs
  <2> HIDE DEF chunk
  <2> QED BY <1>2, <2>1, <2>2
<1> HIDE DEF chunk
<1>4. DOMAIN chunk = 1..Len(chunk) /\ ToSet(chunk) \subseteq Keys
      /\ \A i \in 1..Len(chunk) : chunk[i] \in Keys /\ chunk[i] \in ToSet(chunk)
  BY <1>3, ToSetIs
<1> DEFINE cached == cachedIf(fails)  missing == missingOf(cached)
\* The answers are at their elements' places.
<1>5. /\ DOMAIN cached = 1..Len(chunk) \/ (fails /\ DOMAIN cached = {})
      /\ \A i \in DOMAIN cached : i \in 1..Len(chunk) /\ cached[i] \in {Null, redis[chunk[i]]}
                                  /\ (cached[i] = Null \/ redis[chunk[i]] # None)
  <2>1. CASE job.skip
    BY <1>1, <1>4, <2>1
  <2>2. CASE ~job.skip /\ ~fails
    <3>1. cached = ManyRemote(chunk, {})
      BY <2>2
    <3>2. cached = [i \in 1..Len(chunk) |-> HeldFor(chunk[i])]
      BY <1>3, <3>1, OneMget
    <3> HIDE DEF cached
    <3> QED BY <3>2 DEF HeldFor
  <2>3. CASE ~job.skip /\ fails
    <3>1. cached = ManyRemote(chunk, {1})
      BY <2>3
    <3>2. cached = <<>>
      BY <1>3, <3>1, OneMget
    <3>3. DOMAIN cached = {}
      BY <3>2
    <3> HIDE DEF cached
    <3> QED BY <2>3, <3>3
  <2> QED BY <2>1, <2>2, <2>3
<1>6. /\ missing \in Seq(Keys)
      /\ ToSet(missing) = {chunk[i] : i \in {i \in DOMAIN cached : cached[i] = Null}}
  <2> HIDE DEF cachedIf
  <2> DEFINE s == [i \in DOMAIN cached |-> IF cached[i] = Null THEN chunk[i] ELSE None]
  <2>1. s \in Seq(Keys \cup {None}) /\ DOMAIN s = DOMAIN cached
    <3>1. CASE DOMAIN cached = 1..Len(chunk)
      BY <1>3, <1>4, <1>5, <3>1
    <3>2. CASE DOMAIN cached = {}
      <4>1. s = <<>>
        BY <3>2
      <4> QED BY <3>2, <4>1, EmptySeq
    <3> QED BY <1>5, <3>1, <3>2
  <2> HIDE DEF cached
  <2>2. ToSet(missing) = ToSet(s) \cap Keys /\ missing \in Seq(Keys \cup {None})
    BY <2>1, ThoseAre
  <2>3. ToSet(s) = {s[i] : i \in DOMAIN cached}
    BY <2>1 DEF ToSet
  <2>4. None \notin Keys
    BY DEF BatchAssumption
  <2> HIDE DEF missing
  <2>5. ToSet(missing) = {chunk[i] : i \in {i \in DOMAIN cached : cached[i] = Null}}
    BY <1>4, <1>5, <2>2, <2>3, <2>4
  <2>6. missing \in Seq(Keys)
    <3>1. /\ Len(missing) \in Nat /\ DOMAIN missing = 1..Len(missing)
          /\ ToSet(missing) = {missing[i] : i \in 1..Len(missing)}
      BY <2>2, ToSetIs
    <3>2. \A i \in 1..Len(missing) : missing[i] \in Keys
      BY <2>2, <3>1
    <3>3. missing = [i \in 1..Len(missing) |-> missing[i]]
      BY <2>2
    <3> QED BY <3>1, <3>2, <3>3
  <2> QED BY <2>5, <2>6
<1> HIDE DEF cached, missing
<1>7. ToSet(missing) \subseteq ToSet(chunk)
  BY <1>4, <1>5, <1>6
<1>8. answer' = settled(cached, missing)
  BY <1>1 DEF cached, missing
<1>9. ASSUME NEW k \in ToSet(chunk) \ ToSet(missing)
      PROVE  answer'[k] \in {Undefined, Own(k)} /\ (fails \/ answer'[k] = Own(k))
  <2> DEFINE i == CHOOSE i \in DOMAIN chunk : chunk[i] = k
  <2>1. i \in 1..Len(chunk) /\ chunk[i] = k
    BY <1>3, ChosenIndex
  <2>2. answer'[k] = At(cached, i) /\ k \in Keys
    BY <1>4, <1>8
  <2> HIDE DEF i
  <2>3. redis[k] \in {None, Own(k)}
    BY <2>2 DEF OwnInv, OwnValues
  <2>4. CASE i \in DOMAIN cached
    <3>1. cached[i] # Null
      BY <1>6, <2>1, <2>4
    <3> QED BY <1>5, <2>1, <2>2, <2>3, <2>4, <3>1 DEF At
  <2>5. CASE i \notin DOMAIN cached
    BY <1>5, <2>1, <2>2, <2>5 DEF At
  <2> QED BY <2>4, <2>5
<1>10. \A k \in Keys \ (ToSet(chunk) \ ToSet(missing)) : answer'[k] = answer[k]
  BY <1>8
<1>11. answer' \in [Keys -> Values \cup {None, Undefined}]
  <2>1. answer' = [k \in Keys |-> answer'[k]]
    BY <1>8
  <2>2. \A k \in Keys : answer'[k] \in Values \cup {None, Undefined}
    BY <1>9, <1>10, OwnIs DEF OwnInv
  <2> QED BY <2>1, <2>2
<1>12. /\ job.op = "batchProcess" /\ job.step = "begin"
       /\ job' = [job EXCEPT !.chunk = missing, !.clean = @ /\ ~fails,
                   !.step = IF missing = <<>> THEN "begin" ELSE "handle",
                   !.rest = IF missing = <<>> THEN Without(@, ProcessChunk) ELSE @,
                   !.tries = IF missing = <<>> THEN 0 ELSE @]
       /\ UNCHANGED <<cacheVars, handled, missed, applied, changes>>
  BY <1>1 DEF cached, missing
<1> QED BY <1>6, <1>7, <1>9, <1>10, <1>11, <1>12 DEF chunk

\* A chunk of batchProcess() is answered with own values.
LEMMA ProcessChunkOwn ==
  ASSUME BatchAssumption, JobOK, OwnInv, ProcessChunkBegins
  PROVE  JobOK' /\ OwnInv'
<1> DEFINE chunk == First(job.rest, ProcessChunk)
<1>1. PICK missing \in Seq(Keys), fails \in BOOLEAN :
        /\ ToSet(missing) \subseteq ToSet(chunk)
        /\ job.op = "batchProcess" /\ job.step = "begin"
        /\ job' = [job EXCEPT !.chunk = missing, !.clean = @ /\ ~fails,
             !.step = IF missing = <<>> THEN "begin" ELSE "handle",
             !.rest = IF missing = <<>> THEN Without(@, ProcessChunk) ELSE @,
             !.tries = IF missing = <<>> THEN 0 ELSE @]
        /\ \A k \in Keys \ (ToSet(chunk) \ ToSet(missing)) : answer'[k] = answer[k]
        /\ \A k \in ToSet(chunk) \ ToSet(missing) :
             answer'[k] \in {Undefined, Own(k)} /\ (fails \/ answer'[k] = Own(k))
        /\ answer' \in [Keys -> Values \cup {None, Undefined}]
        /\ UNCHANGED <<cacheVars, handled, missed, applied, changes>>
  BY ProcessChunkIs
<1>2. JobOK'
  <2>1. Without(job.rest, ProcessChunk) \in Seq(Keys)
    BY WithoutIs DEF JobOK, JobSet, BatchAssumption
  <2>2. 0 \in 0..MaxTries - 1
    BY DEF BatchAssumption
  <2> HIDE DEF chunk
  <2> QED BY <1>1, <2>1, <2>2 DEF JobOK, JobSet, Steps
<1>3. job'.step \in {"begin", "handle"}
  <2> HIDE DEF chunk
  <2> QED BY <1>1 DEF JobOK, JobSet
<1>4. \A k \in Keys : k \notin mixed => answer'[k] \in {None, Undefined, Own(k)}
  BY <1>1 DEF OwnInv, OwnValues
<1> QED BY <1>1, <1>2, <1>3, <1>4 DEF OwnInv, OwnValues, cacheVars

\* After a failed try the next one begins, or the call has ended.
LEMMA TryFailsIs ==
  ASSUME BatchAssumption, JobOK, job.op = "batchProcess", TryFails
  PROVE  /\ JobOK' /\ job'.step \in {"begin", "done"} /\ job'.clean = FALSE
         /\ job'.rest = job.rest \/ job'.step = "done"
         /\ job'.step = "begin" => job'.tries = job.tries + 1 /\ job'.op = job.op
<1>1. CASE job.tries + 1 = MaxTries
  BY <1>1, EndsOK DEF TryFails
<1>2. CASE job.tries + 1 # MaxTries
  <2>1. job.tries + 1 \in 0..MaxTries - 1
    BY <1>2 DEF JobOK, JobSet, BatchAssumption
  <2>2. job' = [job EXCEPT !.tries = job.tries + 1, !.clean = FALSE, !.step = "begin"]
    BY <1>2 DEF TryFails
  <2>3. job.fresh = {}
    BY DEF JobOK
  <2> QED BY <2>1, <2>2, <2>3 DEF JobOK, JobSet, Steps
<1> QED BY <1>1, <1>2

\* batchSet() leaves a key in memory the value it is given or the one it had ...
LEMMA RememberedOwn ==
  ASSUME BatchAssumption, NEW keys \in Seq(Keys), NEW values,
         \A k \in ToSet(keys) : values[k] \in MayHold(k), OwnInv
  PROVE  /\ Remembered(keys, values) \in [Keys -> Values \cup {None}]
         /\ \A k \in Keys : Remembered(keys, values)[k] \in MayHold(k)
<1>1. \A k \in Keys : memory[k] \in MayHold(k)
  BY DEF OwnInv, OwnValues, MayHold
<1>2. \A k \in Keys : (IF k \in ToSet(keys) THEN values[k] ELSE memory[k]) \in MayHold(k)
  BY <1>1
<1>3. \A k \in Keys : MayHold(k) \subseteq Values \cup {None}
  BY OwnIs DEF MayHold
<1> QED BY <1>2, <1>3 DEF Remembered

\* ... and in Redis, where it must be the key's own.
LEMMA WrittenOwn ==
  ASSUME BatchAssumption, NEW keys \in Seq(Keys), NEW values,
         \A k \in ToSet(keys) : values[k] \in {None, Own(k)}, OwnInv, WriteRemote(keys, values)
  PROVE  redis' \in [Keys -> Values \cup {None}] /\ \A k \in Keys : redis'[k] \in {None, Own(k)}
<1>1. \A k \in Keys : (IF k \in ToSet(keys) THEN values[k] ELSE redis[k]) \in {None, Own(k)}
  BY DEF OwnInv, OwnValues
<1> QED BY <1>1, OwnIs DEF WriteRemote

\* handler() gives an element its own value, which is stored under its key.
LEMMA HandleOwn ==
  ASSUME BatchAssumption, JobOK, OwnInv, Handle
  PROVE  JobOK' /\ OwnInv'
<1>1. job.chunk \in Seq(Keys) /\ ToSet(job.chunk) \subseteq Keys
  BY ToSetIs DEF JobOK, JobSet
<1>2. job.step = "handle" /\ UNCHANGED <<redis, answer, mixed>>
  BY DEF Handle
<1>3. CASE /\ memory' = Remembered(job.chunk, [k \in Keys |-> Own(k)])
           /\ job' = [job EXCEPT !.step = "store"]
  <2>1. JobOK' /\ job'.step = "store"
    BY <1>2, <1>3 DEF JobOK, JobSet, Steps
  <2>2. memory' \in [Keys -> Values \cup {None}] /\ \A k \in Keys : memory'[k] \in MayHold(k)
    <3> DEFINE own == [k \in Keys |-> Own(k)]
    <3>1. \A k \in ToSet(job.chunk) : own[k] \in MayHold(k)
      BY <1>1, OwnIs DEF MayHold
    <3> HIDE DEF own
    <3>2. memory' = Remembered(job.chunk, own)
      BY <1>3 DEF own
    <3> QED BY <1>1, <3>1, <3>2, RememberedOwn
  <2> QED BY <1>2, <2>1, <2>2 DEF OwnInv, OwnValues, MayHold
<1>4. CASE TryFails /\ UNCHANGED memory
  <2>1. JobOK' /\ job'.step \in {"begin", "done"}
    BY <1>2, <1>4, TryFailsIs DEF JobOK
  <2> QED BY <1>2, <1>4, <2>1 DEF OwnInv, OwnValues
<1> QED BY <1>3, <1>4 DEF Handle

\* So does the MULTI.
LEMMA StoreChunkOwn ==
  ASSUME BatchAssumption, JobOK, OwnInv, StoreChunk
  PROVE  JobOK' /\ OwnInv'
<1> DEFINE own == [k \in Keys |-> Own(k)]
<1>1. job.chunk \in Seq(Keys) /\ ToSet(job.chunk) \subseteq Keys
  BY ToSetIs DEF JobOK, JobSet
<1>2. WriteRemote(job.chunk, own) => /\ redis' \in [Keys -> Values \cup {None}]
                                     /\ \A k \in Keys : redis'[k] \in {None, Own(k)}
  <2>1. \A k \in ToSet(job.chunk) : own[k] \in {None, Own(k)}
    BY <1>1
  <2> HIDE DEF own
  <2> QED BY <1>1, <2>1, WrittenOwn
<1>3. UNCHANGED <<memory, mixed>> /\ job.op = "batchProcess"
  BY DEF StoreChunk
<1>4. CASE /\ WriteRemote(job.chunk, own)
           /\ answer' = [k \in Keys |-> IF k \in ToSet(job.chunk) THEN Own(k) ELSE answer[k]]
           /\ job' = [job EXCEPT !.step = "begin", !.tries = 0, !.rest = Without(@, ProcessChunk)]
  <2>1. Without(job.rest, ProcessChunk) \in Seq(Keys) /\ 0 \in 0..MaxTries - 1
    BY WithoutIs DEF JobOK, JobSet, BatchAssumption
  <2>2. JobOK' /\ job'.step = "begin"
    <3>1. job.fresh = {}
      BY <1>3 DEF JobOK
    <3> QED BY <1>4, <2>1, <3>1 DEF JobOK, JobSet, Steps
  <2>3. /\ answer' \in [Keys -> Values \cup {None, Undefined}]
        /\ \A k \in Keys : k \notin mixed => answer'[k] \in {None, Undefined, Own(k)}
    BY <1>4, OwnIs DEF OwnInv, OwnValues
  <2> QED BY <1>2, <1>3, <1>4, <2>2, <2>3 DEF OwnInv, OwnValues
<1>5. CASE /\ WriteRemote(job.chunk, own) \/ UNCHANGED redis
           /\ TryFails /\ UNCHANGED answer
  <2>1. JobOK' /\ job'.step \in {"begin", "done"}
    BY <1>3, <1>5, TryFailsIs
  <2>2. redis' \in [Keys -> Values \cup {None}] /\ \A k \in Keys : redis'[k] \in {None, Own(k)}
    BY <1>2, <1>5 DEF OwnInv, OwnValues
  <2> QED BY <1>3, <1>5, <2>1, <2>2 DEF OwnInv, OwnValues
<1> QED BY <1>4, <1>5 DEF StoreChunk

\* The end of batchProcess() changes no value.
LEMMA ProcessEndsOwn ==
  ASSUME BatchAssumption, JobOK, OwnInv, ProcessEnds
  PROVE  JobOK' /\ OwnInv'
<1>1. Ends(job.clean) /\ UNCHANGED <<cacheVars, answer>> /\ job.clean \in BOOLEAN
  BY DEF ProcessEnds, JobOK, JobSet
<1> QED BY <1>1, EndsOK DEF OwnInv, OwnValues, cacheVars

\* Level 1 answers what memory holds.
LEMMA GetFromMemoryOwn ==
  ASSUME BatchAssumption, JobOK, OwnInv, GetFromMemory
  PROVE  JobOK' /\ OwnInv'
<1> DEFINE rest == Those(job.rest, {k \in Keys : memory[k] = None})
<1>1. /\ job.op = "batchApply" /\ job.step = "begin" /\ UNCHANGED <<memory, redis, mixed>>
      /\ answer' = [k \in Keys |-> IF k \in ToSet(job.payload) THEN memory[k] ELSE None]
      /\ job' = [job EXCEPT !.step = "redis", !.rest = rest]
  BY DEF GetFromMemory, cacheVars
<1>2. rest \in Seq(Keys)
  BY ThoseAre DEF JobOK, JobSet
<1> HIDE DEF rest
<1>3. JobOK'
  BY <1>1, <1>2 DEF JobOK, JobSet, Steps
<1>4. /\ answer' \in [Keys -> Values \cup {None, Undefined}]
      /\ \A k \in Keys : answer'[k] \in MayHold(k)
  BY <1>1 DEF OwnInv, OwnValues, MayHold
<1>5. job'.step = "redis" /\ job'.fresh = {}
  BY <1>1 DEF JobOK, JobSet
<1> QED BY <1>1, <1>3, <1>4, <1>5 DEF OwnInv, OwnValues, MayHold

\* What level 2 makes of a chunk: some of its keys are found, with their own values unless they
\* may have been mixed up, and the others remain.
LEMMA GetFromRedisIs ==
  ASSUME BatchAssumption, JobOK, OwnInv, GetFromRedis
  PROVE  LET chunk == First(job.rest, job.size)
         IN \E failed \in SUBSET Mgets(chunk), left \in Seq(Keys), S \in SUBSET Keys :
              /\ job.step = "redis"
              /\ IsFiniteSet(S) /\ S \subseteq ToSet(chunk) /\ ToSet(left) = ToSet(chunk) \ S
              /\ job' = [job EXCEPT !.rest = Without(@, job.size), !.clean = @ /\ failed = {},
                           !.found = @ \cup S, !.remaining = @ \o left]
              /\ mixed' = mixed \cup Shifted(chunk, failed)
              /\ Shifted(chunk, failed) \subseteq Keys /\ Shifted(chunk, {}) = {}
              /\ \A k \in S : /\ answer'[k] \in Values
                              /\ k \notin Shifted(chunk, failed) => answer'[k] = Own(k)
              /\ answer' = [k \in Keys |-> IF k \in S THEN answer'[k] ELSE answer[k]]
              /\ UNCHANGED <<memory, redis, handled, missed, applied, changes>>
<1> DEFINE chunk == First(job.rest, job.size)
           foundIn(values) == {i \in DOMAIN chunk : At(values, i) \notin {Null, Undefined}}
           answerOf(values, found) == [k \in Keys |-> IF \E i \in found : chunk[i] = k
             THEN At(values, CHOOSE i \in found : chunk[i] = k) ELSE answer[k]]
<1>1. PICK failed \in SUBSET Mgets(chunk) :
        LET values == ManyRemote(chunk, failed)  found == foundIn(values)
        IN /\ job.step = "redis"
           /\ mixed' = mixed \cup Shifted(chunk, failed)
           /\ answer' = answerOf(values, found)
           /\ job' = [job EXCEPT !.rest = Without(@, job.size), !.clean = @ /\ failed = {},
                  !.found = @ \cup {chunk[i] : i \in found},
                  !.remaining = @ \o Those(chunk, Keys \ {chunk[i] : i \in found})]
           /\ UNCHANGED <<memory, redis, handled, missed, applied, changes>>
  BY DEF GetFromRedis
<1>2. job.rest \in Seq(Keys) /\ job.size \in Nat
  BY DEF JobOK, JobSet
<1>3. chunk \in Seq(Keys)
  BY <1>2, FirstIs
<1> HIDE DEF chunk
<1>4. DOMAIN chunk = 1..Len(chunk) /\ ToSet(chunk) \subseteq Keys
      /\ \A i \in 1..Len(chunk) : chunk[i] \in Keys /\ chunk[i] \in ToSet(chunk)
  BY <1>3, ToSetIs
<1> DEFINE values == ManyRemote(chunk, failed)
           found == foundIn(values)
           S == {chunk[i] : i \in found}
           left == Those(chunk, Keys \ S)
<1>5. /\ \A i \in DOMAIN values : \E k \in Keys : values[i] = HeldFor(k)
      /\ \A i \in DOMAIN values :
           chunk[i] \notin Shifted(chunk, failed) => values[i] = HeldFor(chunk[i])
  BY <1>3, ManyRemoteIs
<1> HIDE DEF values
<1>6. ASSUME NEW i \in found
      PROVE  /\ At(values, i) \in Values
             /\ chunk[i] \notin Shifted(chunk, failed) => At(values, i) = Own(chunk[i])
  <2>1. i \in DOMAIN values /\ At(values, i) = values[i] /\ values[i] # Null
        /\ i \in 1..Len(chunk) /\ chunk[i] \in Keys
    BY <1>4 DEF At
  <2>2. \A k \in Keys : /\ HeldFor(k) \in Values
                        /\ HeldFor(k) # Null => HeldFor(k) = Own(k)
    BY DEF HeldFor, OwnInv, OwnValues, Values
  <2>3. \E k \in Keys : values[i] = HeldFor(k)
    BY <1>5, <2>1
  <2>4. chunk[i] \notin Shifted(chunk, failed) => values[i] = HeldFor(chunk[i])
    BY <1>5, <2>1
  <2> HIDE DEF found
  <2> QED BY <2>1, <2>2, <2>3, <2>4
<1>7. S \in SUBSET Keys /\ S \subseteq ToSet(chunk) /\ IsFiniteSet(S)
  <2>1. S \subseteq ToSet(chunk)
    BY <1>4
  <2> HIDE DEF S
  <2> QED BY <1>3, <1>4, <2>1, FiniteRange, FS_Subset
<1>8. left \in Seq(Keys) /\ ToSet(left) = ToSet(chunk) \ S
  BY <1>3, <1>4, ThoseAre
<1>9. /\ \A k \in S : /\ answer'[k] \in Values
                      /\ k \notin Shifted(chunk, failed) => answer'[k] = Own(k)
      /\ answer' = [k \in Keys |-> IF k \in S THEN answer'[k] ELSE answer[k]]
  <2>1. answer' = answerOf(values, found)
    BY <1>1 DEF values
  <2>2. ASSUME NEW k \in S
        PROVE  /\ answer'[k] \in Values
               /\ k \notin Shifted(chunk, failed) => answer'[k] = Own(k)
    <3> DEFINE i == CHOOSE i \in found : chunk[i] = k
    <3>1. i \in found /\ chunk[i] = k
      BY <2>2
    <3>2. answer'[k] = At(values, i)
      BY <1>7, <2>1, <2>2
    <3> HIDE DEF i, found
    <3> QED BY <1>6, <3>1, <3>2
  <2>3. \A k \in Keys : k \in S <=> \E i \in found : chunk[i] = k
    OBVIOUS
  <2>4. answer' = [k \in Keys |-> IF k \in S THEN answer'[k] ELSE answer[k]]
    <3> HIDE DEF S, found
    <3> QED BY <2>1, <2>3
  <2> QED BY <2>2, <2>4
<1>10. Shifted(chunk, failed) \subseteq Keys /\ Shifted(chunk, {}) = {}
  BY <1>4 DEF Shifted
<1>11. /\ job.step = "redis" /\ mixed' = mixed \cup Shifted(chunk, failed)
       /\ job' = [job EXCEPT !.rest = Without(@, job.size), !.clean = @ /\ failed = {},
                    !.found = @ \cup S, !.remaining = @ \o left]
       /\ UNCHANGED <<memory, redis, handled, missed, applied, changes>>
  BY <1>1 DEF values
<1> HIDE DEF S, left
<1> QED BY <1>7, <1>8, <1>9, <1>10, <1>11 DEF chunk

\* Level 2 answers what Redis holds, whatever chunks and failures do to the places, but for the
\* keys that may have been mixed up.
LEMMA GetFromRedisOwn ==
  ASSUME BatchAssumption, JobOK, OwnInv, GetFromRedis
  PROVE  JobOK' /\ OwnInv'
<1> DEFINE chunk == First(job.rest, job.size)
<1>1. PICK failed \in SUBSET Mgets(chunk), left \in Seq(Keys), S \in SUBSET Keys :
        /\ job.step = "redis"
        /\ IsFiniteSet(S)
        /\ job' = [job EXCEPT !.rest = Without(@, job.size), !.clean = @ /\ failed = {},
                     !.found = @ \cup S, !.remaining = @ \o left]
        /\ mixed' = mixed \cup Shifted(chunk, failed) /\ Shifted(chunk, failed) \subseteq Keys
        /\ \A k \in S : /\ answer'[k] \in Values
                        /\ k \notin Shifted(chunk, failed) => answer'[k] = Own(k)
        /\ answer' = [k \in Keys |-> IF k \in S THEN answer'[k] ELSE answer[k]]
        /\ UNCHANGED <<memory, redis>>
  BY GetFromRedisIs
<1> HIDE DEF chunk
<1>2. Without(job.rest, job.size) \in Seq(Keys) /\ job.remaining \o left \in Seq(Keys)
  <2>1. job.rest \in Seq(Keys) /\ job.size \in Nat /\ job.remaining \in Seq(Keys)
    BY DEF JobOK, JobSet, BatchAssumption
  <2> QED BY <2>1, WithoutIs, ConcatProperties
<1>3. IsFiniteSet(job.found \cup S)
  BY <1>1, FS_Union DEF JobOK
<1>4. JobOK' /\ job'.step = "redis" /\ job'.fresh = {}
  BY <1>1, <1>2, <1>3 DEF JobOK, JobSet, Steps
<1>5. \A k \in Keys : answer[k] \in MayHold(k)
  BY <1>1 DEF OwnInv
<1>6. \A k \in Keys \ S : answer'[k] = answer[k]
  BY <1>1
<1>7. mixed \subseteq mixed' /\ mixed' \subseteq Keys
  BY <1>1 DEF OwnInv
<1>8. ASSUME NEW k \in Keys
      PROVE  /\ answer'[k] \in Values \cup {None}
             /\ k \notin mixed' => answer'[k] \in {None, Own(k)}
  <2>1. CASE k \in S
    BY <1>1, <2>1
  <2>2. CASE k \notin S
    BY <1>5, <1>6, <1>7, <2>2, OwnIs DEF MayHold
  <2> QED BY <2>1, <2>2
<1>9. answer' \in [Keys -> Values \cup {None, Undefined}]
  <2>1. answer' = [k \in Keys |-> answer'[k]]
    BY <1>1
  <2> QED BY <1>8, <2>1
<1>10. OwnValues'
  BY <1>1, <1>7, <1>8 DEF OwnInv, OwnValues
<1> QED BY <1>1, <1>4, <1>7, <1>8, <1>9, <1>10 DEF OwnInv, MayHold

\* Between two levels no value changes.
LEMMA AskGetterOwn ==
  ASSUME BatchAssumption, JobOK, OwnInv, AskGetter
  PROVE  JobOK' /\ OwnInv'
<1>1. /\ job.step = "redis" /\ UNCHANGED <<memory, redis, mixed, answer>>
      /\ job' = [job EXCEPT !.step = "getter", !.rest = job.remaining]
  BY DEF AskGetter, cacheVars
<1>2. JobOK' /\ job'.step = "getter" /\ job'.fresh = job.fresh
  BY <1>1 DEF JobOK, JobSet, Steps
<1> QED BY <1>1, <1>2 DEF OwnInv, OwnValues, MayHold

\* Level 3 answers own values.
LEMMA GetFromGetterOwn ==
  ASSUME BatchAssumption, JobOK, OwnInv, GetFromGetter
  PROVE  JobOK' /\ OwnInv'
<1> DEFINE chunk == First(job.rest, job.size)
<1>1. PICK known \in SUBSET ToSet(chunk) :
        /\ job.step = "getter"
        /\ \/ /\ answer' = [k \in Keys |-> IF k \in known THEN Own(k) ELSE answer[k]]
              /\ job' = [job EXCEPT !.rest = Without(@, job.size), !.fresh = @ \cup known]
           \/ Ends(FALSE) /\ UNCHANGED answer
        /\ UNCHANGED <<memory, redis, mixed>>
  BY DEF GetFromGetter, cacheVars
<1>2. /\ job.rest \in Seq(Keys) /\ job.size \in Nat
      /\ chunk \in Seq(Keys) /\ Without(job.rest, job.size) \in Seq(Keys)
      /\ IsFiniteSet(known) /\ known \subseteq Keys
  <2>1. job.rest \in Seq(Keys) /\ job.size \in Nat
    BY DEF JobOK, JobSet, BatchAssumption
  <2>2. chunk \in Seq(Keys) /\ Without(job.rest, job.size) \in Seq(Keys)
    BY <2>1, FirstIs, WithoutIs
  <2> HIDE DEF chunk
  <2> QED BY <2>1, <2>2, ToSetIs, FiniteRange, FS_Subset
<1> HIDE DEF chunk
<1>3. CASE /\ answer' = [k \in Keys |-> IF k \in known THEN Own(k) ELSE answer[k]]
           /\ job' = [job EXCEPT !.rest = Without(@, job.size), !.fresh = @ \cup known]
  <2>1. IsFiniteSet(job.fresh \cup known)
    BY <1>2, FS_Union DEF JobOK
  <2>2. JobOK' /\ job'.step = "getter" /\ job'.fresh = job.fresh \cup known
    BY <1>1, <1>2, <1>3, <2>1 DEF JobOK, JobSet, Steps
  <2>3. \A k \in Keys : answer'[k] = IF k \in known THEN Own(k) ELSE answer[k]
    BY <1>3
  <2>4. answer' \in [Keys -> Values \cup {None, Undefined}]
    BY <1>3, OwnIs DEF OwnInv
  <2>5. job.fresh \subseteq Keys /\ \A k \in job.fresh : answer[k] = Own(k)
    BY <1>1 DEF OwnInv, JobOK, JobSet
  <2>6. \A k \in job.fresh \cup known : answer'[k] = Own(k)
    BY <1>2, <2>3, <2>5
  <2>7. \A k \in Keys : answer'[k] \in MayHold(k) /\ answer[k] \in MayHold(k)
    BY <1>1, <2>3, OwnIs DEF OwnInv, MayHold
  <2> QED BY <1>1, <2>2, <2>4, <2>6, <2>7 DEF OwnInv, OwnValues, MayHold
<1>4. CASE Ends(FALSE) /\ UNCHANGED answer
  <2>1. JobOK' /\ job'.step = "done"
    BY <1>4, EndsOK
  <2> QED BY <1>1, <1>4, <2>1 DEF OwnInv, OwnValues
<1> QED BY <1>1, <1>3, <1>4

\* What two levels found is stored in memory under its own keys, and nothing else changes.
LEMMA SaveToMemoryOwn ==
  ASSUME BatchAssumption, JobOK, OwnInv, SaveToMemory
  PROVE  /\ JobOK' /\ OwnInv'
         /\ \A k \in Keys : memory'[k] = IF k \in job.found \cup job.fresh THEN answer[k] ELSE memory[k]
         /\ ToSet(job'.rest) = job.fresh
<1> DEFINE S == job.found \cup job.fresh
<1>1. /\ job.step = "getter" /\ UNCHANGED <<redis, answer, mixed>>
      /\ memory' = Remembered(SetToSeq(S), answer)
      /\ job' = [job EXCEPT !.step = "save", !.rest = SetToSeq(job.fresh)]
  BY DEF SaveToMemory, SavedToMemory
<1>2. IsFiniteSet(S) /\ IsFiniteSet(job.fresh) /\ S \subseteq Keys /\ job.fresh \subseteq Keys
  BY FS_Union DEF JobOK, JobSet
<1> HIDE DEF S
<1>3. /\ ToSet(SetToSeq(S)) = S /\ SetToSeq(S) \in Seq(Keys)
      /\ ToSet(SetToSeq(job.fresh)) = job.fresh /\ SetToSeq(job.fresh) \in Seq(Keys)
  <2>1. \A T : IsFiniteSet(T) /\ T \subseteq Keys => ToSet(SetToSeq(T)) = T /\ SetToSeq(T) \in Seq(Keys)
    <3> TAKE T
    <3> HAVE IsFiniteSet(T) /\ T \subseteq Keys
    <3>1. SetToSeq(T) \in Seq(T) /\ ToSet(SetToSeq(T)) = T
      BY SetToSeqIs
    <3> QED BY <3>1
  <2> QED BY <1>2, <2>1
<1>4. JobOK' /\ job'.step = "save" /\ job'.rest = SetToSeq(job.fresh) /\ job'.fresh = job.fresh
  BY <1>1, <1>3 DEF JobOK, JobSet, Steps
<1>5. \A k \in Keys : answer[k] \in MayHold(k)
  BY <1>1 DEF OwnInv
<1>6. memory' \in [Keys -> Values \cup {None}] /\ \A k \in Keys : memory'[k] \in MayHold(k)
  BY <1>1, <1>2, <1>3, <1>5, RememberedOwn
<1>7. \A k \in Keys : memory'[k] = IF k \in S THEN answer[k] ELSE memory[k]
  BY <1>1, <1>3 DEF Remembered
<1>8. OwnInv'
  BY <1>1, <1>3, <1>4, <1>5, <1>6 DEF OwnInv, OwnValues, MayHold
<1> QED BY <1>3, <1>4, <1>7, <1>8 DEF S

\* What the getter found is stored in both caches under its own keys.
LEMMA SaveToRedisOwn ==
  ASSUME BatchAssumption, JobOK, OwnInv, SaveToRedis
  PROVE  JobOK' /\ OwnInv'
<1> DEFINE chunk == First(job.rest, job.size)
<1>1. /\ job.step = "save" /\ UNCHANGED <<answer, mixed>>
      /\ memory' = Remembered(chunk, answer)
      /\ WriteRemote(chunk, answer) \/ UNCHANGED redis
      /\ Ends(FALSE) \/ job' = [job EXCEPT !.rest = Without(@, job.size)]
  BY DEF SaveToRedis
<1>2. /\ chunk \in Seq(Keys) /\ Without(job.rest, job.size) \in Seq(Keys)
      /\ ToSet(chunk) \subseteq ToSet(job.rest) /\ ToSet(Without(job.rest, job.size)) \subseteq ToSet(job.rest)
  <2>1. job.rest \in Seq(Keys) /\ job.size \in Nat
    BY DEF JobOK, JobSet, BatchAssumption
  <2> QED BY <2>1, Parts
<1> HIDE DEF chunk
<1>3. /\ ToSet(job.rest) \subseteq job.fresh /\ job.fresh \subseteq Keys
      /\ \A k \in job.fresh : answer[k] = Own(k)
  BY <1>1 DEF OwnInv, JobOK, JobSet
<1>4. memory' \in [Keys -> Values \cup {None}] /\ \A k \in Keys : memory'[k] \in MayHold(k)
  <2>1. \A k \in ToSet(chunk) : answer[k] \in MayHold(k)
    BY <1>2, <1>3, OwnIs DEF MayHold
  <2> QED BY <1>1, <1>2, <2>1, RememberedOwn
<1>6. redis' \in [Keys -> Values \cup {None}] /\ \A k \in Keys : redis'[k] \in {None, Own(k)}
  <2>1. \A k \in ToSet(chunk) : answer[k] \in {None, Own(k)}
    BY <1>2, <1>3
  <2>2. CASE WriteRemote(chunk, answer)
    BY <1>2, <2>1, <2>2, WrittenOwn
  <2>3. CASE UNCHANGED redis
    BY <2>3 DEF OwnInv, OwnValues
  <2> QED BY <1>1, <2>2, <2>3
<1>7. CASE Ends(FALSE)
  <2>1. JobOK' /\ job'.step = "done"
    BY <1>7, EndsOK
  <2> QED BY <1>1, <1>4, <1>6, <2>1 DEF OwnInv, OwnValues, MayHold
<1>8. CASE job' = [job EXCEPT !.rest = Without(@, job.size)]
  <2>1. JobOK' /\ job'.fresh = job.fresh /\ job'.rest = Without(job.rest, job.size)
    BY <1>1, <1>2, <1>8 DEF JobOK, JobSet, Steps
  <2>2. ToSet(job'.rest) \subseteq job'.fresh
    BY <1>2, <1>3, <2>1
  <2> QED BY <1>1, <1>4, <1>6, <2>1, <2>2 DEF OwnInv, OwnValues, MayHold
<1> QED BY <1>1, <1>7, <1>8

\* The end of batchApply() changes no value.
LEMMA GetEndsOwn ==
  ASSUME BatchAssumption, JobOK, OwnInv, GetEnds
  PROVE  JobOK' /\ OwnInv'
<1>1. Ends(job.clean) /\ UNCHANGED <<cacheVars, answer>> /\ job.clean \in BOOLEAN
  BY DEF GetEnds, JobOK, JobSet
<1> QED BY <1>1, EndsOK DEF OwnInv, OwnValues, cacheVars

\* Deletions leave no value where they change one.
LEMMA DeleteOwn ==
  ASSUME BatchAssumption, JobOK, OwnInv, DeleteAll \/ DeleteNext
  PROVE  JobOK' /\ OwnInv'
<1>1. \A S : RemoveRemote(S) =>
        redis' \in [Keys -> Values \cup {None}] /\ \A k \in Keys : redis'[k] \in {None, Own(k)}
  BY DEF RemoveRemote, OwnInv, OwnValues
<1>2. CASE DeleteAll
  <2>1. Ends(job.clean) /\ UNCHANGED <<answer, mixed>> /\ job.clean \in BOOLEAN
    BY <1>2 DEF DeleteAll, JobOK, JobSet
  <2>2. memory' \in [Keys -> Values \cup {None}] /\ \A k \in Keys : memory'[k] \in MayHold(k)
    BY <1>2 DEF DeleteAll, OwnInv, OwnValues, MayHold
  <2>3. redis' \in [Keys -> Values \cup {None}] /\ \A k \in Keys : redis'[k] \in {None, Own(k)}
    BY <1>1, <1>2 DEF DeleteAll, OwnInv, OwnValues
  <2> QED BY <2>1, <2>2, <2>3, EndsOK DEF OwnInv, OwnValues, MayHold
<1>3. CASE DeleteNext /\ job.rest = <<>>
  <2>1. Ends(job.clean) /\ UNCHANGED <<cacheVars, answer>> /\ job.clean \in BOOLEAN
    BY <1>3 DEF DeleteNext, cacheVars, JobOK, JobSet
  <2> QED BY <2>1, EndsOK DEF OwnInv, OwnValues, cacheVars
<1>4. CASE DeleteNext /\ job.rest # <<>>
  <2> DEFINE k == Head(job.rest)
  <2>1. /\ job.op = "deleteInCache"
        /\ memory' = [memory EXCEPT ![k] = None]
        /\ answer' = [answer EXCEPT ![k] = Undefined]
        /\ RemoveRemote({k}) \/ UNCHANGED redis
        /\ job' = [job EXCEPT !.rest = Tail(@)] /\ UNCHANGED mixed
    BY <1>4 DEF DeleteNext
  <2> HIDE DEF k
  <2>2. Tail(job.rest) \in Seq(Keys)
    BY <1>4, HeadTailProperties DEF JobOK, JobSet
  <2>3. job.op # "batchApply" /\ job.op # "batchProcess"
    BY <2>1
  <2>4. JobOK' /\ job'.step = job.step
    BY <2>1, <2>2 DEF JobOK, JobSet, Steps
  <2>5. memory' \in [Keys -> Values \cup {None}] /\ \A x \in Keys : memory'[x] \in MayHold(x)
    BY <2>1 DEF OwnInv, OwnValues, MayHold
  <2>6. redis' \in [Keys -> Values \cup {None}] /\ \A x \in Keys : redis'[x] \in {None, Own(x)}
    BY <1>1, <2>1 DEF OwnInv, OwnValues
  <2>7. /\ answer' \in [Keys -> Values \cup {None, Undefined}]
        /\ \A x \in Keys : x \notin mixed => answer'[x] \in {None, Undefined, Own(x)}
    BY <2>1 DEF OwnInv, OwnValues
  <2> QED BY <2>1, <2>3, <2>4, <2>5, <2>6, <2>7 DEF OwnInv, OwnValues, MayHold, JobOK
<1> QED BY <1>2, <1>3, <1>4

\* Every step keeps every value where it belongs.
LEMMA OwnStep ==
  ASSUME BatchAssumption, JobOK, OwnInv, [BatchNext]_batchVars
  PROVE  JobOK' /\ OwnInv'
<1>1. CASE UNCHANGED batchVars
  BY <1>1 DEF batchVars, cacheVars, JobOK, OwnInv, OwnValues, MayHold
<1>2. CASE BatchNext
  BY <1>2, ComeOwn, BeginOwn, GetManyOwn, ProcessChunkOwn, HandleOwn, StoreChunkOwn,
     ProcessEndsOwn, GetFromMemoryOwn, GetFromRedisOwn, AskGetterOwn, GetFromGetterOwn,
     SaveToMemoryOwn, SaveToRedisOwn, GetEndsOwn, DeleteOwn DEF BatchNext
<1> QED BY <1>1, <1>2

\* OwnValues, for any keys, payloads, sizes of chunks, above MgetLimit too, and bounds.
THEOREM NoMixups == BatchSpec => []OwnValues
<1>1. BatchInit => JobOK /\ OwnInv
  BY BatchAssumption, OwnInit
<1>2. JobOK /\ OwnInv /\ [BatchNext]_batchVars => (JobOK /\ OwnInv)'
  BY BatchAssumption, OwnStep
<1>3. OwnInv => OwnValues
  BY DEF OwnInv
<1> QED BY <1>1, <1>2, <1>3, PTL DEF BatchSpec

------------------------------------------------------------------------------
(* Clean calls *)

\* What is to be known of k when its answer comes from a level, of which memory is saved.
Answered(k) == answer[k] = Own(k)
Saved(k) == Answered(k) /\ memory[k] = answer[k]

\* Until a clean batchProcess() has come to its end, what it has not answered is to come; what the
\* caller of a clean batchApply() does not get, the getter does not know; and what memory does not
\* hold of an answer is still to be saved, unless it was evicted.  Keys once mixed up are left out.
CleanInv ==
  /\ missed \subseteq Keys
  /\ applied \in [Keys -> {"none", "cache", "getter"}]
  /\ job.clean =>
     /\ job.op = "batchProcess" /\ job.step # "done" =>
          \A k \in ToSet(job.payload) : Answered(k) \/ k \in ToSet(job.rest)
     /\ job.step \in {"handle", "store"} =>
          \A k \in ToSet(First(job.rest, ProcessChunk)) : Answered(k) \/ k \in ToSet(job.chunk)
     /\ job.op = "batchApply" /\ job.step = "begin" => job.rest = job.payload
     /\ job.step \in {"redis", "getter"} => \A k \in ToSet(job.payload) :
          \/ k \in missed \cup mixed \/ Saved(k)
          \/ Answered(k) /\ k \in job.found \cup job.fresh
          \/ k \in ToSet(job.rest)
          \/ job.step = "redis" /\ k \in ToSet(job.remaining)
     /\ job.step = "save" => \A k \in ToSet(job.payload) : k \in missed \cup mixed \/ Saved(k)
     /\ CleanIsComplete

\* No call is under way at first.
LEMMA CleanInit ==
  ASSUME BatchAssumption, BatchInit
  PROVE  CleanInv
<1>1. job = Idle /\ Idle.step = "done" /\ Idle.op = "none" /\ missed = {}
      /\ applied = [k \in Keys |-> "none"]
  BY DEF BatchInit, Idle
<1> QED BY <1>1 DEF CleanInv, CleanIsComplete

\* What goes from memory is counted as missed; nothing else that comes or goes is relied on.
LEMMA ComeClean ==
  ASSUME BatchAssumption, JobOK, OwnInv, CleanInv, NEW k \in Keys, Come(k) \/ Go(k)
  PROVE  CleanInv'
<1>1. /\ UNCHANGED <<job, answer, applied, mixed>>
      /\ missed \subseteq missed' /\ missed' \subseteq Keys
      /\ \A x \in Keys : memory'[x] = memory[x] \/ x \in missed'
  BY DEF Come, Go, CleanInv, OwnInv
<1>2. ToSet(job.payload) \subseteq Keys
  BY ToSetIs DEF JobOK, JobSet
<1>3. \A x \in ToSet(job.payload) :
        x \in missed \cup mixed \/ Saved(x) => x \in missed' \cup mixed' \/ Saved(x)'
  BY <1>1, <1>2 DEF Saved, Answered
<1>4. job.clean => CleanIsComplete'
  BY <1>1, <1>2, <1>3 DEF CleanInv, CleanIsComplete
<1>5. \A x : Answered(x)' <=> Answered(x)
  BY <1>1 DEF Answered
<1>6. job.clean => /\ job.step \in {"redis", "getter"} => \A x \in ToSet(job.payload) :
                        \/ x \in missed' \cup mixed' \/ Saved(x)'
                        \/ Answered(x) /\ x \in job.found \cup job.fresh
                        \/ x \in ToSet(job.rest)
                        \/ job.step = "redis" /\ x \in ToSet(job.remaining)
                   /\ job.step = "save" => \A x \in ToSet(job.payload) :
                        x \in missed' \cup mixed' \/ Saved(x)'
  BY <1>3 DEF CleanInv
<1> QED BY <1>1, <1>4, <1>5, <1>6 DEF CleanInv

\* A call begins with its whole payload to come.
LEMMA BeginClean ==
  ASSUME BatchAssumption, JobOK, CleanInv, NEW op \in BatchCalls, Begin(op)
  PROVE  CleanInv'
<1>1. PICK p, n, s : p \in Payloads /\
         job' = [Idle EXCEPT !.op = op, !.step = "begin", !.payload = p, !.rest = p,
                             !.size = n, !.skip = s]
  BY DEF Begin
<1>2. job'.step = "begin" /\ job'.rest = p /\ job'.payload = p
  BY <1>1 DEF Idle
<1>3. missed' = {} /\ applied' = [k \in Keys |-> "none"]
  BY DEF Begin
<1> QED BY <1>2, <1>3 DEF CleanInv, CleanIsComplete

\* A call that is neither batchProcess() nor batchApply() promises nothing here.
LEMMA OtherClean ==
  ASSUME CleanInv, job.op \notin {"batchProcess", "batchApply"}, job'.op = job.op, JobOK',
         missed' \subseteq Keys, applied' = applied
  PROVE  CleanInv'
BY DEF CleanInv, CleanIsComplete, JobOK

\* Neither does one that failed.
LEMMA FailedClean ==
  ASSUME CleanInv, job'.clean = FALSE, missed' \subseteq Keys, applied' = applied
  PROVE  CleanInv'
BY DEF CleanInv

\* With no failure the elements of a chunk are answered, or missing and to be handled.
LEMMA ProcessChunkClean ==
  ASSUME BatchAssumption, JobOK, OwnInv, CleanInv, ProcessChunkBegins
  PROVE  CleanInv'
<1> DEFINE chunk == First(job.rest, ProcessChunk)
           behind == Without(job.rest, ProcessChunk)
<1>1. PICK missing \in Seq(Keys), fails \in BOOLEAN :
        /\ ToSet(missing) \subseteq ToSet(chunk)
        /\ job.op = "batchProcess" /\ job.step = "begin"
        /\ job' = [job EXCEPT !.chunk = missing, !.clean = @ /\ ~fails,
             !.step = IF missing = <<>> THEN "begin" ELSE "handle",
             !.rest = IF missing = <<>> THEN behind ELSE @,
             !.tries = IF missing = <<>> THEN 0 ELSE @]
        /\ \A k \in Keys \ (ToSet(chunk) \ ToSet(missing)) : answer'[k] = answer[k]
        /\ \A k \in ToSet(chunk) \ ToSet(missing) :
             answer'[k] \in {Undefined, Own(k)} /\ (fails \/ answer'[k] = Own(k))
        /\ UNCHANGED <<cacheVars, handled, missed, applied, changes>>
  BY ProcessChunkIs
<1>2. /\ job.payload \in Seq(Keys) /\ job.rest \in Seq(Keys)
      /\ ToSet(job.payload) \subseteq Keys
      /\ ToSet(job.rest) \subseteq ToSet(chunk) \cup ToSet(behind)
      /\ ToSet(chunk) \subseteq ToSet(job.rest)
  <2>1. job.payload \in Seq(Keys) /\ job.rest \in Seq(Keys) /\ ProcessChunk \in Nat
    BY DEF JobOK, JobSet, BatchAssumption
  <2> HIDE DEF chunk, behind
  <2> QED BY <2>1, ToSetIs, Parts DEF chunk, behind
<1> HIDE DEF chunk, behind
<1>3. /\ job'.op = "batchProcess" /\ job'.payload = job.payload /\ job'.chunk = missing
      /\ job'.clean = (job.clean /\ ~fails)
      /\ job'.step = IF missing = <<>> THEN "begin" ELSE "handle"
      /\ job'.rest = IF missing = <<>> THEN behind ELSE job.rest
  BY <1>1 DEF JobOK, JobSet
<1> SUFFICES ASSUME job.clean, ~fails PROVE CleanInv'
  <2>1. CASE ~(job.clean /\ ~fails)
    BY <1>1, <1>3, <2>1, FailedClean DEF CleanInv
  <2> QED BY <2>1
<1>4. \A k \in ToSet(chunk) \ ToSet(missing) : Answered(k)'
  BY <1>1 DEF Answered
<1>5. \A k \in Keys : Answered(k) => Answered(k)'
  BY <1>1, <1>4 DEF Answered
<1>6. \A k \in ToSet(job.payload) : Answered(k) \/ k \in ToSet(job.rest)
  BY <1>1 DEF CleanInv
<1>7. CASE missing = <<>>
  <2>1. ToSet(missing) = {}
    BY <1>7 DEF ToSet
  <2>2. \A k \in ToSet(job.payload) : Answered(k)' \/ k \in ToSet(behind)
    BY <1>2, <1>4, <1>5, <1>6, <2>1
  <2> QED BY <1>1, <1>3, <1>7, <2>2 DEF CleanInv, CleanIsComplete
<1>8. CASE missing # <<>>
  <2>1. \A k \in ToSet(job.payload) : Answered(k)' \/ k \in ToSet(job.rest)
    BY <1>2, <1>5, <1>6
  <2>2. \A k \in ToSet(chunk) : Answered(k)' \/ k \in ToSet(missing)
    BY <1>4
  <2> QED BY <1>1, <1>3, <1>8, <2>1, <2>2 DEF CleanInv, CleanIsComplete, chunk
<1> QED BY <1>7, <1>8

\* A failed try ends the promise; a successful one keeps it.
LEMMA HandleClean ==
  ASSUME BatchAssumption, JobOK, OwnInv, CleanInv, Handle
  PROVE  CleanInv'
<1>1. job.step = "handle" /\ job.op = "batchProcess" /\ UNCHANGED <<answer, missed, applied>>
  BY DEF Handle, JobOK
<1>2. CASE job' = [job EXCEPT !.step = "store"]
  <2>1. /\ job'.step = "store" /\ job'.op = job.op /\ job'.payload = job.payload
        /\ job'.rest = job.rest /\ job'.chunk = job.chunk /\ job'.clean = job.clean
    BY <1>2 DEF JobOK, JobSet
  <2>2. \A k : Answered(k)' <=> Answered(k)
    BY <1>1 DEF Answered
  <2> QED BY <1>1, <2>1, <2>2 DEF CleanInv, CleanIsComplete
<1>3. CASE TryFails
  BY <1>1, <1>3, TryFailsIs, FailedClean DEF CleanInv
<1> QED BY <1>2, <1>3 DEF Handle

\* The chunk that is stored is answered as a whole.
LEMMA StoreChunkClean ==
  ASSUME BatchAssumption, JobOK, OwnInv, CleanInv, StoreChunk
  PROVE  CleanInv'
<1> DEFINE behind == Without(job.rest, ProcessChunk)
<1>1. job.step = "store" /\ job.op = "batchProcess" /\ UNCHANGED <<missed, applied>>
  BY DEF StoreChunk
<1>2. CASE /\ answer' = [k \in Keys |-> IF k \in ToSet(job.chunk) THEN Own(k) ELSE answer[k]]
           /\ job' = [job EXCEPT !.step = "begin", !.tries = 0, !.rest = behind]
  <2>1. /\ ToSet(job.payload) \subseteq Keys
        /\ ToSet(job.rest) \subseteq ToSet(First(job.rest, ProcessChunk)) \cup ToSet(behind)
    <3>1. job.payload \in Seq(Keys) /\ job.rest \in Seq(Keys) /\ ProcessChunk \in Nat
      BY DEF JobOK, JobSet, BatchAssumption
    <3> QED BY <3>1, ToSetIs, Parts
  <2> HIDE DEF behind
  <2>2. /\ job'.step = "begin" /\ job'.op = job.op /\ job'.payload = job.payload
        /\ job'.rest = behind /\ job'.clean = job.clean
    BY <1>2 DEF JobOK, JobSet
  <2>3. \A k \in Keys : Answered(k) \/ k \in ToSet(job.chunk) => Answered(k)'
    BY <1>2 DEF Answered
  <2>4. job.clean => \A k \in ToSet(job.payload) : Answered(k)' \/ k \in ToSet(behind)
    BY <1>1, <2>1, <2>3 DEF CleanInv
  <2> QED BY <1>1, <2>2, <2>4 DEF CleanInv, CleanIsComplete
<1>3. CASE TryFails
  BY <1>1, <1>3, TryFailsIs, FailedClean DEF CleanInv
<1> QED BY <1>2, <1>3 DEF StoreChunk

\* With nothing left to come, every element is answered.
LEMMA ProcessEndsClean ==
  ASSUME BatchAssumption, JobOK, OwnInv, CleanInv, ProcessEnds
  PROVE  CleanInv'
<1>1. /\ job.op = "batchProcess" /\ job.step = "begin" /\ job.rest = <<>>
      /\ Ends(job.clean) /\ UNCHANGED <<answer, missed, applied>> /\ job.clean \in BOOLEAN
  BY DEF ProcessEnds, JobOK, JobSet
<1>2. /\ job'.step = "done" /\ job'.op = job.op /\ job'.payload = job.payload
      /\ job'.clean = job.clean
  BY <1>1, EndsOK
<1>3. ToSet(job.rest) = {}
  BY <1>1 DEF ToSet
<1>4. job.clean => \A k \in ToSet(job.payload) : answer[k] = Own(k)
  BY <1>1, <1>3 DEF CleanInv, Answered
<1> QED BY <1>1, <1>2, <1>4 DEF CleanInv, CleanIsComplete

\* Level 1 leaves to the next what memory does not hold.
LEMMA GetFromMemoryClean ==
  ASSUME BatchAssumption, JobOK, OwnInv, CleanInv, GetFromMemory
  PROVE  CleanInv'
<1> DEFINE absent == {k \in Keys : memory[k] = None}
           rest == Those(job.rest, absent)
<1>1. /\ job.op = "batchApply" /\ job.step = "begin" /\ UNCHANGED <<cacheVars, missed, applied>>
      /\ answer' = [k \in Keys |-> IF k \in ToSet(job.payload) THEN memory[k] ELSE None]
      /\ job' = [job EXCEPT !.step = "redis", !.rest = rest]
  BY DEF GetFromMemory, cacheVars
<1>2. ToSet(rest) = ToSet(job.rest) \cap absent /\ ToSet(job.payload) \subseteq Keys
  BY ThoseAre, ToSetIs DEF JobOK, JobSet
<1> HIDE DEF rest
<1>3. /\ job'.step = "redis" /\ job'.op = job.op /\ job'.payload = job.payload
      /\ job'.rest = rest /\ job'.clean = job.clean
  BY <1>1 DEF JobOK, JobSet
<1>4. ASSUME job.clean, NEW k \in ToSet(job.payload) PROVE Saved(k)' \/ k \in ToSet(rest) \cup mixed'
  <2>1. job.rest = job.payload
    BY <1>1, <1>4 DEF CleanInv
  <2>2. /\ k \in mixed \/ memory[k] \in {None, Own(k)}
        /\ answer'[k] = memory[k] /\ k \in Keys
    BY <1>1, <1>2 DEF OwnInv, OwnValues
  <2>3. memory' = memory /\ mixed' = mixed
    BY <1>1 DEF cacheVars
  <2> QED BY <1>1, <1>2, <2>1, <2>2, <2>3 DEF Saved, Answered
<1> QED BY <1>1, <1>3, <1>4 DEF CleanInv, CleanIsComplete

\* Level 2 finds an element of its chunk, or adds it to those that remain.
LEMMA GetFromRedisClean ==
  ASSUME BatchAssumption, JobOK, OwnInv, CleanInv, GetFromRedis
  PROVE  CleanInv'
<1> DEFINE chunk == First(job.rest, job.size)
           behind == Without(job.rest, job.size)
<1>1. PICK failed \in SUBSET Mgets(chunk), left \in Seq(Keys), S \in SUBSET Keys :
        /\ job.step = "redis"
        /\ S \subseteq ToSet(chunk) /\ ToSet(left) = ToSet(chunk) \ S
        /\ job' = [job EXCEPT !.rest = behind, !.clean = @ /\ failed = {},
                     !.found = @ \cup S, !.remaining = @ \o left]
        /\ mixed' = mixed \cup Shifted(chunk, failed) /\ Shifted(chunk, {}) = {}
        /\ \A k \in S : k \notin Shifted(chunk, failed) => answer'[k] = Own(k)
        /\ answer' = [k \in Keys |-> IF k \in S THEN answer'[k] ELSE answer[k]]
        /\ UNCHANGED <<memory, missed, applied>>
  BY GetFromRedisIs
<1>2. /\ ToSet(job.payload) \subseteq Keys
      /\ ToSet(job.rest) \subseteq ToSet(chunk) \cup ToSet(behind)
      /\ ToSet(job.remaining \o left) = ToSet(job.remaining) \cup ToSet(left)
  <2>1. /\ job.payload \in Seq(Keys) /\ job.rest \in Seq(Keys) /\ job.size \in Nat
        /\ job.remaining \in Seq(Keys)
    BY DEF JobOK, JobSet, BatchAssumption
  <2>2. Range(job.remaining \o left) = Range(job.remaining) \cup Range(left)
    BY <2>1, RangeConcatenation
  <2>3. ToSet(job.remaining \o left) = ToSet(job.remaining) \cup ToSet(left)
    BY <2>2 DEF Range, ToSet
  <2> QED BY <2>1, <2>3, ToSetIs, Parts
<1> HIDE DEF chunk, behind
<1>3. /\ job'.step = "redis" /\ job'.op = "batchApply" /\ job'.payload = job.payload
      /\ job'.rest = behind /\ job'.clean = (job.clean /\ failed = {})
      /\ job'.found = job.found \cup S /\ job'.fresh = job.fresh
      /\ job'.remaining = job.remaining \o left
  BY <1>1 DEF JobOK, JobSet
<1> SUFFICES ASSUME failed = {} PROVE CleanInv'
  BY <1>1, <1>3, FailedClean DEF CleanInv
<1>7. mixed' = mixed /\ \A k \in S : answer'[k] = Own(k)
  BY <1>1
<1>4. \A k \in Keys : Answered(k) \/ k \in S => Answered(k)'
  <2>1. \A k \in Keys \ S : answer'[k] = answer[k]
    BY <1>1
  <2> QED BY <1>7, <2>1 DEF Answered
<1>8. \A k \in Keys \ S : answer'[k] = answer[k]
  BY <1>1
<1>5. \A k \in Keys : Saved(k) => Saved(k)'
  BY <1>1, <1>7, <1>8 DEF Saved, Answered
<1>6. ASSUME job.clean, NEW k \in ToSet(job.payload)
      PROVE  \/ k \in missed' \cup mixed' \/ Saved(k)'
             \/ Answered(k)' /\ k \in job.found \cup S \cup job.fresh
             \/ k \in ToSet(behind) \/ k \in ToSet(job.remaining \o left)
  <2>1. \/ k \in missed \cup mixed \/ Saved(k)
        \/ Answered(k) /\ k \in job.found \cup job.fresh
        \/ k \in ToSet(job.rest) \/ k \in ToSet(job.remaining)
    BY <1>1, <1>6 DEF CleanInv
  <2> QED BY <1>1, <1>2, <1>4, <1>5, <1>7, <2>1
<1> QED BY <1>1, <1>3, <1>6 DEF CleanInv, CleanIsComplete

\* Level 3 gets all that remain.
LEMMA AskGetterClean ==
  ASSUME BatchAssumption, JobOK, OwnInv, CleanInv, AskGetter
  PROVE  CleanInv'
<1>1. /\ job.step = "redis" /\ job.rest = <<>>
      /\ job' = [job EXCEPT !.step = "getter", !.rest = job.remaining]
      /\ UNCHANGED <<memory, mixed, answer, missed, applied>>
  BY DEF AskGetter, cacheVars
<1>2. /\ job'.step = "getter" /\ job'.op = "batchApply" /\ job'.payload = job.payload
      /\ job'.rest = job.remaining /\ job'.clean = job.clean
      /\ job'.found = job.found /\ job'.fresh = job.fresh
  BY <1>1 DEF JobOK, JobSet
<1>3. ToSet(job.rest) = {}
  BY <1>1 DEF ToSet
<1>4. \A k : (Answered(k)' <=> Answered(k)) /\ (Saved(k)' <=> Saved(k))
  BY <1>1 DEF Answered, Saved
<1> QED BY <1>1, <1>2, <1>3, <1>4 DEF CleanInv, CleanIsComplete

\* Level 3 finds an element of its chunk, or it is missed.
LEMMA GetFromGetterClean ==
  ASSUME BatchAssumption, JobOK, OwnInv, CleanInv, GetFromGetter
  PROVE  CleanInv'
<1> DEFINE chunk == First(job.rest, job.size)
           behind == Without(job.rest, job.size)
<1>1. PICK known \in SUBSET ToSet(chunk) :
        /\ job.step = "getter"
        /\ \/ /\ answer' = [k \in Keys |-> IF k \in known THEN Own(k) ELSE answer[k]]
              /\ missed' = missed \cup (ToSet(chunk) \ known)
              /\ job' = [job EXCEPT !.rest = behind, !.fresh = @ \cup known]
           \/ Ends(FALSE) /\ UNCHANGED missed
        /\ UNCHANGED <<memory, mixed, applied>>
  BY DEF GetFromGetter, cacheVars
<1>2. /\ ToSet(job.payload) \subseteq Keys /\ ToSet(chunk) \subseteq Keys
      /\ ToSet(job.rest) \subseteq ToSet(chunk) \cup ToSet(behind)
  <2>1. job.payload \in Seq(Keys) /\ job.rest \in Seq(Keys) /\ job.size \in Nat
    BY DEF JobOK, JobSet, BatchAssumption
  <2>2. ToSet(chunk) \subseteq ToSet(job.rest)
    BY <2>1, Parts
  <2> QED BY <2>1, <2>2, ToSetIs, Parts
<1> HIDE DEF chunk, behind
<1>3. CASE /\ answer' = [k \in Keys |-> IF k \in known THEN Own(k) ELSE answer[k]]
           /\ missed' = missed \cup (ToSet(chunk) \ known)
           /\ job' = [job EXCEPT !.rest = behind, !.fresh = @ \cup known]
  <2>1. /\ job'.step = "getter" /\ job'.op = "batchApply" /\ job'.payload = job.payload
        /\ job'.rest = behind /\ job'.clean = job.clean
        /\ job'.found = job.found /\ job'.fresh = job.fresh \cup known
    BY <1>1, <1>3 DEF JobOK, JobSet
  <2>2. \A k \in Keys : Answered(k) \/ k \in known => Answered(k)'
    BY <1>3 DEF Answered
  <2>3. \A k \in Keys : Saved(k) => Saved(k)'
    BY <1>1, <1>3 DEF Saved, Answered
  <2>4. ASSUME job.clean, NEW k \in ToSet(job.payload)
        PROVE  \/ k \in missed' \cup mixed' \/ Saved(k)'
               \/ Answered(k)' /\ k \in job.found \cup (job.fresh \cup known)
               \/ k \in ToSet(behind)
    <3>1. \/ k \in missed \cup mixed \/ Saved(k)
          \/ Answered(k) /\ k \in job.found \cup job.fresh
          \/ k \in ToSet(job.rest)
      BY <1>1, <2>4 DEF CleanInv
    <3> QED BY <1>1, <1>2, <1>3, <2>2, <2>3, <3>1
  <2>5. missed' \subseteq Keys
    BY <1>2, <1>3 DEF CleanInv
  <2> QED BY <1>1, <2>1, <2>4, <2>5 DEF CleanInv, CleanIsComplete
<1>4. CASE Ends(FALSE) /\ UNCHANGED missed
  <2>1. job'.clean = FALSE
    BY <1>4, EndsOK
  <2> QED BY <1>1, <1>4, <2>1, FailedClean DEF CleanInv
<1> QED BY <1>1, <1>3, <1>4

\* What was found below memory is saved to it.
LEMMA SaveToMemoryClean ==
  ASSUME BatchAssumption, JobOK, OwnInv, CleanInv, SaveToMemory
  PROVE  CleanInv'
<1>1. /\ job.step = "getter" /\ job.rest = <<>>
      /\ job' = [job EXCEPT !.step = "save", !.rest = SetToSeq(job.fresh)]
      /\ UNCHANGED <<answer, missed, mixed, applied>>
  BY DEF SaveToMemory
<1>2. \A k \in Keys : memory'[k] = IF k \in job.found \cup job.fresh THEN answer[k] ELSE memory[k]
  BY SaveToMemoryOwn
<1>3. /\ job'.step = "save" /\ job'.op = "batchApply" /\ job'.payload = job.payload
      /\ job'.clean = job.clean
  BY <1>1 DEF JobOK, JobSet
<1>4. ToSet(job.rest) = {} /\ ToSet(job.payload) \subseteq Keys
  BY <1>1, ToSetIs DEF ToSet, JobOK, JobSet
<1>5. ASSUME job.clean, NEW k \in ToSet(job.payload) PROVE k \in missed \cup mixed \/ Saved(k)'
  <2>1. k \in missed \cup mixed \/ Saved(k) \/ (Answered(k) /\ k \in job.found \cup job.fresh)
    BY <1>1, <1>4, <1>5 DEF CleanInv
  <2> QED BY <1>1, <1>2, <1>4, <2>1 DEF Saved, Answered
<1> QED BY <1>1, <1>3, <1>5 DEF CleanInv, CleanIsComplete

\* Saving to Redis stores in memory only what is answered.
LEMMA SaveToRedisClean ==
  ASSUME BatchAssumption, JobOK, OwnInv, CleanInv, SaveToRedis
  PROVE  CleanInv'
<1> DEFINE chunk == First(job.rest, job.size)
<1>1. /\ job.step = "save" /\ UNCHANGED <<answer, missed, mixed, applied>>
      /\ memory' = Remembered(chunk, answer)
      /\ Ends(FALSE) \/ job' = [job EXCEPT !.rest = Without(@, job.size)]
  BY DEF SaveToRedis
<1>2. \A k \in Keys : Saved(k) => Saved(k)'
  BY <1>1 DEF Saved, Answered, Remembered
<1>3. ToSet(job.payload) \subseteq Keys
  BY ToSetIs DEF JobOK, JobSet
<1>4. CASE Ends(FALSE)
  <2>1. job'.clean = FALSE
    BY <1>4, EndsOK
  <2> QED BY <1>1, <2>1, FailedClean DEF CleanInv
<1>5. CASE job' = [job EXCEPT !.rest = Without(@, job.size)]
  <2>1. /\ job'.step = "save" /\ job'.op = "batchApply" /\ job'.payload = job.payload
        /\ job'.clean = job.clean
    BY <1>1, <1>5 DEF JobOK, JobSet
  <2>2. job.clean => \A k \in ToSet(job.payload) : k \in missed \cup mixed \/ Saved(k)'
    BY <1>1, <1>2, <1>3 DEF CleanInv
  <2> QED BY <1>1, <2>1, <2>2 DEF CleanInv, CleanIsComplete
<1> QED BY <1>1, <1>4, <1>5

\* setter() is called for what is answered, and for nothing else.
LEMMA GetEndsClean ==
  ASSUME BatchAssumption, JobOK, OwnInv, CleanInv, GetEnds
  PROVE  CleanInv'
<1>1. /\ job.step = "save" /\ Ends(job.clean) /\ job.clean \in BOOLEAN
      /\ UNCHANGED <<memory, answer, missed, mixed>>
      /\ applied' = [k \in Keys |-> CASE answer[k] = None -> "none"
                                      [] answer[k] # None /\ k \in job.fresh -> "getter"
                                      [] OTHER -> "cache"]
  BY DEF GetEnds, cacheVars, JobOK, JobSet
<1>2. /\ job'.step = "done" /\ job'.op = "batchApply" /\ job'.payload = job.payload
      /\ job'.clean = job.clean
  BY <1>1, EndsOK DEF JobOK
<1>3. ToSet(job.payload) \subseteq Keys
  BY ToSetIs DEF JobOK, JobSet
<1>4. /\ applied' \in [Keys -> {"none", "cache", "getter"}]
      /\ \A k \in Keys : applied'[k] = "none" <=> answer[k] = None
  BY <1>1
<1>5. \A k \in Keys : (k \in mixed \/ answer[k] \in {None, Own(k)}) /\ Own(k) # None
  BY <1>1, OwnIs DEF OwnInv, MayHold
<1>6. job.clean => \A k \in ToSet(job.payload) : k \in missed \cup mixed \/ Saved(k)
  BY <1>1 DEF CleanInv
<1>7. job.clean => \A k \in ToSet(job.payload) :
        /\ answer[k] = Own(k) \/ k \in missed \cup mixed
        /\ k \notin mixed => /\ answer[k] = memory[k] \/ k \in missed
                            /\ applied'[k] # "none" <=> answer[k] = Own(k)
  BY <1>3, <1>4, <1>5, <1>6 DEF Saved, Answered
<1> QED BY <1>1, <1>2, <1>4, <1>7 DEF CleanInv, CleanIsComplete

\* Every step of a call without failures leaves its elements accounted for.
LEMMA CleanStep ==
  ASSUME BatchAssumption, JobOK, OwnInv, CleanInv, [BatchNext]_batchVars
  PROVE  CleanInv'
<1>1. CASE UNCHANGED batchVars
  BY <1>1 DEF batchVars, cacheVars, CleanInv, CleanIsComplete, Answered, Saved
<1>2. CASE GetMany
  <2>1. job.op = "getMany" /\ job'.op = job.op /\ UNCHANGED <<missed, applied>>
    BY <1>2 DEF GetMany, Ends, Idle
  <2>2. JobOK'
    BY <1>2, GetManyOwn
  <2> QED BY <2>1, <2>2, OtherClean DEF CleanInv
<1>3. CASE DeleteAll \/ DeleteNext
  <2>1. /\ job.op \in {"batchDelCache", "deleteInCache"} /\ job'.op = job.op /\ applied' = applied
        /\ missed' = missed \/ missed' = missed \cup ToSet(job.payload)
    BY <1>3 DEF DeleteAll, DeleteNext, Ends, Idle, JobOK, JobSet
  <2>2. ToSet(job.payload) \subseteq Keys
    BY ToSetIs DEF JobOK, JobSet
  <2>3. JobOK'
    BY <1>3, DeleteOwn
  <2> QED BY <2>1, <2>2, <2>3, OtherClean DEF CleanInv
<1>4. CASE BatchNext
  BY <1>2, <1>3, <1>4, ComeClean, BeginClean, ProcessChunkClean, HandleClean, StoreChunkClean,
     ProcessEndsClean, GetFromMemoryClean, GetFromRedisClean, AskGetterClean, GetFromGetterClean,
     SaveToMemoryClean, SaveToRedisClean, GetEndsClean DEF BatchNext
<1> QED BY <1>1, <1>4

\* CleanIsComplete, for any payload, duplicates included, and any sizes of chunks.
THEOREM CleanCallsAreComplete == BatchSpec => []CleanIsComplete
<1>1. BatchInit => JobOK /\ OwnInv /\ CleanInv
  BY BatchAssumption, OwnInit, CleanInit
<1>2. JobOK /\ OwnInv /\ CleanInv /\ [BatchNext]_batchVars => (JobOK /\ OwnInv /\ CleanInv)'
  BY BatchAssumption, OwnStep, CleanStep
<1>3. JobOK /\ CleanInv => CleanIsComplete
  <2> SUFFICES ASSUME JobOK, CleanInv PROVE CleanIsComplete
    OBVIOUS
  <2>1. CASE job.clean
    BY <2>1 DEF CleanInv
  <2>2. CASE ~job.clean
    BY <2>2 DEF CleanIsComplete
  <2> QED BY <2>1, <2>2
<1> QED BY <1>1, <1>2, <1>3, PTL DEF BatchSpec

------------------------------------------------------------------------------
(* Tries *)

\* No element is in a payload twice: handler() would get it with each chunk it is in.
DistinctElements == \A p \in Payloads : IsInjective(p)

\* In a sequence without duplicates the first n elements are not among the others.
LEMMA Apart ==
  ASSUME NEW X, NEW s \in Seq(X), NEW n \in Nat, IsInjective(s)
  PROVE  /\ IsInjective(Without(s, n))
         /\ ToSet(First(s, n)) \cap ToSet(Without(s, n)) = {}
<1> DEFINE f == First(s, n)  w == Without(s, n)
<1>1. /\ f \in Seq(X) /\ Len(f) = (IF n < Len(s) THEN n ELSE Len(s)) /\ Len(s) \in Nat
      /\ \A i \in 1..Len(f) : f[i] = s[i]
  BY FirstIs, LenProperties
<1>2. /\ w \in Seq(X) /\ Len(w) = (IF n < Len(s) THEN Len(s) - n ELSE 0)
      /\ \A i \in 1..Len(w) : w[i] = s[n + i]
  BY WithoutIs
<1>3. /\ DOMAIN s = 1..Len(s) /\ DOMAIN w = 1..Len(w)
      /\ ToSet(f) = {f[i] : i \in 1..Len(f)} /\ ToSet(w) = {w[i] : i \in 1..Len(w)}
  BY <1>1, <1>2, ToSetIs
<1> HIDE DEF f, w
<1>4. \A a, b \in 1..Len(s) : s[a] = s[b] => a = b
  BY <1>3 DEF IsInjective
<1>5. \A i \in 1..Len(w) : n + i \in 1..Len(s) /\ n + i > n
  BY <1>1, <1>2
<1>6. \A i \in 1..Len(f) : i \in 1..Len(s) /\ i <= n
  BY <1>1
<1>7. ASSUME NEW a \in 1..Len(w), NEW b \in 1..Len(w), w[a] = w[b] PROVE a = b
  <2>1. n + a = n + b
    BY <1>2, <1>4, <1>5, <1>7
  <2>2. Len(w) \in Nat
    BY <1>1, <1>2
  <2> QED BY <2>1, <2>2
<1>8. ASSUME NEW a \in 1..Len(f), NEW b \in 1..Len(w), f[a] = w[b] PROVE FALSE
  <2>1. a = n + b
    BY <1>1, <1>2, <1>4, <1>5, <1>6, <1>8
  <2>2. Len(w) \in Nat
    BY <1>1, <1>2
  <2> QED BY <1>5, <1>6, <2>1, <2>2
<1>9. IsInjective(w)
  BY <1>3, <1>7 DEF IsInjective
<1>10. ToSet(f) \cap ToSet(w) = {}
  BY <1>3, <1>8
<1> QED BY <1>9, <1>10 DEF f, w

\* How often the elements of the chunk at work, and those behind it, have been handled.
Tried(chunk, behind, tries) ==
  /\ \A k \in ToSet(chunk) : handled[k] <= tries
  /\ \A k \in ToSet(behind) : handled[k] = 0

TriesInv ==
  /\ handled \in [Keys -> 0..MaxTries]
  /\ errors \in 0..MaxErrors /\ changes \in 0..MaxChanges
  /\ job.op = "batchProcess" /\ job.step # "done" =>
       /\ IsInjective(job.rest)
       /\ Tried(First(job.rest, ProcessChunk), Without(job.rest, ProcessChunk),
                job.tries + IF job.step = "store" THEN 1 ELSE 0)
  /\ job.step \in {"handle", "store"} =>
       ToSet(job.chunk) \subseteq ToSet(First(job.rest, ProcessChunk))

\* Nothing is handled at first.
LEMMA TriesInit ==
  ASSUME BatchAssumption, BatchInit
  PROVE  TriesInv
<1>1. job.step = "done" /\ handled = [k \in Keys |-> 0] /\ errors = 0 /\ changes = 0
  BY DEF BatchInit, Idle
<1> QED BY <1>1 DEF TriesInv, BatchAssumption

\* The next chunk has not been handled yet.
LEMMA NextChunk ==
  ASSUME BatchAssumption, JobOK, TriesInv, job.op = "batchProcess", job.step # "done",
         job'.rest = Without(job.rest, ProcessChunk), job'.tries = 0, job'.step = "begin",
         handled' = handled, errors' \in 0..MaxErrors, changes' = changes
  PROVE  TriesInv'
<1> DEFINE rest == Without(job.rest, ProcessChunk)
<1>1. job.rest \in Seq(Keys) /\ ProcessChunk \in Nat
  BY DEF JobOK, JobSet, BatchAssumption
<1>2. rest \in Seq(Keys) /\ IsInjective(rest)
  BY <1>1, Apart, WithoutIs DEF TriesInv
<1>3. \A k \in ToSet(rest) : handled[k] = 0
  BY DEF TriesInv, Tried
<1> HIDE DEF rest
<1>4. /\ ToSet(First(rest, ProcessChunk)) \subseteq ToSet(rest)
      /\ ToSet(Without(rest, ProcessChunk)) \subseteq ToSet(rest)
  BY <1>1, <1>2, Parts
<1>5. /\ \A k \in ToSet(First(rest, ProcessChunk)) : handled'[k] <= 0
      /\ \A k \in ToSet(Without(rest, ProcessChunk)) : handled'[k] = 0
  BY <1>3, <1>4
<1>6. job'.rest = rest
  BY DEF rest
<1> QED BY <1>2, <1>5, <1>6 DEF TriesInv, Tried

\* The next try of the chunk, of which every element was handled once more at most.
LEMMA NextTry ==
  ASSUME BatchAssumption, JobOK, TriesInv, job.op = "batchProcess", job.step # "done", TryFails,
         handled' \in [Keys -> 0..MaxTries], changes' = changes,
         \A k \in ToSet(First(job.rest, ProcessChunk)) : handled'[k] <= job.tries + 1,
         \A k \in ToSet(Without(job.rest, ProcessChunk)) : handled'[k] = 0
  PROVE  TriesInv'
<1>1. /\ job'.step \in {"begin", "done"}
      /\ job'.rest = job.rest \/ job'.step = "done"
      /\ job'.step = "begin" => job'.tries = job.tries + 1
  BY TryFailsIs
<1>2. errors' \in 0..MaxErrors
  BY DEF TryFails, Failing, TriesInv, BatchAssumption
<1>3. job.tries + 1 + 0 = job.tries + 1
  BY DEF JobOK, JobSet
<1> QED BY <1>1, <1>2, <1>3 DEF TriesInv, Tried

\* A call begins with nothing handled.
LEMMA BeginTries ==
  ASSUME BatchAssumption, DistinctElements, TriesInv, NEW op \in BatchCalls, Begin(op)
  PROVE  TriesInv'
<1>1. PICK p, n, s : p \in Payloads /\
         job' = [Idle EXCEPT !.op = op, !.step = "begin", !.payload = p, !.rest = p,
                             !.size = n, !.skip = s]
  BY DEF Begin
<1>2. job'.step = "begin" /\ job'.rest = p /\ job'.tries = 0
  BY <1>1 DEF Idle
<1>3. handled' = [k \in Keys |-> 0] /\ UNCHANGED <<errors, changes>>
  BY DEF Begin
<1>4. p \in Seq(Keys) /\ ProcessChunk \in Nat /\ IsInjective(p)
  BY <1>1 DEF BatchAssumption, DistinctElements
<1>5. \A k \in ToSet(First(p, ProcessChunk)) \cup ToSet(Without(p, ProcessChunk)) : k \in Keys
  BY <1>4, Parts, ToSetIs
<1>6. /\ \A k \in ToSet(First(p, ProcessChunk)) : handled'[k] <= 0
      /\ \A k \in ToSet(Without(p, ProcessChunk)) : handled'[k] = 0
  BY <1>3, <1>5
<1>7. handled' \in [Keys -> 0..MaxTries]
  BY <1>3 DEF BatchAssumption
<1>8. errors' \in 0..MaxErrors /\ changes' \in 0..MaxChanges
  BY <1>3 DEF TriesInv
<1> QED BY <1>2, <1>4, <1>6, <1>7, <1>8 DEF TriesInv, Tried

\* Looking a chunk up handles nothing.
LEMMA ProcessChunkTries ==
  ASSUME BatchAssumption, JobOK, OwnInv, TriesInv, ProcessChunkBegins
  PROVE  TriesInv'
<1> DEFINE chunk == First(job.rest, ProcessChunk)
<1>1. PICK missing \in Seq(Keys), fails \in BOOLEAN :
        /\ ToSet(missing) \subseteq ToSet(chunk)
        /\ job.op = "batchProcess" /\ job.step = "begin"
        /\ job' = [job EXCEPT !.chunk = missing, !.clean = @ /\ ~fails,
             !.step = IF missing = <<>> THEN "begin" ELSE "handle",
             !.rest = IF missing = <<>> THEN Without(@, ProcessChunk) ELSE @,
             !.tries = IF missing = <<>> THEN 0 ELSE @]
        /\ UNCHANGED <<cacheVars, handled, missed, applied, changes>>
  BY ProcessChunkIs
<1>2. errors' \in 0..MaxErrors
  BY DEF ProcessChunkBegins, Failing, TriesInv, BatchAssumption
<1>3. CASE missing = <<>>
  <2>1. job'.rest = Without(job.rest, ProcessChunk) /\ job'.tries = 0 /\ job'.step = "begin"
    BY <1>1, <1>3 DEF JobOK, JobSet
  <2> QED BY <1>1, <1>2, <2>1, NextChunk
<1>4. CASE missing # <<>>
  <2>1. /\ job'.rest = job.rest /\ job'.tries = job.tries /\ job'.step = "handle"
        /\ job'.chunk = missing
    BY <1>1, <1>4 DEF JobOK, JobSet
  <2> QED BY <1>1, <1>2, <2>1 DEF TriesInv, Tried
<1> QED BY <1>3, <1>4

\* A try handles the elements of the chunk at work once, or some of them.
LEMMA HandleTries ==
  ASSUME BatchAssumption, JobOK, TriesInv, Handle
  PROVE  TriesInv'
<1> DEFINE more(S) == [k \in Keys |-> handled[k] + IF k \in S THEN 1 ELSE 0]
           chunk == First(job.rest, ProcessChunk)
           behind == Without(job.rest, ProcessChunk)
<1>1. /\ job.step = "handle" /\ job.op = "batchProcess" /\ changes' = changes
      /\ job.tries \in 0..MaxTries - 1 /\ MaxTries \in Nat
  BY DEF Handle, JobOK, JobSet, BatchAssumption
<1>2. /\ ToSet(chunk) \cap ToSet(behind) = {} /\ ToSet(chunk) \subseteq Keys
      /\ ToSet(behind) \subseteq Keys
  <2>1. job.rest \in Seq(Keys) /\ ProcessChunk \in Nat /\ IsInjective(job.rest)
    BY <1>1 DEF JobOK, JobSet, BatchAssumption, TriesInv
  <2> HIDE DEF chunk, behind
  <2> QED BY <2>1, Parts, Apart, ToSetIs DEF chunk, behind
<1>3. /\ ToSet(job.chunk) \subseteq ToSet(chunk)
      /\ \A k \in ToSet(chunk) : handled[k] <= job.tries
      /\ \A k \in ToSet(behind) : handled[k] = 0
  <2>1. job.tries + 0 = job.tries
    BY <1>1
  <2> QED BY <1>1, <2>1 DEF TriesInv, Tried
<1> HIDE DEF chunk, behind
<1>4. ASSUME NEW S \in SUBSET ToSet(job.chunk), handled' = more(S)
      PROVE  /\ handled' \in [Keys -> 0..MaxTries]
             /\ \A k \in ToSet(chunk) : handled'[k] <= job.tries + 1
             /\ \A k \in ToSet(behind) : handled'[k] = 0
  <2>1. \A k \in Keys : handled[k] \in 0..MaxTries
    BY DEF TriesInv
  <2>2. ASSUME NEW k \in Keys
        PROVE  /\ handled'[k] \in 0..MaxTries
               /\ k \in ToSet(chunk) => handled'[k] <= job.tries + 1
               /\ k \in ToSet(behind) => handled'[k] = 0
    <3>1. handled'[k] = handled[k] + IF k \in S THEN 1 ELSE 0
      BY <1>4
    <3>2. k \in S => k \in ToSet(chunk) /\ k \notin ToSet(behind)
      BY <1>2, <1>3
    <3>3. CASE k \in S
      <4>1. handled'[k] = handled[k] + 1 /\ handled[k] <= job.tries
        BY <1>3, <3>1, <3>2, <3>3
      <4> QED BY <1>1, <2>1, <3>2, <3>3, <4>1
    <3>4. CASE k \notin S
      <4>1. handled'[k] = handled[k]
        BY <2>1, <3>1, <3>4
      <4> QED BY <1>1, <1>3, <2>1, <4>1
    <3> QED BY <3>3, <3>4
  <2>3. handled' = [k \in Keys |-> handled'[k]]
    BY <1>4
  <2> QED BY <1>2, <2>2, <2>3
<1> HIDE DEF more
<1>5. CASE handled' = more(ToSet(job.chunk)) /\ job' = [job EXCEPT !.step = "store"] /\ UNCHANGED errors
  <2>1. /\ job'.step = "store" /\ job'.rest = job.rest /\ job'.tries = job.tries
        /\ job'.chunk = job.chunk /\ job'.op = job.op
    BY <1>5 DEF JobOK, JobSet
  <2>2. /\ handled' \in [Keys -> 0..MaxTries]
        /\ \A k \in ToSet(chunk) : handled'[k] <= job.tries + 1
        /\ \A k \in ToSet(behind) : handled'[k] = 0
    BY <1>4, <1>5
  <2> QED BY <1>1, <1>3, <1>5, <2>1, <2>2 DEF TriesInv, Tried, chunk, behind
<1>6. CASE TryFails /\ \E S \in SUBSET ToSet(job.chunk) : handled' = more(S)
  <2>1. /\ handled' \in [Keys -> 0..MaxTries]
        /\ \A k \in ToSet(chunk) : handled'[k] <= job.tries + 1
        /\ \A k \in ToSet(behind) : handled'[k] = 0
    BY <1>4, <1>6
  <2> QED BY <1>1, <1>6, <2>1, NextTry DEF chunk, behind
<1> QED BY <1>5, <1>6 DEF Handle, more

\* After the MULTI the next chunk begins, or the next try.
LEMMA StoreChunkTries ==
  ASSUME BatchAssumption, JobOK, TriesInv, StoreChunk
  PROVE  TriesInv'
<1>1. job.step = "store" /\ job.op = "batchProcess" /\ UNCHANGED <<handled, changes>>
  BY DEF StoreChunk
<1>2. CASE /\ job' = [job EXCEPT !.step = "begin", !.tries = 0, !.rest = Without(@, ProcessChunk)]
           /\ UNCHANGED errors
  <2>1. job'.rest = Without(job.rest, ProcessChunk) /\ job'.tries = 0 /\ job'.step = "begin"
    BY <1>2 DEF JobOK, JobSet
  <2>2. errors' \in 0..MaxErrors
    BY <1>2 DEF TriesInv
  <2> QED BY <1>1, <2>1, <2>2, NextChunk
<1>3. CASE TryFails
  <2>1. /\ handled' \in [Keys -> 0..MaxTries]
        /\ \A k \in ToSet(First(job.rest, ProcessChunk)) : handled'[k] <= job.tries + 1
        /\ \A k \in ToSet(Without(job.rest, ProcessChunk)) : handled'[k] = 0
    BY <1>1 DEF TriesInv, Tried
  <2> QED BY <1>1, <1>3, <2>1, NextTry
<1> QED BY <1>2, <1>3 DEF StoreChunk

\* Every other step ends the call, or is one of another call.
LEMMA OtherTries ==
  ASSUME TriesInv, handled' = handled, errors' \in 0..MaxErrors, changes' \in 0..MaxChanges, JobOK',
         job' = job \/ job'.step = "done" \/ job'.op # "batchProcess"
  PROVE  TriesInv'
BY DEF TriesInv, Tried, JobOK

\* Every step keeps the count of the tries.
LEMMA TriesStep ==
  ASSUME BatchAssumption, DistinctElements, JobOK, OwnInv, TriesInv, [BatchNext]_batchVars
  PROVE  TriesInv'
<1>1. JobOK'
  BY OwnStep
<1>2. errors \in 0..MaxErrors /\ changes \in 0..MaxChanges /\ MaxErrors \in Nat /\ MaxChanges \in Nat
  BY DEF TriesInv, BatchAssumption
<1>3. Failing => errors' \in 0..MaxErrors
  BY <1>2 DEF Failing
<1>4. ASSUME NEW k \in Keys, Come(k) \/ Go(k) PROVE TriesInv'
  <2>1. UNCHANGED <<job, handled, errors>> /\ changes < MaxChanges /\ changes' = changes + 1
    BY <1>4 DEF Come, Go
  <2>2. changes' \in 0..MaxChanges
    BY <1>2, <2>1
  <2> QED BY <1>1, <1>2, <2>1, <2>2, OtherTries
<1>5. CASE UNCHANGED batchVars
  BY <1>1, <1>2, <1>5, OtherTries DEF batchVars
<1>6. CASE GetMany \/ DeleteAll \/ DeleteNext
  <2>1. /\ UNCHANGED <<handled, changes>>
        /\ job.op \in {"getMany", "batchDelCache", "deleteInCache"} /\ job'.op = job.op
    BY <1>6 DEF GetMany, DeleteAll, DeleteNext, Ends, Idle, JobOK, JobSet
  <2>2. UNCHANGED errors \/ Failing
    BY <1>6 DEF GetMany, DeleteAll, DeleteNext
  <2> QED BY <1>1, <1>2, <1>3, <2>1, <2>2, OtherTries
<1>7. CASE ProcessEnds \/ GetEnds
  <2>1. UNCHANGED <<handled, changes, errors>> /\ Ends(job.clean) /\ job.clean \in BOOLEAN
    BY <1>7 DEF ProcessEnds, GetEnds, JobOK, JobSet
  <2> QED BY <1>1, <1>2, <2>1, EndsOK, OtherTries
<1>8. CASE GetFromMemory \/ GetFromRedis \/ AskGetter \/ GetFromGetter \/ SaveToMemory \/ SaveToRedis
  <2>1. job.op = "batchApply"
    BY <1>8 DEF GetFromMemory, GetFromRedis, AskGetter, GetFromGetter, SaveToMemory, SaveToRedis, JobOK
  <2>2. UNCHANGED <<handled, changes>> /\ job'.op = job.op
    BY <1>8 DEF GetFromMemory, GetFromRedis, AskGetter, GetFromGetter, SaveToMemory, SaveToRedis,
       Ends, Idle, JobOK, JobSet
  <2>3. CASE GetFromRedis
    <3>1. job.rest \in Seq(Keys) /\ job.size \in Nat
      BY DEF JobOK, JobSet
    <3> DEFINE chunk == First(job.rest, job.size)
    <3>2. PICK failed \in SUBSET Mgets(chunk) :
            errors' = errors + Cardinality(failed) /\ errors' <= MaxErrors
      BY <2>3 DEF GetFromRedis
    <3>3. chunk \in Seq(Keys)
      BY <3>1, FirstIs
    <3> HIDE DEF chunk
    <3>4. IsFiniteSet(Mgets(chunk))
      <4>1. MgetOf(Len(chunk)) \in Int
        BY <3>3, LenProperties DEF MgetOf, BatchAssumption
      <4> QED BY <4>1, FS_Interval DEF Mgets
    <3>5. Cardinality(failed) \in Nat
      BY <3>4, FS_Subset, FS_CardinalityType
    <3>6. errors' \in 0..MaxErrors
      BY <1>2, <3>2, <3>5
    <3> QED BY <1>1, <1>2, <2>1, <2>2, <3>6, OtherTries
  <2>4. UNCHANGED errors \/ Failing \/ GetFromRedis
    BY <1>8 DEF GetFromMemory, AskGetter, GetFromGetter, SaveToMemory, SaveToRedis
  <2> QED BY <1>1, <1>2, <1>3, <2>1, <2>2, <2>3, <2>4, OtherTries
<1>9. CASE BatchNext
  BY <1>4, <1>6, <1>7, <1>8, <1>9, BeginTries, ProcessChunkTries, HandleTries, StoreChunkTries
     DEF BatchNext
<1> QED BY <1>5, <1>9

\* BatchTypeOK, with its bound on how often handler() gets an element: MaxTries times, whatever
\* fails, if no payload holds an element twice.
THEOREM BatchTypes ==
  ASSUME DistinctElements
  PROVE  BatchSpec => []BatchTypeOK
<1> DEFINE Inv == JobOK /\ OwnInv /\ CleanInv /\ TriesInv
<1>1. BatchInit => Inv
  BY BatchAssumption, OwnInit, CleanInit, TriesInit
<1>2. Inv /\ [BatchNext]_batchVars => Inv'
  BY BatchAssumption, OwnStep, CleanStep, TriesStep
<1>3. Inv => BatchTypeOK
  BY DEF BatchTypeOK, JobOK, JobSet, OwnInv, CleanInv, TriesInv
<1> QED BY <1>1, <1>2, <1>3, PTL DEF BatchSpec

=============================================================================
