-------------------------------- MODULE Induction --------------------------------
(***************************************************************************)
(* What the proofs about several components need of numbers and sums: an   *)
(* induction principle stated with sets, and how SumFunction() of the      *)
(* module Functions takes elements apart.                                  *)
(***************************************************************************)
EXTENDS Integers, Functions, FiniteSetTheorems, WellFoundedInduction, TLAPS

\* A set of numbers with 0 in it and the successor of every number in it is all of Nat: one
\* that is not has a least number missing.
LEMMA AllNumbers ==
  ASSUME NEW T, T \subseteq Nat, 0 \in T, \A n \in T : n + 1 \in T
  PROVE  T = Nat
<1> SUFFICES ASSUME Nat \ T # {} PROVE FALSE
  OBVIOUS
<1>1. PICK n \in Nat \ T : \A k \in Nat \ T : ~(<<k, n>> \in OpToRel(<, Nat))
  BY WFMin, NatLessThanWellFounded
<1>2. ASSUME NEW k \in Nat \ T PROVE ~(k < n)
  BY <1>1 DEF OpToRel
<1>a. n \in Nat /\ n \notin T /\ n # 0
  OBVIOUS
<1>3. n - 1 \in Nat
  BY <1>a
<1>4. n - 1 \in T
  BY <1>2, <1>3
<1>5. n - 1 + 1 \in T
  BY <1>4
<1>6. n - 1 + 1 = n
  BY <1>a
<1> QED BY <1>a, <1>5, <1>6

------------------------------------------------------------------------------
(* Sums *)

\* F is the sum of f over every subset of S, whatever the order.
Additive(F, f, S) ==
  /\ F \in [SUBSET S -> Int]
  /\ F[{}] = 0
  /\ \A T \in SUBSET S : \A x \in T : F[T] = f[x] + F[T \ {x}]

\* Every function on a finite set has a sum, by induction on the number of elements.
LEMMA SumExists ==
  ASSUME NEW D, NEW f \in [D -> Int], NEW S \in SUBSET D, IsFiniteSet(S)
  PROVE  \E F : Additive(F, f, S)
<1> DEFINE P(T) == \E F : Additive(F, f, T)
           N == {n \in Nat : \A T \in SUBSET D : IsFiniteSet(T) /\ Cardinality(T) = n => P(T)}
<1>1. 0 \in N
  <2> SUFFICES P({})
    BY FS_EmptySet
  <2>1. Additive([T \in SUBSET {} |-> 0], f, {})
    BY DEF Additive
  <2> QED BY <2>1
<1>2. ASSUME NEW n \in N PROVE n + 1 \in N
  <2> SUFFICES ASSUME NEW T \in SUBSET D, IsFiniteSet(T), Cardinality(T) = n + 1 PROVE P(T)
    OBVIOUS
  <2>1. PICK x : x \in T
    <3>1. n + 1 # 0
      OBVIOUS
    <3> QED BY <3>1, FS_EmptySet
  <2> DEFINE R == T \ {x}
  <2>2. IsFiniteSet(R) /\ Cardinality(R) = n /\ R \in SUBSET D
    <3>1. n \in Nat /\ n + 1 - 1 = n
      OBVIOUS
    <3>2. IsFiniteSet(T \ {x}) /\ Cardinality(T \ {x}) = Cardinality(T) - 1
      BY <2>1, FS_RemoveElement
    <3> QED BY <3>1, <3>2
  <2>3. PICK F : Additive(F, f, R)
    BY <2>2
  <2> DEFINE G == [U \in SUBSET T |-> F[U \ {x}] + IF x \in U THEN f[x] ELSE 0]
  <2>4. \A U \in SUBSET T : U \ {x} \in SUBSET R /\ F[U \ {x}] \in Int
    BY <2>3 DEF Additive
  <2>5. f[x] \in Int
    BY <2>1
  <2>6. G \in [SUBSET T -> Int]
    <3>1. \A U \in SUBSET T : (F[U \ {x}] + IF x \in U THEN f[x] ELSE 0) \in Int
      BY <2>4, <2>5
    <3> QED BY <3>1
  <2>7. G[{}] = 0
    <3>1. {} \ {x} = {}
      OBVIOUS
    <3> QED BY <2>3, <3>1 DEF Additive
  <2>8. ASSUME NEW U \in SUBSET T, NEW y \in U PROVE G[U] = f[y] + G[U \ {y}]
    <3>1. /\ G[U] = F[U \ {x}] + IF x \in U THEN f[x] ELSE 0
          /\ G[U \ {y}] = F[(U \ {y}) \ {x}] + IF x \in U \ {y} THEN f[x] ELSE 0
      OBVIOUS
    <3>2. CASE y = x
      <4>1. (U \ {y}) \ {x} = U \ {x} /\ x \in U /\ x \notin U \ {y}
        BY <3>2
      <4>2. F[U \ {x}] \in Int
        BY <2>4
      <4>3. G[U] = F[U \ {x}] + f[x] /\ G[U \ {y}] = F[U \ {x}] + 0
        BY <3>1, <4>1
      <4> HIDE DEF G
      <4> QED BY <2>5, <3>2, <4>2, <4>3
    <3>3. CASE y # x
      <4>1. (U \ {y}) \ {x} = (U \ {x}) \ {y} /\ U \ {x} \in SUBSET R /\ y \in U \ {x}
        BY <3>3
      <4>2. F[U \ {x}] = f[y] + F[(U \ {x}) \ {y}]
        BY <2>3, <4>1 DEF Additive
      <4>3. f[y] \in Int /\ F[(U \ {x}) \ {y}] \in Int
        BY <2>4, <4>1
      <4>4. /\ G[U] = F[U \ {x}] + IF x \in U THEN f[x] ELSE 0
            /\ G[U \ {y}] = F[(U \ {x}) \ {y}] + IF x \in U THEN f[x] ELSE 0
        BY <3>1, <3>3, <4>1
      <4> HIDE DEF G
      <4> QED BY <2>5, <4>2, <4>3, <4>4
    <3> QED BY <3>2, <3>3
  <2> HIDE DEF G
  <2>9. Additive(G, f, T)
    BY <2>6, <2>7, <2>8 DEF Additive
  <2> QED BY <2>9
<1>3. N = Nat
  <2> HIDE DEF P
  <2>1. N \subseteq Nat
    OBVIOUS
  <2> HIDE DEF N
  <2> QED BY <1>1, <1>2, <2>1, AllNumbers
<1> QED BY <1>3, FS_CardinalityType

\* SumFunction(), which takes the elements in an order of its own, is that sum.
LEMMA SumIs ==
  ASSUME NEW S, IsFiniteSet(S), NEW f \in [S -> Int], NEW F, Additive(F, f, S)
  PROVE  SumFunction(f) = F[S]
<1> DEFINE any(s) == CHOOSE y \in s : TRUE
           Iter(it) == it = [s \in SUBSET S |-> IF s = {} THEN 0 ELSE f[any(s)] + it[s \ {any(s)}]]
           iter == CHOOSE it : Iter(it)
<1>1. SumFunction(f) = iter[S]
  <2>1. DOMAIN f = S
    OBVIOUS
  <2> QED BY <2>1 DEF SumFunction, SumFunctionOnSet, FoldFunctionOnSet, MapThenFoldSet
<1>2. Iter(F)
  <2>1. ASSUME NEW s \in SUBSET S
        PROVE  F[s] = IF s = {} THEN 0 ELSE f[any(s)] + F[s \ {any(s)}]
    <3>1. s # {} => any(s) \in s
      OBVIOUS
    <3> HIDE DEF any
    <3> QED BY <3>1 DEF Additive
  <2> HIDE DEF any
  <2>2. F = [s \in SUBSET S |-> F[s]]
    BY DEF Additive
  <2> QED BY <2>1, <2>2
<1>3. Iter(iter)
  <2> HIDE DEF Iter
  <2> QED BY <1>2
<1>4. ASSUME NEW s \in SUBSET S
      PROVE  iter[s] = IF s = {} THEN 0 ELSE f[any(s)] + iter[s \ {any(s)}]
  <2> HIDE DEF any, iter
  <2> QED BY <1>3
<1> DEFINE N == {n \in Nat : \A T \in SUBSET S : Cardinality(T) = n => iter[T] = F[T]}
<1>5. \A T \in SUBSET S : IsFiniteSet(T) /\ Cardinality(T) \in Nat
  BY FS_Subset, FS_CardinalityType
<1>6. 0 \in N
  <2> SUFFICES iter[{}] = F[{}]
    BY <1>5, FS_EmptySet
  <2> HIDE DEF iter
  <2> QED BY <1>4 DEF Additive
<1>7. ASSUME NEW n \in N PROVE n + 1 \in N
  <2>a. n \in Nat /\ n + 1 \in Nat /\ n + 1 - 1 = n
    OBVIOUS
  <2>b. \A T \in SUBSET S : Cardinality(T) = n => iter[T] = F[T]
    OBVIOUS
  <2> SUFFICES ASSUME NEW T \in SUBSET S, Cardinality(T) = n + 1 PROVE iter[T] = F[T]
    <3> HIDE DEF iter
    <3> QED BY <2>a
  <2>1. T # {}
    <3>1. n + 1 # 0
      OBVIOUS
    <3> QED BY <3>1, FS_EmptySet
  <2>2. any(T) \in T
    BY <2>1
  <2> HIDE DEF any, iter
  <2> DEFINE R == T \ {any(T)}
  <2>3. Cardinality(R) = n /\ R \in SUBSET S
    <3>1. IsFiniteSet(T)
      BY <1>5
    <3>2. Cardinality(T \ {any(T)}) = Cardinality(T) - 1
      BY <2>2, <3>1, FS_RemoveElement
    <3> QED BY <2>a, <3>2
  <2>4. iter[R] = F[R]
    BY <2>3, <2>b
  <2> QED BY <1>4, <2>1, <2>2, <2>4 DEF Additive
<1>8. N = Nat
  <2>1. N \subseteq Nat
    OBVIOUS
  <2> HIDE DEF N
  <2> QED BY <1>6, <1>7, <2>1, AllNumbers
<1> HIDE DEF iter
<1> QED BY <1>1, <1>5, <1>8

\* Any element can be taken out of a sum.
LEMMA SumSplits ==
  ASSUME NEW S, IsFiniteSet(S), NEW f \in [S -> Int], NEW x \in S
  PROVE  /\ SumFunction([y \in S \ {x} |-> f[y]]) \in Int
         /\ SumFunction(f) = f[x] + SumFunction([y \in S \ {x} |-> f[y]])
<1>1. PICK F : Additive(F, f, S)
  BY SumExists
<1> DEFINE R == S \ {x}
           G == [T \in SUBSET R |-> F[T]]
           g == [y \in R |-> f[y]]
<1>2. Additive(G, g, R)
  <2>1. G \in [SUBSET R -> Int] /\ G[{}] = 0
    BY <1>1 DEF Additive
  <2>2. ASSUME NEW T \in SUBSET R, NEW y \in T PROVE G[T] = g[y] + G[T \ {y}]
    BY <1>1 DEF Additive
  <2> HIDE DEF G, g, R
  <2> QED BY <2>1, <2>2 DEF Additive
<1>3. IsFiniteSet(R) /\ g \in [R -> Int]
  BY FS_RemoveElement
<1>4. SumFunction(g) = G[R]
  <2> HIDE DEF G, g, R
  <2> QED BY <1>2, <1>3, SumIs
<1>5. SumFunction(f) = F[S]
  BY <1>1, SumIs
<1>6. G[R] = F[S \ {x}] /\ F[S \ {x}] \in Int /\ F[S] = f[x] + F[S \ {x}]
  BY <1>1 DEF Additive
<1> QED BY <1>4, <1>5, <1>6

\* A sum of zeros is zero.
LEMMA SumOfZeros ==
  ASSUME NEW S, IsFiniteSet(S), NEW f \in [S -> {0}]
  PROVE  SumFunction(f) = 0
<1> DEFINE F == [T \in SUBSET S |-> 0]
<1>1. F \in [SUBSET S -> Int] /\ F[{}] = 0
  OBVIOUS
<1>2. \A T \in SUBSET S : \A x \in T : F[T] = f[x] + F[T \ {x}]
  <2>1. ASSUME NEW T \in SUBSET S, NEW x \in T PROVE F[T] = f[x] + F[T \ {x}]
    <3>1. F[T] = 0 /\ f[x] = 0 /\ F[T \ {x}] = 0
      OBVIOUS
    <3> QED BY <3>1
  <2> QED BY <2>1
<1>3. Additive(F, f, S) /\ F[S] = 0 /\ f \in [S -> Int]
  <2>1. F[S] = 0 /\ f \in [S -> Int]
    OBVIOUS
  <2> HIDE DEF F
  <2> QED BY <1>1, <1>2, <2>1 DEF Additive
<1> QED BY <1>3, SumIs

\* A sum of integers is one.
LEMMA SumType ==
  ASSUME NEW S, IsFiniteSet(S), NEW f \in [S -> Int]
  PROVE  SumFunction(f) \in Int
<1>1. PICK F : Additive(F, f, S)
  BY SumExists
<1>2. F[S] \in Int
  BY <1>1 DEF Additive
<1> QED BY <1>1, <1>2, SumIs

=============================================================================
