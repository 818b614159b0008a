------------------------------ MODULE FoldFacts ------------------------------
(***************************************************************************)
(* Induction over data for the proofs: natural numbers, the recursion by   *)
(* which MapThenFoldSet is defined, and sums over finite sets.             *)
(*                                                                         *)
(* The induction theorems of the library take the induction hypothesis as  *)
(* an operator.  Here it is the membership in a set, which the provers can *)
(* instantiate.                                                            *)
(***************************************************************************)
EXTENDS Integers, FiniteSetsExt, FiniteSetTheorems, TLAPS

\* Most steps are first-order reasoning, which Zenon does; the others name SMT.
USE Zenon

\* A set that holds zero and the successor of each of its numbers holds all.
LEMMA NatSetInduction ==
  ASSUME NEW T, 0 \in T, \A n \in Nat : n \in T => n + 1 \in T
  PROVE  Nat \subseteq T
<1> DEFINE L == {p \in Nat \X Nat : p[1] < p[2]}
           U == Nat \ T
<1>1. IsWellFoundedOn(L, Nat)
  BY NatLessThanWellFounded DEF OpToRel
<1>2. ASSUME U # {} PROVE FALSE
  <2>1. PICK x \in U : \A y \in U : ~ (<<y, x>> \in L)
    <3>1. U \subseteq Nat
      OBVIOUS
    <3>2. QED  BY <1>1, <1>2, <3>1, WFMin
  <2>2. x \in Nat \ {0}
    OBVIOUS
  <2>3. x - 1 \in Nat /\ x - 1 < x /\ (x - 1) + 1 = x
    BY <2>2, SMT
  <2>4. <<x - 1, x>> \in L
    BY <2>2, <2>3
  <2>5. x - 1 \in T
    BY <2>1, <2>3, <2>4
  <2>6. QED  BY <2>1, <2>3, <2>5
<1>3. QED  BY <1>2

\* ... and the same up to a bound.
LEMMA StepInduction ==
  ASSUME NEW n \in Nat, NEW T, 0 \in T, \A k \in 1..n : k - 1 \in T => k \in T
  PROVE  \A k \in 0..n : k \in T
<1> DEFINE W == {k \in Nat : k <= n => k \in T}
<1>1. 0 \in W
  OBVIOUS
<1>2. ASSUME NEW k \in Nat, k \in W PROVE k + 1 \in W
  <2>1. CASE k + 1 <= n
    <3>1. k + 1 \in 1..n /\ (k + 1) - 1 = k /\ k \in T
      BY <1>2, <2>1, SMT
    <3>2. k + 1 \in T
      BY <3>1
    <3>3. QED  BY <3>2, SMT
  <2>2. CASE ~ (k + 1 <= n)
    BY <2>2, SMT
  <2>3. QED  BY <2>1, <2>2
<1>3. Nat \subseteq W
  <2> HIDE DEF W
  <2>1. QED  BY <1>1, <1>2, NatSetInduction
<1>4. QED  BY <1>3, SMT

\* The last index of a non-empty prefix, and the prefix without it.
LEMMA Prefix ==
  ASSUME NEW n \in Nat, NEW k \in 1..n
  PROVE  /\ Max(1..k) = k
         /\ (1..k) \ {k} = 1..(k - 1)
         /\ 1..k # {} /\ 1..k \in SUBSET (1..n)
<1>1. k \in 1..k /\ \A y \in 1..k : k >= y
  BY SMT
<1>2. \A x \in 1..k : (\A y \in 1..k : x >= y) => x = k
  BY SMT
<1>3. Max(1..k) = k
  BY <1>1, <1>2 DEF Max
<1>4. QED  BY <1>1, <1>3, SMT

\* A non-empty set of indices has a last one.
LEMMA MaxIn ==
  ASSUME NEW n \in Nat, NEW s \in SUBSET (1..n), s # {}
  PROVE  Max(s) \in s /\ \A y \in s : Max(s) >= y
<1> DEFINE T == {m \in Nat : \A r \in SUBSET (1..m) : r # {} => \E x \in r : \A y \in r : x >= y}
<1>1. 0 \in T
  <2>1. 1..0 = {}
    BY SMT
  <2>2. QED  BY <2>1
<1>2. ASSUME NEW m \in Nat, m \in T PROVE m + 1 \in T
  <2>1. ASSUME NEW r \in SUBSET (1..(m + 1)), r # {} PROVE \E x \in r : \A y \in r : x >= y
    <3>1. CASE m + 1 \in r
      <4>1. \A y \in r : m + 1 >= y
        BY SMT
      <4>2. QED  BY <3>1, <4>1
    <3>2. CASE m + 1 \notin r
      <4>1. r \in SUBSET (1..m)
        BY <3>2, SMT
      <4>2. QED  BY <1>2, <2>1, <4>1
    <3>3. QED  BY <3>1, <3>2
  <2>2. QED  BY <2>1, SMT
<1>3. n \in T
  <2> HIDE DEF T
  <2>1. QED  BY <1>1, <1>2, NatSetInduction
<1>4. QED  BY <1>3 DEF Max

\* The recursion of MapThenFoldSet: a function on the subsets of a finite set
\* that takes out one chosen element at a time.
FoldFn(f, D, V, base, c, G) ==
    /\ f \in [SUBSET D -> V]
    /\ \A s \in SUBSET D : f[s] = IF s = {} THEN base ELSE G[<<c[s], f[s \ {c[s]}]>>]

\* ... has a solution.
LEMMA FoldExists ==
  ASSUME NEW D, IsFiniteSet(D), NEW V, NEW base \in V, NEW c,
         \A s \in SUBSET D : s # {} => c[s] \in s,
         NEW G \in [D \X V -> V]
  PROVE  \E f : FoldFn(f, D, V, base, c, G)
<1> DEFINE Ok(f, s) == f[s] = IF s = {} THEN base ELSE G[<<c[s], f[s \ {c[s]}]>>]
           T == {n \in Nat : \E f \in [SUBSET D -> V] :
                                \A s \in SUBSET D : Cardinality(s) <= n => Ok(f, s)}
<1>1. \A s \in SUBSET D : IsFiniteSet(s) /\ Cardinality(s) \in Nat
  BY FS_Subset, FS_CardinalityType
<1>2. 0 \in T
  <2> DEFINE f == [s \in SUBSET D |-> base]
  <2>1. f \in [SUBSET D -> V]
    OBVIOUS
  <2>2. \A s \in SUBSET D : Cardinality(s) <= 0 => s = {}
    BY <1>1, FS_EmptySet, SMT
  <2>3. \A s \in SUBSET D : Cardinality(s) <= 0 => Ok(f, s)
    BY <2>2
  <2>4. QED  BY <2>1, <2>3
<1>3. ASSUME NEW n \in Nat, n \in T PROVE n + 1 \in T
  <2>1. PICK f \in [SUBSET D -> V] : \A s \in SUBSET D : Cardinality(s) <= n => Ok(f, s)
    BY <1>3
  <2> DEFINE g == [s \in SUBSET D |-> IF Cardinality(s) <= n THEN f[s]
                                      ELSE G[<<c[s], f[s \ {c[s]}]>>]]
  <2>2. \A s \in SUBSET D : Cardinality(s) > n => s # {}
    BY <1>1, FS_EmptySet, SMT
  <2>3. \A s \in SUBSET D : s # {} => c[s] \in D /\ s \ {c[s]} \in SUBSET D
    OBVIOUS
  <2>4. g \in [SUBSET D -> V]
    <3>1. ASSUME NEW s \in SUBSET D, ~ (Cardinality(s) <= n)
          PROVE  G[<<c[s], f[s \ {c[s]}]>>] \in V
      BY <1>1, <2>2, <2>3, <3>1, SMT
    <3>2. QED  BY <3>1
  <2>5. ASSUME NEW s \in SUBSET D, Cardinality(s) <= n + 1 PROVE Ok(g, s)
    <3>1. s # {} => Cardinality(s \ {c[s]}) <= n
      BY <1>1, <2>5, FS_RemoveElement, SMT
    <3>2. s # {} => g[s \ {c[s]}] = f[s \ {c[s]}]
      BY <2>3, <3>1
    <3>3. CASE Cardinality(s) <= n
      BY <2>1, <3>2, <3>3
    <3>4. CASE Cardinality(s) > n
      <4>1. s # {} /\ ~ (Cardinality(s) <= n)
        BY <1>1, <2>2, <3>4, SMT
      <4>2. g[s] = G[<<c[s], f[s \ {c[s]}]>>]
        BY <4>1
      <4>3. QED  BY <3>2, <4>1, <4>2
    <3>5. Cardinality(s) <= n \/ Cardinality(s) > n
      BY <1>1, SMT
    <3> HIDE DEF g, Ok
    <3>6. QED  BY <3>3, <3>4, <3>5
  <2> HIDE DEF g, Ok
  <2>6. QED  BY <2>4, <2>5, SMT
<1>4. Cardinality(D) \in T
  <2> HIDE DEF T
  <2>1. QED  BY <1>2, <1>3, NatSetInduction, FS_CardinalityType
<1>5. PICK f \in [SUBSET D -> V] : \A s \in SUBSET D : Cardinality(s) <= Cardinality(D) => Ok(f, s)
  BY <1>4
<1>6. \A s \in SUBSET D : Cardinality(s) <= Cardinality(D)
  BY FS_Subset
<1>7. QED  BY <1>5, <1>6 DEF FoldFn

\* FoldLeft takes out the last index first; f solves its recursion.
SeqFold(f, n, V, base, G) ==
    /\ f \in [SUBSET (1..n) -> V]
    /\ f[{}] = base
    /\ \A s \in SUBSET (1..n) : s # {} =>
          /\ Max(s) \in 1..n /\ f[s \ {Max(s)}] \in V
          /\ f[s] = G[<<Max(s), f[s \ {Max(s)}]>>]

LEMMA SeqFoldExists ==
  ASSUME NEW n \in Nat, NEW V, NEW base \in V, NEW G \in [(1..n) \X V -> V]
  PROVE  \E f : SeqFold(f, n, V, base, G)
<1> DEFINE D == 1..n
           c == [s \in SUBSET D |-> Max(s)]
<1>1. \A s \in SUBSET D : s # {} => Max(s) \in s
  BY MaxIn
<1>2. \A s \in SUBSET D : s # {} => c[s] \in s
  BY <1>1
<1>3. IsFiniteSet(D)
  BY FS_Interval, SMT
<1>4. PICK f : FoldFn(f, D, V, base, c, G)
  <2> HIDE DEF c, D
  <2>1. G \in [D \X V -> V]
    BY DEF D
  <2>2. QED  BY <1>2, <1>3, <2>1, FoldExists
<1>5. f \in [SUBSET D -> V] /\ f[{}] = base
  BY <1>4 DEF FoldFn
<1>6. ASSUME NEW s \in SUBSET D, s # {}
      PROVE  /\ Max(s) \in D /\ f[s \ {Max(s)}] \in V
             /\ f[s] = G[<<Max(s), f[s \ {Max(s)}]>>]
  <2>1. Max(s) \in D /\ s \ {Max(s)} \in SUBSET D /\ c[s] = Max(s)
    BY <1>1, <1>6
  <2>2. QED  BY <1>4, <1>6, <2>1 DEF FoldFn
<1>7. QED  BY <1>5, <1>6 DEF SeqFold

\* What a fold has computed after each element.
Chain(h, n, V, it) == h \in [0..n -> V] /\ \A k \in 0..n : h[k] = it[1..k]

\* It stays in a set that the folded operation does not leave.
LEMMA FoldChain ==
  ASSUME NEW n \in Nat, NEW V, NEW it, it[{}] \in V,
         \A k \in 1..n : it[1..(k - 1)] \in V => it[1..k] \in V
  PROVE  \E h : Chain(h, n, V, it) /\ h[0] = it[{}]
<1> DEFINE T == {k \in 0..n : it[1..k] \in V}
           h == [k \in 0..n |-> it[1..k]]
<1>1. 1..0 = {}
  BY SMT
<1>2. 0 \in T
  BY <1>1, SMT
<1>3. ASSUME NEW k \in 1..n, k - 1 \in T PROVE k \in T
  BY <1>3, SMT
<1>4. \A k \in 0..n : k \in T
  <2> HIDE DEF T
  <2>1. QED  BY <1>2, <1>3, StepInduction
<1>5. h \in [0..n -> V] /\ h[0] = it[{}] /\ \A k \in 0..n : h[k] = it[1..k]
  BY <1>1, <1>4, SMT
<1>6. QED  BY <1>5 DEF Chain

\* Induction over the subsets of a finite set, one element at a time.
LEMMA SubsetInduction ==
  ASSUME NEW X, IsFiniteSet(X), NEW T, {} \in T,
         \A s \in SUBSET X : s # {} /\ (\A x \in s : s \ {x} \in T) => s \in T
  PROVE  \A s \in SUBSET X : s \in T
<1> DEFINE W == {n \in Nat : \A s \in SUBSET X : Cardinality(s) <= n => s \in T}
<1>1. \A s \in SUBSET X : IsFiniteSet(s) /\ Cardinality(s) \in Nat
  BY FS_Subset, FS_CardinalityType
<1>2. 0 \in W
  <2>1. \A s \in SUBSET X : Cardinality(s) <= 0 => s = {}
    BY <1>1, FS_EmptySet, SMT
  <2>2. QED  BY <2>1
<1>3. ASSUME NEW n \in Nat, n \in W PROVE n + 1 \in W
  <2>1. ASSUME NEW s \in SUBSET X, Cardinality(s) <= n + 1, s # {} PROVE s \in T
    <3>1. ASSUME NEW x \in s PROVE s \ {x} \in T
      <4>1. s \ {x} \in SUBSET X /\ Cardinality(s \ {x}) <= n
        BY <1>1, <2>1, FS_RemoveElement, SMT
      <4>2. QED  BY <1>3, <4>1
    <3>2. QED  BY <2>1, <3>1
  <2>2. \A s \in SUBSET X : Cardinality(s) <= n + 1 => s \in T
    BY <2>1
  <2>3. QED  BY <2>2, SMT
<1>4. Cardinality(X) \in W
  <2> HIDE DEF W
  <2>1. QED  BY <1>2, <1>3, NatSetInduction, FS_CardinalityType
<1>5. \A s \in SUBSET X : Cardinality(s) <= Cardinality(X)
  BY FS_Subset
<1>6. QED  BY <1>4, <1>5

-----------------------------------------------------------------------------
(* Sums.                                                                   *)

SumOver(f, S) == MapThenSumSet(LAMBDA x : f[x], S)

\* What a sum takes out first.
Pick(s) == CHOOSE x \in s : TRUE

\* I gives the sums over all subsets of a set.
SumFn(I, X, f) ==
    /\ I \in [SUBSET X -> Nat]
    /\ \A S \in SUBSET X :
          /\ I[S] = IF S = {} THEN 0 ELSE f[Pick(S)] + I[S \ {Pick(S)}]
          /\ SumOver(f, S) = I[S]

LEMMA SumSolution ==
  ASSUME NEW X, IsFiniteSet(X), NEW f \in [X -> Nat]
  PROVE  \E I : SumFn(I, X, f)
<1> DEFINE c == [s \in SUBSET X |-> Pick(s)]
           G == [p \in X \X Nat |-> f[p[1]] + p[2]]
<1>1. \A s \in SUBSET X : s # {} => c[s] \in s /\ c[s] = Pick(s)
  BY DEF Pick
<1>2. G \in [X \X Nat -> Nat]
  BY SMT
<1>3. PICK I : FoldFn(I, X, Nat, 0, c, G)
  <2>1. \A s \in SUBSET X : s # {} => c[s] \in s
    BY <1>1
  <2> HIDE DEF c, G
  <2>2. QED  BY <1>2, <2>1, FoldExists
<1>4. \A s \in SUBSET X : I[s] = IF s = {} THEN 0 ELSE f[Pick(s)] + I[s \ {Pick(s)}]
  <2>1. ASSUME NEW s \in SUBSET X, s # {} PROVE I[s] = f[Pick(s)] + I[s \ {Pick(s)}]
    <3>1. Pick(s) \in X /\ s \ {Pick(s)} \in SUBSET X
      BY <1>1, <2>1
    <3>2. I[s \ {Pick(s)}] \in Nat
      BY <1>3, <3>1 DEF FoldFn
    <3>3. G[<<Pick(s), I[s \ {Pick(s)}]>>] = f[Pick(s)] + I[s \ {Pick(s)}]
      BY <3>1, <3>2
    <3>4. QED  BY <1>1, <1>3, <2>1, <3>3 DEF FoldFn
  <2>2. QED  BY <1>3, <2>1 DEF FoldFn
<1>5. ASSUME NEW S \in SUBSET X PROVE SumOver(f, S) = I[S]
  <2> DEFINE Rec(k) == k = [s \in SUBSET S |-> IF s = {} THEN 0
                                               ELSE f[Pick(s)] + k[s \ {Pick(s)}]]
             k == CHOOSE k : Rec(k)
             R == [s \in SUBSET S |-> I[s]]
             T == {s \in SUBSET S : k[s] = I[s]}
  <2>1. SumOver(f, S) = k[S]
    BY DEF SumOver, MapThenSumSet, MapThenFoldSet, Pick
  <2>2. Rec(R)
    <3>1. \A s \in SUBSET S : s \in SUBSET X /\ s \ {Pick(s)} \in SUBSET S
      OBVIOUS
    <3>2. \A s \in SUBSET S : R[s] = IF s = {} THEN 0 ELSE f[Pick(s)] + R[s \ {Pick(s)}]
      BY <1>4, <3>1
    <3>3. QED  BY <3>2
  <2>3. Rec(k)
    BY <2>2
  <2>4. {} \in T
    BY <1>4, <2>3
  <2>5. ASSUME NEW s \in SUBSET S, s # {}, \A x \in s : s \ {x} \in T PROVE s \in T
    <3>1. Pick(s) \in s /\ s \in SUBSET X
      BY <2>5 DEF Pick
    <3>2. k[s \ {Pick(s)}] = I[s \ {Pick(s)}]
      BY <2>5, <3>1
    <3>3. k[s] = f[Pick(s)] + k[s \ {Pick(s)}]
      BY <2>3, <2>5
    <3>4. QED  BY <1>4, <2>5, <3>1, <3>2, <3>3
  <2>6. S \in T
    <3> HIDE DEF T
    <3>1. IsFiniteSet(S)
      BY FS_Subset
    <3>2. QED  BY <2>4, <2>5, <3>1, SubsetInduction
  <2>7. QED  BY <2>1, <2>6
<1>6. QED  BY <1>3, <1>4, <1>5 DEF FoldFn, SumFn

\* Any element may be taken out of a sum.
LEMMA SumRemove ==
  ASSUME NEW X, IsFiniteSet(X), NEW f \in [X -> Nat], NEW S \in SUBSET X, NEW x \in S
  PROVE  /\ SumOver(f, S) \in Nat
         /\ SumOver(f, S \ {x}) \in Nat
         /\ SumOver(f, S) = SumOver(f, S \ {x}) + f[x]
<1>1. PICK I : SumFn(I, X, f)
  BY SumSolution
<1> DEFINE T == {s \in SUBSET X : \A y \in s : I[s] = f[y] + I[s \ {y}]}
<1>2. {} \in T
  OBVIOUS
<1>3. ASSUME NEW s \in SUBSET X, s # {}, \A y \in s : s \ {y} \in T PROVE s \in T
  <2> DEFINE c == Pick(s)
  <2>1. c \in s
    BY <1>3 DEF Pick
  <2> HIDE DEF c
  <2>2. I[s] = f[c] + I[s \ {c}]
    BY <1>1, <1>3 DEF c, SumFn
  <2>3. ASSUME NEW y \in s PROVE I[s] = f[y] + I[s \ {y}]
    <3>1. CASE y = c
      BY <2>2, <3>1
    <3>2. CASE y # c
      <4> DEFINE d == (s \ {y}) \ {c}
      <4>1. I[s \ {c}] = f[y] + I[d]
        <5>1. (s \ {c}) \ {y} = d /\ y \in s \ {c}
          BY <3>2
        <5>2. QED  BY <1>3, <2>1, <5>1
      <4>2. I[s \ {y}] = f[c] + I[d]
        BY <1>3, <2>1, <3>2
      <4>3. f[c] \in Nat /\ f[y] \in Nat /\ I[d] \in Nat
        BY <1>1, <2>1 DEF SumFn
      <4> HIDE DEF d
      <4>4. I[s] = f[c] + (f[y] + I[d]) /\ f[y] + I[s \ {y}] = f[y] + (f[c] + I[d])
        BY <2>2, <4>1, <4>2
      <4>5. f[c] + (f[y] + I[d]) = f[y] + (f[c] + I[d])
        BY <4>3, SMT
      <4>6. QED  BY <4>4, <4>5
    <3>3. QED  BY <3>1, <3>2
  <2>4. QED  BY <2>3
<1>4. S \in T
  <2> HIDE DEF T
  <2>1. QED  BY <1>2, <1>3, SubsetInduction
<1>5. S \ {x} \in SUBSET X /\ f[x] \in Nat
  OBVIOUS
<1>6. I[S] \in Nat /\ I[S \ {x}] \in Nat /\ I[S] = f[x] + I[S \ {x}]
  BY <1>1, <1>4, <1>5 DEF SumFn
<1>7. SumOver(f, S) = I[S] /\ SumOver(f, S \ {x}) = I[S \ {x}]
  BY <1>1, <1>5 DEF SumFn
<1>8. QED  BY <1>5, <1>6, <1>7, SMT

\* The sum over the empty set, over a set with one more element, and the sign.
LEMMA SumFacts ==
  ASSUME NEW X, IsFiniteSet(X), NEW f \in [X -> Nat], NEW S \in SUBSET X
  PROVE  /\ SumOver(f, {}) = 0
         /\ SumOver(f, S) \in Nat
         /\ \A x \in X \ S : SumOver(f, S \cup {x}) = SumOver(f, S) + f[x]
         /\ \A x \in S : SumOver(f, S) >= f[x]
<1>1. SumOver(f, {}) = 0 /\ SumOver(f, S) \in Nat
  <2>1. PICK I : SumFn(I, X, f)
    BY SumSolution
  <2>2. {} \in SUBSET X
    OBVIOUS
  <2>3. SumOver(f, {}) = I[{}] /\ I[{}] = 0 /\ SumOver(f, S) = I[S] /\ I[S] \in Nat
    BY <2>1, <2>2 DEF SumFn
  <2>4. QED  BY <2>3
<1>2. ASSUME NEW x \in X \ S PROVE SumOver(f, S \cup {x}) = SumOver(f, S) + f[x]
  <2>1. (S \cup {x}) \ {x} = S /\ S \cup {x} \in SUBSET X /\ x \in S \cup {x}
    OBVIOUS
  <2>2. QED  BY <2>1, SumRemove
<1>3. ASSUME NEW x \in S PROVE SumOver(f, S) >= f[x]
  <2>1. f[x] \in Nat
    OBVIOUS
  <2>2. SumOver(f, S \ {x}) \in Nat /\ SumOver(f, S) = SumOver(f, S \ {x}) + f[x]
    BY SumRemove
  <2>3. QED  BY <2>1, <2>2, SMT
<1>4. QED  BY <1>1, <1>2, <1>3

\* A larger set has a larger sum.
LEMMA SumMono ==
  ASSUME NEW X, IsFiniteSet(X), NEW f \in [X -> Nat], NEW W \in SUBSET X, NEW S \in SUBSET W
  PROVE  SumOver(f, S) <= SumOver(f, W)
<1> DEFINE D == W \ S
           T == {d \in SUBSET D : SumOver(f, S) <= SumOver(f, S \cup d)}
<1>1. IsFiniteSet(D)
  BY FS_Subset
<1>2. SumOver(f, S) \in Nat /\ S \cup {} = S
  BY SumFacts
<1>3. {} \in T
  BY <1>2, SMT
<1>4. ASSUME NEW d \in SUBSET D, d # {}, \A x \in d : d \ {x} \in T PROVE d \in T
  <2>1. PICK x \in d : TRUE
    BY <1>4
  <2> DEFINE e == S \cup (d \ {x})
  <2>2. e \in SUBSET X /\ x \in X \ e /\ e \cup {x} = S \cup d
    BY <2>1
  <2>3. SumOver(f, S) <= SumOver(f, e)
    BY <1>4, <2>1
  <2> HIDE DEF e
  <2>4. SumOver(f, S \cup d) = SumOver(f, e) + f[x] /\ SumOver(f, e) \in Nat /\ f[x] \in Nat
    BY <2>2, SumFacts, SMT
  <2>5. SumOver(f, S) <= SumOver(f, S \cup d)
    BY <1>2, <2>3, <2>4, SMT
  <2>6. QED  BY <2>5
<1>5. D \in T
  <2>1. D \in SUBSET D
    OBVIOUS
  <2> HIDE DEF T, D
  <2>2. QED  BY <1>1, <1>3, <1>4, <2>1, SubsetInduction
<1>6. S \cup D = W
  OBVIOUS
<1>7. QED  BY <1>5, <1>6
=============================================================================
