-------------------------- MODULE RecursionLemmas --------------------------
(***************************************************************************)
(* Induction and recursion over data, for the proofs about functions that  *)
(* are defined by recursion and about the folds of the community modules.  *)
(* The induction is over a set of numbers; what a step computes is given   *)
(* as a function.                                                          *)
(***************************************************************************)
EXTENDS Integers, Sequences, FiniteSets, FiniteSetTheorems, WellFoundedInduction, TLAPS

(* Numbers *)

LEMMA LeastElement ==
    ASSUME NEW S \in SUBSET Nat, S # {}
    PROVE  \E n \in S : \A m \in S : n <= m
<1> DEFINE R == OpToRel(<, Nat)
<1>1. \E n \in S : \A m \in S : ~ (<<m, n>> \in R)
  BY NatLessThanWellFounded, WFMin
<1>2. \A n, m \in S : m < n => <<m, n>> \in R
  BY DEF OpToRel
<1> HIDE DEF R
<1>3. PICK n \in S : \A m \in S : ~ (<<m, n>> \in R)
  BY <1>1
<1>4. \A m \in S : ~ (m < n)
  BY <1>2, <1>3
<1> QED
  BY <1>4

LEMMA Induction ==
    ASSUME NEW S, 0 \in S, \A n \in Nat : n \in S => n + 1 \in S
    PROVE  Nat \subseteq S
<1> SUFFICES ASSUME Nat \ S # {} PROVE FALSE
  OBVIOUS
<1>1. PICK n \in Nat \ S : \A m \in Nat \ S : n <= m
  BY LeastElement
<1>2. n # 0 /\ n - 1 \in Nat /\ n - 1 \in S
  BY <1>1
<1> QED
  BY <1>1, <1>2

\* What holds of 0, and of a number up to the bound when it does of the one
\* before, holds of all up to the bound.
LEMMA BoundedInduction ==
    ASSUME NEW N \in Nat, NEW S, 0 \in S, \A n \in 0 .. N - 1 : n \in S => n + 1 \in S
    PROVE  0 .. N \subseteq S
<1> DEFINE T == {n \in Nat : n <= N => n \in S}
<1>1. 0 \in T /\ \A n \in Nat : n \in T => n + 1 \in T
  OBVIOUS
<1>2. Nat \subseteq T
  BY ONLY <1>1, Induction
<1> QED
  BY <1>2

LEMMA GreatestElement ==
    ASSUME NEW N \in Nat, NEW S \in SUBSET (0 .. N), S # {}
    PROVE  \E n \in S : \A m \in S : m <= n
<1> DEFINE T == {n \in Nat : \A m \in S : m <= n}
<1>1. N \in T
  OBVIOUS
<1>2. PICK n \in T : \A m \in T : n <= m
  BY <1>1, LeastElement
<1>3. CASE n \in S
  BY <1>2, <1>3
<1>4. CASE n \notin S
  <2>1. \A m \in S : m \in Nat /\ m < n
    BY <1>2, <1>4
  <2>2. n \in Nat /\ n - 1 \in Nat
    <3>1. PICK m \in S : m \in Nat /\ m < n
      BY <2>1
    <3>2. n \in Nat
      OBVIOUS
    <3> HIDE DEF T
    <3> QED
      BY <3>1, <3>2
  <2>3. n - 1 \in T
    BY <2>1, <2>2
  <2> QED
    BY <1>2, <2>2, <2>3
<1> QED
  BY <1>3, <1>4

-----------------------------------------------------------------------------
(* A function defined by recursion on its argument, one number at a time *)

Recurses(f, V, N, base, step) ==
    /\ f \in [0 .. N -> V]
    /\ f[0] = base
    /\ \A k \in 1 .. N : f[k - 1] \in V /\ f[k] = step[<<f[k - 1], k>>]

LEMMA FiniteRecursion ==
    ASSUME NEW V, NEW N \in Nat, NEW base \in V, NEW step \in [V \X (1 .. N) -> V]
    PROVE  \E f : Recurses(f, V, N, base, step)
<1> DEFINE Upto(n, f) == /\ f[0] = base
                         /\ \A k \in 1 .. n : f[k] = step[<<f[k - 1], k>>]
           S == {n \in 0 .. N : \E f \in [0 .. n -> V] : Upto(n, f)}
<1>1. 0 \in S
  <2> DEFINE f == [k \in 0 .. 0 |-> base]
  <2>1. f \in [0 .. 0 -> V] /\ Upto(0, f)
    OBVIOUS
  <2> HIDE DEF f, Upto
  <2> QED
    BY <2>1
<1>2. ASSUME NEW n \in 0 .. N - 1, n \in S PROVE n + 1 \in S
  <2>1. PICK f \in [0 .. n -> V] : Upto(n, f)
    BY <1>2
  <2> DEFINE g == [k \in 0 .. n + 1 |->
                      IF k = n + 1 THEN step[<<f[n], n + 1>>] ELSE f[k]]
  <2>2. step[<<f[n], n + 1>>] \in V
    OBVIOUS
  <2>3. g \in [0 .. n + 1 -> V]
    BY <2>2
  <2>4. g[0] = base
    BY <2>1
  <2>5. \A k \in 1 .. n + 1 : g[k] = step[<<g[k - 1], k>>]
    <3> SUFFICES ASSUME NEW k \in 1 .. n + 1 PROVE g[k] = step[<<g[k - 1], k>>]
      OBVIOUS
    <3>1. k - 1 \in 0 .. n + 1 /\ k - 1 # n + 1 /\ g[k - 1] = f[k - 1]
      OBVIOUS
    <3>2. CASE k = n + 1
      BY <3>1, <3>2
    <3>3. CASE k \in 1 .. n
      <4>1. g[k] = f[k]
        BY <3>3
      <4> QED
        BY <2>1, <3>1, <3>3, <4>1
    <3> QED
      BY <3>2, <3>3
  <2>6. n + 1 \in 0 .. N
    OBVIOUS
  <2>7. Upto(n + 1, g)
    BY <2>4, <2>5
  <2> HIDE DEF g, Upto
  <2> QED
    BY <2>3, <2>6, <2>7
<1>3. N \in S
  <2> HIDE DEF S
  <2>1. 0 .. N \subseteq S
    BY <1>1, <1>2, BoundedInduction
  <2> QED
    BY <2>1
<1>4. PICK f \in [0 .. N -> V] : Upto(N, f)
  BY <1>3
<1>5. \A k \in 1 .. N : k - 1 \in 0 .. N
  OBVIOUS
<1> QED
  BY <1>4, <1>5 DEF Recurses

-----------------------------------------------------------------------------
(* A fold over a finite set, which takes one element after the other *)

\* f is the fold of step over S from base, which takes pick[s] first from s.
FoldsSet(f, S, base, pick, step) ==
    f = [s \in SUBSET S |->
            IF s = {} THEN base ELSE step[<<f[s \ {pick[s]}], pick[s]>>]]

LEMMA SetRecursion ==
    ASSUME NEW V, NEW S, IsFiniteSet(S), NEW base \in V,
           NEW step \in [V \X S -> V],
           NEW pick, \A s \in SUBSET S : s # {} => pick[s] \in s
    PROVE  \E f \in [SUBSET S -> V] : FoldsSet(f, S, base, pick, step)
<1> DEFINE Small(n) == {s \in SUBSET S : Cardinality(s) <= n}
           Fold(n, f) == \A s \in Small(n) :
               f[s] = IF s = {} THEN base
                      ELSE step[<<f[s \ {pick[s]}], pick[s]>>]
           T == {n \in Nat : \E f \in [Small(n) -> V] : Fold(n, f)}
<1>1. \A s \in SUBSET S :
         /\ IsFiniteSet(s) /\ Cardinality(s) \in Nat
         /\ Cardinality(s) = 0 <=> s = {}
         /\ \A x \in s : Cardinality(s \ {x}) = Cardinality(s) - 1
  BY FS_Subset, FS_CardinalityType, FS_EmptySet, FS_RemoveElement
<1>2. 0 \in T
  <2> DEFINE f == [s \in Small(0) |-> base]
  <2>1. \A s \in Small(0) : s = {}
    BY <1>1
  <2>2. f \in [Small(0) -> V] /\ Fold(0, f)
    BY <2>1
  <2> QED
    BY <2>2
<1>3. ASSUME NEW n \in Nat, n \in T PROVE n + 1 \in T
  <2>1. PICK f \in [Small(n) -> V] : Fold(n, f)
    BY <1>3
  <2> DEFINE g == [s \in Small(n + 1) |->
                      IF s = {} THEN base
                      ELSE step[<<f[s \ {pick[s]}], pick[s]>>]]
  <2>2. \A s \in Small(n + 1) :
           s # {} => pick[s] \in S /\ s \ {pick[s]} \in Small(n)
    BY <1>1
  <2>3. \A s \in Small(n) : s \in Small(n + 1) /\ g[s] = f[s]
    BY <1>1, <2>1
  <2> HIDE DEF Small
  <2>4. g \in [Small(n + 1) -> V]
    BY <2>2
  <2>5. Fold(n + 1, g)
    BY <2>2, <2>3
  <2> HIDE DEF g, Fold
  <2> QED
    BY <2>4, <2>5
<1>4. Nat \subseteq T
  <2> HIDE DEF T
  <2> QED
    BY <1>2, <1>3, Induction
<1>5. Cardinality(S) \in T
  BY <1>1, <1>4
<1>6. Small(Cardinality(S)) = SUBSET S
  <2>1. \A s \in SUBSET S : Cardinality(s) <= Cardinality(S)
    BY FS_Subset
  <2> QED
    BY <2>1
<1>7. PICK f \in [SUBSET S -> V] : Fold(Cardinality(S), f)
  <2> HIDE DEF Fold, Small
  <2> QED
    BY <1>5, <1>6
<1>8. FoldsSet(f, S, base, pick, step)
  <2> HIDE DEF Small
  <2> QED
    BY <1>6, <1>7 DEF FoldsSet
<1> QED
  BY <1>8

\* A fold over the positions of a sequence takes the last position first, so it
\* goes through the prefixes.
LastOf(S) == CHOOSE n \in S : \A m \in S : n >= m

LEMMA LastOfPrefix ==
    ASSUME NEW n \in Nat \ {0}
    PROVE  /\ LastOf(1 .. n) = n
           /\ (1 .. n) \ {LastOf(1 .. n)} = 1 .. n - 1
<1>1. LastOf(1 .. n) = n
  BY DEF LastOf
<1> QED
  BY <1>1

LEMMA LastOfPart ==
    ASSUME NEW N \in Nat, NEW S \in SUBSET (1 .. N), S # {}
    PROVE  LastOf(S) \in S /\ \A m \in S : m <= LastOf(S)
<1>1. S \in SUBSET (0 .. N)
  OBVIOUS
<1>2. \E n \in S : \A m \in S : m <= n
  BY <1>1, GreatestElement
<1>3. \E n \in S : \A m \in S : n >= m
  BY <1>2
<1> QED
  BY <1>3 DEF LastOf

FoldsPrefixes(f, V, N, base, step) ==
    /\ f \in [SUBSET (1 .. N) -> V]
    /\ f[{}] = base
    /\ \A s \in SUBSET (1 .. N) : s # {} =>
          /\ LastOf(s) \in 1 .. N
          /\ f[s \ {LastOf(s)}] \in V
          /\ f[s] = step[<<f[s \ {LastOf(s)}], LastOf(s)>>]

LEMMA PrefixFold ==
    ASSUME NEW V, NEW N \in Nat, NEW base \in V, NEW step \in [V \X (1 .. N) -> V]
    PROVE  \E f : FoldsPrefixes(f, V, N, base, step)
<1> DEFINE S == 1 .. N
           pick == [s \in SUBSET S |-> LastOf(s)]
<1>1. IsFiniteSet(S)
  BY FS_Interval
<1>2. \A s \in SUBSET S : s # {} => pick[s] \in s
  BY LastOfPart
<1>3. \A s \in SUBSET S : pick[s] = LastOf(s)
  OBVIOUS
<1> HIDE DEF S, pick
<1>4. PICK f \in [SUBSET S -> V] : FoldsSet(f, S, base, pick, step)
  BY <1>1, <1>2, SetRecursion DEF S
<1>5. f = [s \in SUBSET S |->
              IF s = {} THEN base ELSE step[<<f[s \ {pick[s]}], pick[s]>>]]
  BY <1>4 DEF FoldsSet
<1>6. f[{}] = base
  BY <1>5
<1>7. ASSUME NEW s \in SUBSET S, s # {}
      PROVE  /\ LastOf(s) \in S /\ f[s \ {LastOf(s)}] \in V
             /\ f[s] = step[<<f[s \ {LastOf(s)}], LastOf(s)>>]
  BY <1>2, <1>3, <1>5, <1>7
<1> QED
  BY <1>6, <1>7 DEF S, FoldsPrefixes

\* What each step of a fold keeps, its outcome has.
LEMMA PrefixInduction ==
    ASSUME NEW N \in Nat, NEW f, NEW V, f[{}] \in V,
           \A s \in SUBSET (1 .. N) :
              s # {} /\ LastOf(s) \in 1 .. N /\ f[s \ {LastOf(s)}] \in V => f[s] \in V
    PROVE  f[1 .. N] \in V
<1> DEFINE S == {n \in 0 .. N : f[1 .. n] \in V}
<1>1. 0 \in S
  <2>1. 1 .. 0 = {}
    OBVIOUS
  <2> QED
    BY <2>1
<1>2. ASSUME NEW n \in 0 .. N - 1, n \in S PROVE n + 1 \in S
  <2> DEFINE m == n + 1
  <2>1. /\ m \in Nat \ {0} /\ m \in 1 .. N /\ m \in 0 .. N /\ m - 1 = n /\ m \in 1 .. m
        /\ \A i \in 1 .. m : i \in 1 .. N
    OBVIOUS
  <2> HIDE DEF m
  <2>2. LastOf(1 .. m) = m /\ (1 .. m) \ {LastOf(1 .. m)} = 1 .. m - 1
    BY <2>1, LastOfPrefix
  <2>3. f[(1 .. m) \ {LastOf(1 .. m)}] \in V
    BY <1>2, <2>1, <2>2
  <2>4. 1 .. m \in SUBSET (1 .. N) /\ 1 .. m # {}
    BY <2>1
  <2>5. f[1 .. m] \in V
    BY <2>1, <2>2, <2>3, <2>4
  <2> QED
    BY <2>1, <2>5 DEF m
<1> HIDE DEF S
<1>3. 0 .. N \subseteq S
  BY <1>1, <1>2, BoundedInduction
<1>4. N \in S
  BY <1>3
<1> QED
  BY <1>4 DEF S

\* The fold behind MapThenSumSet: the sum of natural numbers is one, and not
\* zero when one of them is not.
Sums(sum, S, term) ==
    sum = [s \in SUBSET S |->
              IF s = {} THEN 0
              ELSE LET x == CHOOSE x \in s : TRUE IN term[x] + sum[s \ {x}]]

LEMMA SumExists ==
    ASSUME NEW S, IsFiniteSet(S), NEW term \in [S -> Nat]
    PROVE  \E sum : Sums(sum, S, term)
<1> DEFINE pick == [s \in SUBSET S |-> CHOOSE x \in s : TRUE]
           step == [c \in Nat \X S |-> term[c[2]] + c[1]]
<1>1. step \in [Nat \X S -> Nat]
  OBVIOUS
<1>2. \A s \in SUBSET S : s # {} => pick[s] \in s
  OBVIOUS
<1>3. PICK f \in [SUBSET S -> Nat] : FoldsSet(f, S, 0, pick, step)
  <2> HIDE DEF pick, step
  <2> QED
    BY <1>1, <1>2, SetRecursion
<1>4. f = [s \in SUBSET S |->
              IF s = {} THEN 0 ELSE step[<<f[s \ {pick[s]}], pick[s]>>]]
  BY <1>3 DEF FoldsSet
<1>5. \A s \in SUBSET S : s # {} =>
         step[<<f[s \ {pick[s]}], pick[s]>>]
            = LET x == CHOOSE x \in s : TRUE IN term[x] + f[s \ {x}]
  <2> SUFFICES ASSUME NEW s \in SUBSET S, s # {}
               PROVE  step[<<f[s \ {pick[s]}], pick[s]>>]
                         = term[pick[s]] + f[s \ {pick[s]}]
    OBVIOUS
  <2>1. pick[s] \in S
    BY <1>2
  <2> HIDE DEF pick
  <2>2. <<f[s \ {pick[s]}], pick[s]>> \in Nat \X S
    BY <2>1
  <2> QED
    BY <2>2
<1>6. Sums(f, S, term)
  <2> HIDE DEF pick, step
  <2> QED
    BY <1>4, <1>5 DEF Sums
<1> QED
  BY <1>6

LEMMA SumOfNats ==
    ASSUME NEW S, IsFiniteSet(S), NEW term \in [S -> Nat],
           NEW sum, Sums(sum, S, term)
    PROVE  sum[S] \in Nat /\ (sum[S] > 0 <=> \E x \in S : term[x] > 0)
<1> DEFINE Good(s) == sum[s] \in Nat /\ (sum[s] > 0 <=> \E x \in s : term[x] > 0)
           T == {n \in Nat : \A s \in SUBSET S : Cardinality(s) = n => Good(s)}
<1>1. \A s \in SUBSET S :
         /\ IsFiniteSet(s) /\ Cardinality(s) \in Nat
         /\ Cardinality(s) = 0 <=> s = {}
         /\ \A x \in s : Cardinality(s \ {x}) = Cardinality(s) - 1
  BY FS_Subset, FS_CardinalityType, FS_EmptySet, FS_RemoveElement
<1>2. sum[{}] = 0
  BY DEF Sums
<1>3. \A s \in SUBSET S : s # {} =>
         \E x \in s : sum[s] = term[x] + sum[s \ {x}]
  BY DEF Sums
<1>4. 0 \in T
  <2>1. Good({})
    BY <1>2
  <2> HIDE DEF Good
  <2> QED
    BY <1>1, <2>1
<1>5. ASSUME NEW n \in Nat, n \in T PROVE n + 1 \in T
  <2> SUFFICES ASSUME NEW s \in SUBSET S, Cardinality(s) = n + 1 PROVE Good(s)
    OBVIOUS
  <2>1. s # {}
    BY <1>1
  <2>2. PICK x \in s : sum[s] = term[x] + sum[s \ {x}]
    BY <1>3, <2>1
  <2>3. s \ {x} \in SUBSET S /\ Cardinality(s \ {x}) = n
    BY <1>1
  <2>4. Good(s \ {x})
    BY <1>5, <2>3
  <2>5. term[x] \in Nat
    OBVIOUS
  <2> QED
    BY <2>2, <2>4, <2>5
<1>6. Nat \subseteq T
  <2> HIDE DEF T
  <2> QED
    BY <1>4, <1>5, Induction
<1>7. Cardinality(S) \in T
  BY <1>1, <1>6
<1> QED
  BY <1>7

-----------------------------------------------------------------------------
(* Sequences over a set that may hold strings *)

LEMMA AppendTyped ==
    ASSUME NEW T
    PROVE  \A list \in Seq(T), element \in T : Append(list, element) \in Seq(T)
OBVIOUS

LEMMA WiderSeq ==
    ASSUME NEW A, NEW B, A \subseteq B
    PROVE  Seq(A) \subseteq Seq(B)
OBVIOUS

=============================================================================
