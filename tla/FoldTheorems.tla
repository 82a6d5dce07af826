------------------------------ MODULE FoldTheorems ------------------------------
(* What a sum over a finite set of natural numbers is.  The sum of the      *)
(* library is a fold that takes the elements in an order CHOOSE gives; it   *)
(* is the number of elements of a pile, one column of f[x] for each x,      *)
(* whatever the order, and everything else follows from counting.  So it is *)
(* with a sequence of sequences laid end to end: a cell of it has one       *)
(* origin, a row and a place there, and every such place one cell.          *)
EXTENDS Integers, Sequences, FiniteSets, Functions, SequencesExt, FiniteSetTheorems,
        WellFoundedInduction, TLAPS

(* A set of natural numbers that is not empty has a least element.          *)
LEMMA LeastNatural ==
    ASSUME NEW T, T \subseteq Nat, T # {}
    PROVE  \E m \in T : \A k \in T : m <= k
<1>1. \E m \in T : \A k \in T : ~ (<<k, m>> \in OpToRel(<, Nat))
  BY NatLessThanWellFounded, WFMin
<1>2. PICK m \in T : \A k \in T : ~ (<<k, m>> \in OpToRel(<, Nat))
  BY <1>1
<1>3. \A k \in T : ~ (k < m)
  BY <1>2 DEF OpToRel
<1> QED
  BY <1>3, SMT

(* What holds of 0, and of a number up to n if it holds of the one before,  *)
(* holds of n.                                                              *)
LEMMA UpTo ==
    ASSUME NEW T, NEW n \in Nat, 0 \in T, \A i \in 1 .. n : i - 1 \in T => i \in T
    PROVE  n \in T
<1> DEFINE Bad == {i \in Nat : i <= n /\ i \notin T}
<1> SUFFICES ASSUME Bad # {} PROVE FALSE
  <2>1. n <= n
    BY SMT
  <2> QED BY <2>1
<1>1. PICK i \in Bad : \A j \in Bad : i <= j
  BY LeastNatural
<1>2. i \in Nat /\ i <= n /\ i \notin T /\ i # 0
  OBVIOUS
<1>3. i \in 1 .. n /\ i - 1 \in Nat /\ i - 1 <= n /\ ~ (i <= i - 1)
  BY <1>2, SMT
<1>4. i - 1 \in T
  BY <1>1, <1>3
<1> QED
  BY <1>2, <1>3, <1>4

(* A step taken n times from b leaves a trace.                              *)
IsStepOn(g, X, n) == g \in [(1 .. n) \X X -> X]
IsTrace(f, g, b, X, n) ==
    /\ f \in [0 .. n -> X] /\ f[0] = b
    /\ \A i \in 1 .. n : f[i] = g[<<i, f[i - 1]>>]

LEMMA Iterates ==
    ASSUME NEW X, NEW b \in X, NEW n \in Nat, NEW g, IsStepOn(g, X, n)
    PROVE  \E f : IsTrace(f, g, b, X, n)
<1> DEFINE Trace(f, m) == /\ f \in [0 .. m -> X] /\ f[0] = b
                          /\ \A i \in 1 .. m : f[i] = g[<<i, f[i - 1]>>]
           T == {m \in Nat : \E f : Trace(f, m)}
<1> USE DEF IsStepOn
<1>1. 0 \in T
  <2>1. Trace([i \in 0 .. 0 |-> b], 0)
    OBVIOUS
  <2> HIDE DEF Trace
  <2> QED BY <2>1
<1>2. ASSUME NEW m \in 1 .. n, m - 1 \in T PROVE m \in T
  <2>1. PICK h : Trace(h, m - 1)
    BY <1>2
  <2>2. m \in Nat /\ m - 1 \in 0 .. m - 1 /\ 0 \in 0 .. m /\ 0 # m
    BY SMT
  <2>3. \A i \in 0 .. m : i = m \/ i \in 0 .. m - 1
    BY SMT
  <2>4. \A i \in 1 .. m : i = m \/ i \in 1 .. m - 1
    BY SMT
  <2>5. \A i \in 1 .. m : i - 1 \in 0 .. m /\ i - 1 # m /\ i \in 0 .. m
    BY SMT
  <2>6. \A i \in 1 .. m - 1 : i # m
    BY SMT
  <2>7. h[m - 1] \in X /\ g[<<m, h[m - 1]>>] \in X
    BY <2>1, <2>2
  <2> DEFINE f == [i \in 0 .. m |-> IF i = m THEN g[<<m, h[m - 1]>>] ELSE h[i]]
  <2>8. f \in [0 .. m -> X]
    BY <2>1, <2>3, <2>7
  <2>9. f[0] = b
    BY <2>1, <2>2
  <2>10. ASSUME NEW i \in 1 .. m PROVE f[i] = g[<<i, f[i - 1]>>]
    <3>1. f[i - 1] = h[i - 1]
      BY <2>5
    <3>2. CASE i = m
      <4>1. f[i] = g[<<m, h[m - 1]>>]
        BY <2>5, <3>2
      <4> HIDE DEF f
      <4> QED BY <3>1, <3>2, <4>1
    <3>3. CASE i \in 1 .. m - 1
      <4>1. f[i] = h[i]
        BY <2>5, <2>6, <3>3
      <4> HIDE DEF f
      <4> QED BY <2>1, <3>1, <3>3, <4>1
    <3> QED BY <2>4, <3>2, <3>3
  <2> HIDE DEF f
  <2>11. Trace(f, m)
    BY <2>8, <2>9, <2>10
  <2> HIDE DEF Trace
  <2> QED BY <2>2, <2>11
<1>3. n \in T
  <2> HIDE DEF T
  <2> QED BY <1>1, <1>2, UpTo
<1> QED
  BY <1>3 DEF IsTrace

(* A family of finite sets that is not empty has a smallest one.            *)
LEMMA SmallestSet ==
    ASSUME NEW F, F # {}, \A s \in F : IsFiniteSet(s)
    PROVE  \E s \in F : \A t \in F : Cardinality(s) <= Cardinality(t)
<1> DEFINE T == {Cardinality(s) : s \in F}
<1>1. T \subseteq Nat /\ T # {}
  BY FS_CardinalityType
<1>2. PICK m \in T : \A k \in T : m <= k
  BY <1>1, LeastNatural
<1> QED
  BY <1>2

-----------------------------------------------------------------------------
Column(f, x) == {x} \X (1 .. f[x])
Pile(f, s) == UNION {Column(f, x) : x \in s}

LEMMA ColumnCount ==
    ASSUME NEW f, NEW x, f[x] \in Nat
    PROVE  IsFiniteSet(Column(f, x)) /\ Cardinality(Column(f, x)) = f[x]
<1>1. IsFiniteSet(1 .. f[x]) /\ Cardinality(1 .. f[x]) = f[x]
  BY FS_Interval
<1>2. IsFiniteSet({x}) /\ Cardinality({x}) = 1
  BY FS_Singleton
<1>3. /\ IsFiniteSet(Column(f, x))
      /\ Cardinality(Column(f, x)) = Cardinality({x}) * Cardinality(1 .. f[x])
  BY <1>1, <1>2, FS_Product DEF Column
<1> QED
  BY <1>1, <1>2, <1>3, SMT

LEMMA PileIsFinite ==
    ASSUME NEW f, NEW s, IsFiniteSet(s), \A x \in s : f[x] \in Nat
    PROVE  IsFiniteSet(Pile(f, s))
<1> DEFINE C == {Column(f, x) : x \in s}
           g == [x \in s |-> Column(f, x)]
<1>1. g \in Surjection(s, C)
  BY DEF Surjection
<1>2. IsFiniteSet(C)
  BY <1>1, FS_Surjection
<1>3. \A T \in C : IsFiniteSet(T)
  BY ColumnCount
<1> QED
  BY <1>2, <1>3, FS_UNION DEF Pile

LEMMA PileOfDisjoint ==
    ASSUME NEW f, NEW s, NEW t, IsFiniteSet(s), IsFiniteSet(t), s \cap t = {},
           \A x \in s \cup t : f[x] \in Nat
    PROVE  Cardinality(Pile(f, s \cup t))
              = Cardinality(Pile(f, s)) + Cardinality(Pile(f, t))
<1>1. Pile(f, s \cup t) = Pile(f, s) \cup Pile(f, t)
  BY DEF Pile
<1>2. Pile(f, s) \cap Pile(f, t) = {}
  BY DEF Pile, Column
<1>3. IsFiniteSet(Pile(f, s)) /\ IsFiniteSet(Pile(f, t))
  BY PileIsFinite
<1>4. Cardinality(Pile(f, s) \cap Pile(f, t)) = 0
  BY <1>2, FS_EmptySet
<1>5. Cardinality(Pile(f, s)) \in Nat /\ Cardinality(Pile(f, t)) \in Nat
  BY <1>3, FS_CardinalityType
<1> DEFINE A == Pile(f, s)
           B == Pile(f, t)
<1> HIDE DEF A, B
<1>6. Cardinality(A \cup B)
         = Cardinality(A) + Cardinality(B) - Cardinality(A \cap B)
  BY <1>3, FS_Union DEF A, B
<1>7. /\ Cardinality(A \cap B) = 0
      /\ Cardinality(A) \in Nat /\ Cardinality(B) \in Nat
  BY <1>4, <1>5 DEF A, B
<1>8. Cardinality(A \cup B) = Cardinality(A) + Cardinality(B)
  BY <1>6, <1>7, SMT
<1> QED
  BY <1>1, <1>8, Zenon DEF A, B

LEMMA PileOfOne ==
    ASSUME NEW f, NEW x, f[x] \in Nat
    PROVE  Cardinality(Pile(f, {x})) = f[x]
<1>1. Pile(f, {x}) = Column(f, x)
  BY DEF Pile
<1> QED
  BY <1>1, ColumnCount

LEMMA PileLessOne ==
    ASSUME NEW f, NEW s, IsFiniteSet(s), \A x \in s : f[x] \in Nat, NEW x \in s
    PROVE  Cardinality(Pile(f, s)) = f[x] + Cardinality(Pile(f, s \ {x}))
<1>1. s = {x} \cup (s \ {x}) /\ {x} \cap (s \ {x}) = {}
  OBVIOUS
<1>2. IsFiniteSet({x}) /\ IsFiniteSet(s \ {x})
  BY FS_Singleton, FS_RemoveElement
<1>3. Cardinality(Pile(f, {x} \cup (s \ {x})))
         = Cardinality(Pile(f, {x})) + Cardinality(Pile(f, s \ {x}))
  BY <1>1, <1>2, PileOfDisjoint
<1> QED
  BY <1>1, <1>3, PileOfOne

-----------------------------------------------------------------------------
(* One level of the recursion the fold is defined by.                       *)
SumStep(f, S, g) ==
    [s \in SUBSET S |->
        IF s = {} THEN 0
        ELSE f[CHOOSE x \in s : TRUE] + g[s \ {CHOOSE x \in s : TRUE}]]

LEMMA SumIsFixpoint ==
    ASSUME NEW f, NEW S
    PROVE  SumFunctionOnSet(f, S) = (CHOOSE g : g = SumStep(f, S, g))[S]
BY Zenon DEF SumFunctionOnSet, FoldFunctionOnSet, MapThenFoldSet, SumStep

(* The sum is the size of the pile.                                         *)
LEMMA SumIsPile ==
    ASSUME NEW f, NEW S, IsFiniteSet(S), \A x \in S : f[x] \in Nat
    PROVE  SumFunctionOnSet(f, S) = Cardinality(Pile(f, S))
<1> DEFINE size == [s \in SUBSET S |-> Cardinality(Pile(f, s))]
<1>1. size = SumStep(f, S, size)
  <2>1. ASSUME NEW s \in SUBSET S, s = {} PROVE size[s] = 0
    <3>1. Pile(f, s) = {}
      BY <2>1 DEF Pile
    <3> QED BY <3>1, FS_EmptySet
  <2>2. ASSUME NEW s \in SUBSET S, s # {}
        PROVE  size[s] = f[CHOOSE x \in s : TRUE] + size[s \ {CHOOSE x \in s : TRUE}]
    <3> DEFINE x == CHOOSE z \in s : TRUE
    <3>1. x \in s
      BY <2>2
    <3>2. IsFiniteSet(s) /\ s \ {x} \in SUBSET S
      BY FS_Subset
    <3> HIDE DEF x
    <3>3. Cardinality(Pile(f, s)) = f[x] + Cardinality(Pile(f, s \ {x}))
      BY <3>1, <3>2, PileLessOne
    <3>4. size[s] = f[x] + size[s \ {x}]
      BY <3>2, <3>3
    <3> QED BY <3>4 DEF x
  <2> HIDE DEF size
  <2>3. size = [s \in SUBSET S |-> size[s]]
    BY DEF size
  <2> QED BY <2>1, <2>2, <2>3, Zenon DEF SumStep
<1> DEFINE g == CHOOSE h : h = SumStep(f, S, h)
<1>2. g = SumStep(f, S, g)
  BY <1>1, Zenon
<1> HIDE DEF g, size
<1>3. ASSUME NEW h, NEW k, h = SumStep(f, S, h), k = SumStep(f, S, k)
      PROVE  h[S] = k[S]
  <2> DEFINE Bad == {s \in SUBSET S : h[s] # k[s]}
  <2> SUFFICES ASSUME Bad # {} PROVE FALSE
    OBVIOUS
  <2>1. \A s \in Bad : IsFiniteSet(s)
    BY FS_Subset
  <2>2. PICK s \in Bad : \A t \in Bad : Cardinality(s) <= Cardinality(t)
    BY <2>1, SmallestSet
  <2> DEFINE x == CHOOSE z \in s : TRUE
  <2>3. CASE s = {}
    BY <1>3, <2>3 DEF SumStep
  <2>4. CASE s # {}
    <3>1. x \in s /\ IsFiniteSet(s) /\ s \ {x} \in SUBSET S
      BY <2>1, <2>4
    <3>2. h[s] = f[x] + h[s \ {x}] /\ k[s] = f[x] + k[s \ {x}]
      BY <1>3, <2>4, Zenon DEF SumStep
    <3>3. s \ {x} \in Bad
      BY <3>1, <3>2
    <3> HIDE DEF x, Bad
    <3>4. Cardinality(s \ {x}) = Cardinality(s) - 1 /\ Cardinality(s) \in Nat
      BY <3>1, FS_RemoveElement, FS_CardinalityType
    <3>5. Cardinality(s) <= Cardinality(s \ {x})
      BY <2>2, <3>3
    <3> QED BY <3>4, <3>5, SMT
  <2> QED BY <2>3, <2>4
<1>4. g[S] = size[S]
  BY <1>1, <1>2, <1>3
<1> QED
  BY <1>4, SumIsFixpoint, Zenon DEF g, size

-----------------------------------------------------------------------------
(* What the models need of a sum.                                           *)
LEMMA SumType ==
    ASSUME NEW f, NEW S, IsFiniteSet(S), \A x \in S : f[x] \in Nat
    PROVE  SumFunctionOnSet(f, S) \in Nat
BY SumIsPile, PileIsFinite, FS_CardinalityType

LEMMA SumOfNone ==
    ASSUME NEW f
    PROVE  SumFunctionOnSet(f, {}) = 0
<1>1. Pile(f, {}) = {}
  BY DEF Pile
<1> QED
  BY <1>1, SumIsPile, FS_EmptySet

LEMMA SumOfDisjoint ==
    ASSUME NEW f, NEW S, NEW T, IsFiniteSet(S), IsFiniteSet(T), S \cap T = {},
           \A x \in S \cup T : f[x] \in Nat
    PROVE  SumFunctionOnSet(f, S \cup T)
              = SumFunctionOnSet(f, S) + SumFunctionOnSet(f, T)
<1>1. IsFiniteSet(S \cup T)
  BY FS_Union
<1> QED
  BY <1>1, SumIsPile, PileOfDisjoint

LEMMA SumOfOne ==
    ASSUME NEW f, NEW x, f[x] \in Nat
    PROVE  SumFunctionOnSet(f, {x}) = f[x]
<1>1. IsFiniteSet({x}) /\ \A y \in {x} : f[y] \in Nat
  BY FS_Singleton
<1>2. SumFunctionOnSet(f, {x}) = Cardinality(Pile(f, {x}))
  BY <1>1, SumIsPile
<1> QED
  BY <1>2, PileOfOne

LEMMA SumWithOneMore ==
    ASSUME NEW f, NEW S, NEW x, IsFiniteSet(S), x \notin S,
           \A y \in S \cup {x} : f[y] \in Nat
    PROVE  SumFunctionOnSet(f, S \cup {x}) = SumFunctionOnSet(f, S) + f[x]
<1>1. IsFiniteSet({x}) /\ S \cap {x} = {} /\ x \in S \cup {x}
  BY FS_Singleton
<1> QED
  BY <1>1, SumOfDisjoint, SumOfOne

(* The sum over a part is at most the sum over the whole.                   *)
LEMMA SumOverPart ==
    ASSUME NEW f, NEW S, IsFiniteSet(S), NEW T \in SUBSET S,
           \A x \in S : f[x] \in Nat
    PROVE  SumFunctionOnSet(f, T) <= SumFunctionOnSet(f, S)
<1>1. IsFiniteSet(T) /\ IsFiniteSet(S \ T) /\ S = T \cup (S \ T)
  BY FS_Subset, FS_Difference
<1>2. SumFunctionOnSet(f, T \cup (S \ T))
         = SumFunctionOnSet(f, T) + SumFunctionOnSet(f, S \ T)
  BY <1>1, SumOfDisjoint
<1>3. SumFunctionOnSet(f, T) \in Nat /\ SumFunctionOnSet(f, S \ T) \in Nat
  BY <1>1, SumType
<1>4. SumFunctionOnSet(f, T)
         <= SumFunctionOnSet(f, T) + SumFunctionOnSet(f, S \ T)
  BY <1>3, SMT
<1> QED
  BY <1>1, <1>2, <1>4, Zenon

(* A sum looks at its function on its set only.                             *)
LEMMA SumOfSame ==
    ASSUME NEW f, NEW g, NEW S, IsFiniteSet(S), \A x \in S : f[x] \in Nat,
           \A x \in S : f[x] = g[x]
    PROVE  SumFunctionOnSet(f, S) = SumFunctionOnSet(g, S)
<1>1. Pile(f, S) = Pile(g, S)
  BY DEF Pile, Column
<1> QED
  BY <1>1, SumIsPile

(* The order of the terms does not matter: what h renames sums up to the    *)
(* same.                                                                    *)
LEMMA SumRenamed ==
    ASSUME NEW f, NEW S, NEW g, NEW T, IsFiniteSet(S), \A x \in S : f[x] \in Nat,
           NEW h \in Bijection(S, T), \A x \in S : g[h[x]] = f[x]
    PROVE  SumFunctionOnSet(f, S) = SumFunctionOnSet(g, T)
<1>1. /\ h \in [S -> T]
      /\ \A x, y \in S : h[x] = h[y] => x = y
      /\ \A y \in T : \E x \in S : h[x] = y
  BY DEF Bijection, Injection, Surjection, IsInjective
<1>2. IsFiniteSet(T)
  <2>1. ExistsBijection(S, T)
    BY DEF ExistsBijection
  <2> QED BY <2>1, FS_Bijection
<1>3. \A y \in T : g[y] \in Nat
  BY <1>1
<1> DEFINE P == Pile(f, S)
           Q == Pile(g, T)
           m == [c \in P |-> <<h[c[1]], c[2]>>]
<1>4. \A c : c \in P <=> \E x \in S : \E n \in 1 .. f[x] : c = <<x, n>>
  BY DEF Pile, Column
<1>5. \A c : c \in Q <=> \E x \in T : \E n \in 1 .. g[x] : c = <<x, n>>
  BY DEF Pile, Column
<1> HIDE DEF P, Q
<1>6. m \in [P -> Q]
  <2> SUFFICES ASSUME NEW c \in P PROVE <<h[c[1]], c[2]>> \in Q
    OBVIOUS
  <2>1. PICK x, n : x \in S /\ n \in 1 .. f[x] /\ c = <<x, n>>
    BY <1>4
  <2>2. h[x] \in T /\ n \in 1 .. g[h[x]]
    BY <1>1, <2>1
  <2> QED BY <1>5, <2>1, <2>2
<1>7. \A c, d \in P : m[c] = m[d] => c = d
  BY <1>1, <1>4
<1>8. \A d \in Q : \E c \in P : m[c] = d
  <2> SUFFICES ASSUME NEW d \in Q PROVE \E c \in P : m[c] = d
    OBVIOUS
  <2>1. PICK y, n : y \in T /\ n \in 1 .. g[y] /\ d = <<y, n>>
    BY <1>5
  <2>2. PICK x \in S : h[x] = y
    BY <1>1, <2>1
  <2>3. <<x, n>> \in P
    BY <1>4, <2>1, <2>2
  <2> QED BY <2>1, <2>2, <2>3
<1>9. ExistsBijection(P, Q)
  <2> HIDE DEF m
  <2>1. m \in Bijection(P, Q)
    BY <1>6, <1>7, <1>8 DEF Bijection, Injection, Surjection, IsInjective
  <2> QED BY <2>1, Zenon DEF ExistsBijection
<1>10. IsFiniteSet(P)
  BY PileIsFinite DEF P
<1>11. Cardinality(Q) = Cardinality(P)
  BY <1>9, <1>10, FS_Bijection
<1> QED
  BY <1>2, <1>3, <1>11, SumIsPile DEF P, Q

(* Summing up the sums of disjoint blocks is summing up everything.         *)
Blocks(B, I) == UNION {B[i] : i \in I}

LEMMA SumOfBlocks ==
    ASSUME NEW I, NEW B, NEW f, NEW F, IsFiniteSet(I),
           \A i \in I : IsFiniteSet(B[i]),
           \A i, j \in I : i # j => B[i] \cap B[j] = {},
           \A i \in I : \A x \in B[i] : f[x] \in Nat,
           \A i \in I : F[i] = SumFunctionOnSet(f, B[i])
    PROVE  /\ IsFiniteSet(Blocks(B, I))
           /\ SumFunctionOnSet(F, I) = SumFunctionOnSet(f, Blocks(B, I))
<1> DEFINE Fine(J) == /\ IsFiniteSet(Blocks(B, J))
                      /\ SumFunctionOnSet(F, J) = SumFunctionOnSet(f, Blocks(B, J))
           Bad == {J \in SUBSET I : ~ Fine(J)}
<1> SUFFICES ASSUME Bad # {} PROVE FALSE
  OBVIOUS
<1>1. \A J \in Bad : IsFiniteSet(J)
  BY FS_Subset
<1>2. PICK J \in Bad : \A K \in Bad : Cardinality(J) <= Cardinality(K)
  <2> HIDE DEF Bad
  <2> QED BY <1>1, SmallestSet
<1>3. J \subseteq I /\ ~ Fine(J) /\ IsFiniteSet(J)
  BY <1>1
<1>4. \A i \in I : F[i] \in Nat
  BY SumType
<1>5. CASE J = {}
  <2>1. Blocks(B, J) = {}
    BY <1>5 DEF Blocks
  <2>2. SumFunctionOnSet(F, J) = 0 /\ SumFunctionOnSet(f, Blocks(B, J)) = 0
    BY <1>5, <2>1, SumOfNone
  <2> QED BY <1>3, <2>1, <2>2, FS_EmptySet
<1>6. CASE J # {}
  <2>1. PICK i \in J : TRUE
    BY <1>6
  <2> DEFINE K == J \ {i}
  <2>2. K \subseteq I /\ IsFiniteSet(K) /\ i \notin K /\ J = K \cup {i}
    BY <1>3, <2>1, FS_RemoveElement
  <2>3. Cardinality(K) = Cardinality(J) - 1 /\ Cardinality(J) \in Nat
    BY <1>3, <2>1, FS_RemoveElement, FS_CardinalityType
  <2> HIDE DEF K
  <2>4. ~ (Cardinality(J) <= Cardinality(K))
    BY <2>3, SMT
  <2>5. Fine(K)
    BY <1>2, <2>2, <2>4
  <2>6. Blocks(B, J) = Blocks(B, K) \cup B[i]
    BY <2>2 DEF Blocks
  <2>7. Blocks(B, K) \cap B[i] = {}
    BY <1>3, <2>1, <2>2 DEF Blocks
  <2>8. IsFiniteSet(B[i]) /\ \A x \in Blocks(B, K) \cup B[i] : f[x] \in Nat
    BY <1>3, <2>1, <2>2 DEF Blocks
  <2>9. IsFiniteSet(Blocks(B, J))
    <3>1. IsFiniteSet(Blocks(B, K) \cup B[i])
      BY <2>5, <2>8, FS_Union
    <3> QED BY <2>6, <3>1, Zenon
  <2>10. SumFunctionOnSet(f, Blocks(B, J))
            = SumFunctionOnSet(f, Blocks(B, K)) + SumFunctionOnSet(f, B[i])
    BY <2>5, <2>6, <2>7, <2>8, SumOfDisjoint
  <2>11. SumFunctionOnSet(F, J) = SumFunctionOnSet(F, K) + F[i]
    BY <1>3, <1>4, <2>1, <2>2, SumWithOneMore
  <2> QED BY <1>3, <2>1, <2>5, <2>9, <2>10, <2>11
<1> QED
  BY <1>5, <1>6

(* What every element weighs the same is counted, and so is what is in one  *)
(* of disjoint blocks.                                                      *)
LEMMA SumOfEqual ==
    ASSUME NEW f, NEW S, IsFiniteSet(S), NEW w \in Nat, \A x \in S : f[x] = w
    PROVE  SumFunctionOnSet(f, S) = w * Cardinality(S)
<1>1. Pile(f, S) = S \X (1 .. w)
  BY DEF Pile, Column
<1>2. IsFiniteSet(1 .. w) /\ Cardinality(1 .. w) = w
  BY FS_Interval
<1>3. Cardinality(S \X (1 .. w)) = Cardinality(S) * Cardinality(1 .. w)
  BY <1>2, FS_Product
<1>4. SumFunctionOnSet(f, S) = Cardinality(Pile(f, S))
  BY SumIsPile
<1>5. Cardinality(S) \in Nat
  BY FS_CardinalityType
<1>6. Cardinality(S) * w = w * Cardinality(S)
  BY <1>5, SMT
<1> QED
  BY <1>1, <1>2, <1>3, <1>4, <1>6, Zenon

LEMMA WeighedBlocks ==
    ASSUME NEW I, NEW B, NEW F, NEW w \in Nat, IsFiniteSet(I),
           \A i \in I : IsFiniteSet(B[i]),
           \A i, j \in I : i # j => B[i] \cap B[j] = {},
           \A i \in I : F[i] = w * Cardinality(B[i])
    PROVE  /\ IsFiniteSet(Blocks(B, I))
           /\ SumFunctionOnSet(F, I) = w * Cardinality(Blocks(B, I))
<1> DEFINE f == [x \in Blocks(B, I) |-> w]
<1>1. \A i \in I : \A x \in B[i] : x \in Blocks(B, I) /\ f[x] = w
  BY DEF Blocks
<1>2. \A x \in Blocks(B, I) : f[x] = w
  OBVIOUS
<1> HIDE DEF f
<1>3. \A i \in I : F[i] = SumFunctionOnSet(f, B[i])
  <2> SUFFICES ASSUME NEW i \in I PROVE F[i] = SumFunctionOnSet(f, B[i])
    OBVIOUS
  <2>1. IsFiniteSet(B[i]) /\ \A x \in B[i] : f[x] = w
    BY <1>1
  <2>2. SumFunctionOnSet(f, B[i]) = w * Cardinality(B[i])
    BY <2>1, SumOfEqual
  <2> QED BY <2>2
<1>4. \A i \in I : \A x \in B[i] : f[x] \in Nat
  BY <1>1
<1>5. /\ IsFiniteSet(Blocks(B, I))
      /\ SumFunctionOnSet(F, I) = SumFunctionOnSet(f, Blocks(B, I))
  BY <1>3, <1>4, SumOfBlocks
<1>6. SumFunctionOnSet(f, Blocks(B, I)) = w * Cardinality(Blocks(B, I))
  BY <1>2, <1>5, SumOfEqual
<1> QED
  BY <1>5, <1>6

(* A finite set of natural numbers that is not empty has a greatest element:*)
(* the sum of all of them bounds each, and the least bound is one of them.  *)
LEMMA GreatestNatural ==
    ASSUME NEW T, T \subseteq Nat, T # {}, IsFiniteSet(T)
    PROVE  \E m \in T : \A k \in T : k <= m
<1> DEFINE f == [x \in T |-> x]
           B == {n \in Nat : \A k \in T : k <= n}
<1>1. \A x \in T : f[x] \in Nat /\ f[x] = x
  OBVIOUS
<1> HIDE DEF f
<1>2. \A k \in T : k <= SumFunctionOnSet(f, T)
  <2> SUFFICES ASSUME NEW k \in T PROVE k <= SumFunctionOnSet(f, T)
    OBVIOUS
  <2>1. SumFunctionOnSet(f, {k}) = k
    BY <1>1, SumOfOne
  <2>2. {k} \in SUBSET T
    OBVIOUS
  <2>3. SumFunctionOnSet(f, {k}) <= SumFunctionOnSet(f, T)
    BY <1>1, <2>2, SumOverPart, Zenon
  <2> QED BY <2>1, <2>3
<1>3. SumFunctionOnSet(f, T) \in B
  BY <1>1, <1>2, SumType
<1>4. PICK m \in B : \A n \in B : m <= n
  <2>1. B \subseteq Nat /\ B # {}
    BY <1>3
  <2> HIDE DEF B
  <2> QED BY <2>1, LeastNatural
<1>5. m \in T
  <2> SUFFICES ASSUME m \notin T PROVE FALSE
    OBVIOUS
  <2>1. PICK k \in T : TRUE
    OBVIOUS
  <2>2. k \in Nat /\ k <= m /\ k # m /\ m \in Nat
    OBVIOUS
  <2>3. m - 1 \in Nat
    BY <2>2, SMT
  <2>4. \A l \in T : l <= m - 1
    <3>1. \A l \in T : l \in Nat /\ l <= m /\ l # m
      OBVIOUS
    <3> QED BY <2>2, <3>1, SMT
  <2>5. m <= m - 1
    BY <1>4, <2>3, <2>4
  <2> QED BY <2>2, <2>5, SMT
<1> QED
  BY <1>5
-----------------------------------------------------------------------------
(* Rows one after another: the recursive definition has a solution, and     *)
(* what it computes holds every entry of every row, and each once.          *)
Joined(rows, i, g) ==
    [n \in 1 .. i |-> IF n = 1 THEN rows[n] ELSE g[n - 1] \o rows[n]]

LEMMA FlattenIsFixpoint ==
    ASSUME NEW rows, Len(rows) # 0
    PROVE  FlattenSeq(rows)
              = (CHOOSE g : g = Joined(rows, Len(rows), g))[Len(rows)]
BY Zenon DEF FlattenSeq, Joined

LEMMA RowsDefined ==
    ASSUME NEW rows, NEW n \in Nat PROVE \E g : g = Joined(rows, n, g)
<1> DEFINE Bad == {i \in Nat : ~ \E g : g = Joined(rows, i, g)}
<1> SUFFICES ASSUME Bad # {} PROVE FALSE
  OBVIOUS
<1>1. PICK i \in Bad : \A j \in Bad : i <= j
  BY LeastNatural
<1>2. CASE i = 0
  <2> DEFINE e == [m \in 1 .. 0 |-> m]
  <2>1. DOMAIN e = {} /\ DOMAIN Joined(rows, 0, e) = {} /\ 1 .. 0 = {}
    BY DEF Joined
  <2>2. e = Joined(rows, 0, e)
    BY <2>1 DEF Joined
  <2> QED BY <1>2, <2>2
<1>3. CASE i # 0
  <2>1. i - 1 \in Nat /\ i - 1 \notin Bad
    <3>1. i \in Nat /\ i - 1 \in Nat /\ ~ (i <= i - 1)
      BY <1>3, SMT
    <3> HIDE DEF Bad
    <3> QED BY <1>1, <3>1
  <2>2. PICK h : h = Joined(rows, i - 1, h)
    BY <2>1
  <2> DEFINE last == IF i = 1 THEN rows[i] ELSE h[i - 1] \o rows[i]
             g == [m \in 1 .. i |-> IF m = i THEN last ELSE h[m]]
  <2>3. ASSUME NEW m \in 1 .. i
        PROVE  g[m] = IF m = 1 THEN rows[m] ELSE g[m - 1] \o rows[m]
    <3>1. CASE m = i
      <4>1. g[m] = last
        BY <3>1
      <4>2. m # 1 => g[m - 1] = h[m - 1]
        <5>1. m # 1 => m - 1 \in 1 .. i /\ m - 1 # i
          BY <3>1, SMT
        <5> HIDE DEF last
        <5> QED BY <5>1
      <4> HIDE DEF g
      <4> QED BY <3>1, <4>1, <4>2
    <3>2. CASE m # i
      <4>1. m \in 1 .. i - 1 /\ (m # 1 => m - 1 \in 1 .. i /\ m - 1 # i)
        BY <3>2, SMT
      <4>2. g[m] = h[m] /\ (m # 1 => g[m - 1] = h[m - 1])
        <5> HIDE DEF last
        <5> QED BY <3>2, <4>1
      <4>3. h[m] = IF m = 1 THEN rows[m] ELSE h[m - 1] \o rows[m]
        BY <2>2, <4>1, Zenon DEF Joined
      <4> HIDE DEF g
      <4> QED BY <4>2, <4>3
    <3> QED BY <3>1, <3>2
  <2>4. g = [m \in 1 .. i |-> g[m]]
    OBVIOUS
  <2> HIDE DEF g
  <2>5. g = Joined(rows, i, g)
    BY <2>3, <2>4, Zenon DEF Joined
  <2> QED BY <2>5
<1> QED BY <1>2, <1>3

Distinct(s) == \A k, l \in DOMAIN s : s[k] = s[l] => k = l
NoneTwice(rows) ==
    \A i, j \in DOMAIN rows : \A k \in DOMAIN rows[i] : \A l \in DOMAIN rows[j] :
        rows[i][k] = rows[j][l] => i = j /\ k = l

(* Where the entries of s come from: each from one cell of the first i rows.*)
Cells(rows, i) == UNION {{j} \X DOMAIN rows[j] : j \in 1 .. i}
Origin(h, s, rows, i) ==
    /\ h \in [DOMAIN s -> Cells(rows, i)]
    /\ \A p \in DOMAIN s : s[p] = rows[h[p][1]][h[p][2]]
    /\ \A p, q \in DOMAIN s : h[p] = h[q] => p = q
    /\ \A c \in Cells(rows, i) : \E p \in DOMAIN s : h[p] = c

LEMMA CellIs ==
    ASSUME NEW rows, NEW i
    PROVE  \A c : c \in Cells(rows, i)
              <=> \E j \in 1 .. i : \E k \in DOMAIN rows[j] : c = <<j, k>>
BY DEF Cells

LEMMA OneMoreRow ==
    ASSUME NEW S, NEW rows, NEW i \in Nat, i # 0, NEW s \in Seq(S), NEW t \in Seq(S),
           t = rows[i], NEW h, Origin(h, s, rows, i - 1)
    PROVE  \E g : Origin(g, s \o t, rows, i)
<1> DEFINE u == s \o t
           n == Len(s)
           g == [p \in DOMAIN u |-> IF p \in DOMAIN s THEN h[p] ELSE <<i, p - n>>]
<1>1. /\ u \in Seq(S) /\ n \in Nat /\ Len(t) \in Nat
      /\ DOMAIN s = 1 .. n /\ DOMAIN t = 1 .. Len(t) /\ DOMAIN u = 1 .. n + Len(t)
      /\ \A p \in 1 .. n : u[p] = s[p]
      /\ \A p \in 1 .. Len(t) : u[n + p] = t[p]
  OBVIOUS
<1>2. ASSUME NEW p \in DOMAIN u
      PROVE  \/ p \in DOMAIN s /\ u[p] = s[p] /\ g[p] = h[p]
             \/ /\ p \notin DOMAIN s /\ p - n \in DOMAIN t /\ u[p] = t[p - n]
                /\ g[p] = <<i, p - n>>
  <2>1. CASE p \in DOMAIN s
    <3>1. g[p] = h[p]
      BY <2>1
    <3> HIDE DEF u, n, g
    <3> QED BY <1>1, <2>1, <3>1
  <2>2. CASE p \notin DOMAIN s
    <3>1. g[p] = <<i, p - n>>
      BY <2>2
    <3> HIDE DEF u, n, g
    <3>2. p - n \in 1 .. Len(t) /\ p = n + (p - n)
      BY <1>1, <2>2, SMT
    <3> QED BY <1>1, <2>2, <3>1, <3>2
  <2> QED BY <2>1, <2>2
<1>3. \A p \in DOMAIN s : p \in DOMAIN u /\ g[p] = h[p]
  <2>1. \A p \in DOMAIN s : p \in DOMAIN u
    <3> HIDE DEF u, n, g
    <3> QED BY <1>1, SMT
  <2> HIDE DEF u
  <2> QED BY <2>1
<1>4. \A k \in DOMAIN t : n + k \in DOMAIN u /\ g[n + k] = <<i, k>>
  <2> SUFFICES ASSUME NEW k \in DOMAIN t
               PROVE  n + k \in DOMAIN u /\ g[n + k] = <<i, k>>
    OBVIOUS
  <2>1. n + k \in DOMAIN u /\ n + k \notin DOMAIN s /\ (n + k) - n = k
    <3> HIDE DEF u, n, g
    <3> QED BY <1>1, SMT
  <2>2. g[n + k] = <<i, (n + k) - n>>
    <3> HIDE DEF u, n
    <3> QED BY <2>1
  <2> HIDE DEF u, n, g
  <2> QED BY <2>1, <2>2
<1>5. /\ DOMAIN g = DOMAIN u /\ u = s \o t /\ g = [p \in DOMAIN u |-> g[p]]
  OBVIOUS
<1>6. \A j \in 1 .. i : j = i \/ j \in 1 .. i - 1
  BY SMT
<1>7. i \in 1 .. i /\ (\A j \in 1 .. i - 1 : j \in 1 .. i /\ j # i)
  BY SMT
<1>8. /\ h \in [DOMAIN s -> Cells(rows, i - 1)]
      /\ \A p \in DOMAIN s : s[p] = rows[h[p][1]][h[p][2]]
      /\ \A p, q \in DOMAIN s : h[p] = h[q] => p = q
      /\ \A c \in Cells(rows, i - 1) : \E p \in DOMAIN s : h[p] = c
  BY DEF Origin
<1>9. \A p \in DOMAIN s : h[p] \in Cells(rows, i) /\ h[p][1] # i
  <2> SUFFICES ASSUME NEW p \in DOMAIN s
               PROVE  h[p] \in Cells(rows, i) /\ h[p][1] # i
    OBVIOUS
  <2>1. PICK j, k : j \in 1 .. i - 1 /\ k \in DOMAIN rows[j] /\ h[p] = <<j, k>>
    BY <1>8, CellIs
  <2>2. j \in 1 .. i /\ j # i
    BY <1>7, <2>1
  <2> QED BY <2>1, <2>2, CellIs
<1>10. \A k \in DOMAIN t : <<i, k>> \in Cells(rows, i)
  BY <1>7, CellIs
<1> HIDE DEF u, n, g
<1>11. \A p \in DOMAIN u : g[p] \in Cells(rows, i) /\ u[p] = rows[g[p][1]][g[p][2]]
  <2> SUFFICES ASSUME NEW p \in DOMAIN u
               PROVE  g[p] \in Cells(rows, i) /\ u[p] = rows[g[p][1]][g[p][2]]
    OBVIOUS
  <2>1. CASE p \in DOMAIN s /\ u[p] = s[p] /\ g[p] = h[p]
    BY <1>8, <1>9, <2>1
  <2>2. CASE p - n \in DOMAIN t /\ u[p] = t[p - n] /\ g[p] = <<i, p - n>>
    <3>1. g[p][1] = i /\ g[p][2] = p - n
      BY <2>2
    <3> QED BY <1>10, <2>2, <3>1
  <2> QED BY <1>2, <2>1, <2>2
<1>12. ASSUME NEW p \in DOMAIN u, NEW q \in DOMAIN u, g[p] = g[q] PROVE p = q
  <2>1. CASE p \in DOMAIN s
    <3>1. g[p] = h[p] /\ h[p][1] # i
      BY <1>3, <1>9, <2>1
    <3>2. q \in DOMAIN s /\ g[q] = h[q]
      <4>1. q \notin DOMAIN s => g[q] = <<i, q - n>>
        BY <1>2
      <4>2. q \notin DOMAIN s => g[q][1] = i
        BY <4>1
      <4> QED BY <1>3, <1>12, <3>1, <4>2
    <3> QED BY <1>8, <1>12, <2>1, <3>1, <3>2
  <2>2. CASE p \notin DOMAIN s
    <3>1. g[p] = <<i, p - n>>
      BY <1>2, <2>2
    <3>2. q \notin DOMAIN s
      <4>1. g[p][1] = i
        BY <3>1
      <4> QED BY <1>3, <1>9, <1>12, <4>1
    <3>3. g[q] = <<i, q - n>>
      BY <1>2, <3>2
    <3>4. p - n = q - n
      <4>1. g[p][2] = p - n
        BY <3>1
      <4>2. g[q][2] = q - n
        BY <3>3
      <4> QED BY <1>12, <4>1, <4>2
    <3>5. p \in Int /\ q \in Int
      BY <1>1, SMT
    <3> QED BY <1>1, <3>4, <3>5, SMT
  <2> QED BY <2>1, <2>2
<1>13. ASSUME NEW c \in Cells(rows, i) PROVE \E p \in DOMAIN u : g[p] = c
  <2>1. PICK j, k : j \in 1 .. i /\ k \in DOMAIN rows[j] /\ c = <<j, k>>
    BY CellIs
  <2>2. CASE j = i
    BY <1>4, <2>1, <2>2
  <2>3. CASE j \in 1 .. i - 1
    <3>1. c \in Cells(rows, i - 1)
      BY <2>1, <2>3, CellIs
    <3> QED BY <1>3, <1>8, <3>1
  <2> QED BY <1>6, <2>1, <2>2, <2>3
<1>14. g \in [DOMAIN u -> Cells(rows, i)]
  BY <1>5, <1>11
<1>15. Origin(g, u, rows, i)
  BY <1>11, <1>12, <1>13, <1>14 DEF Origin
<1> QED
  BY <1>5, <1>15

(* Rows one after another hold the entries of the rows, each once.          *)
LEMMA FlattenFacts ==
    ASSUME NEW S, NEW rows \in Seq(Seq(S)), Len(rows) # 0
    PROVE  /\ FlattenSeq(rows) \in Seq(S)
           /\ \E h : Origin(h, FlattenSeq(rows), rows, Len(rows))
<1> DEFINE g == CHOOSE h : h = Joined(rows, Len(rows), h)
           n == Len(rows)
<1>1. n \in Nat \ {0} /\ DOMAIN rows = 1 .. n
  OBVIOUS
<1>2. g = Joined(rows, n, g)
  BY <1>1, RowsDefined, Zenon
<1>3. FlattenSeq(rows) = g[n]
  BY FlattenIsFixpoint
<1>4. \A i \in 1 .. n : g[i] = IF i = 1 THEN rows[i] ELSE g[i - 1] \o rows[i]
  <2> HIDE DEF g, n
  <2> QED BY <1>2, Zenon DEF Joined
<1>5. \A i \in 1 .. n : rows[i] \in Seq(S)
  BY <1>1
<1> HIDE DEF g, n
<1> DEFINE Fine(i) == g[i] \in Seq(S) /\ \E h : Origin(h, g[i], rows, i)
<1>6. ASSUME 1 \in 1 .. n PROVE Fine(1)
  <2>1. g[1] = rows[1] /\ rows[1] \in Seq(S)
    BY <1>4, <1>5, <1>6
  <2> DEFINE h == [k \in DOMAIN rows[1] |-> <<1, k>>]
  <2>2. \A c : c \in Cells(rows, 1) <=> \E k \in DOMAIN rows[1] : c = <<1, k>>
    <3>1. \A j : j \in 1 .. 1 <=> j = 1
      BY SMT
    <3> QED BY <3>1, CellIs
  <2>3. Origin(h, rows[1], rows, 1)
    BY <2>2 DEF Origin
  <2> HIDE DEF h
  <2> QED BY <2>1, <2>3
<1>7. ASSUME NEW i \in 1 .. n, i # 1, Fine(i - 1) PROVE Fine(i)
  <2>1. g[i] = g[i - 1] \o rows[i] /\ rows[i] \in Seq(S) /\ g[i - 1] \in Seq(S)
    BY <1>4, <1>5, <1>7
  <2>2. i \in Nat /\ i # 0
    BY <1>1, SMT
  <2>3. PICK h : Origin(h, g[i - 1], rows, i - 1)
    BY <1>7
  <2>4. \E k : Origin(k, g[i - 1] \o rows[i], rows, i)
    BY <2>1, <2>2, <2>3, OneMoreRow
  <2>5. g[i - 1] \o rows[i] \in Seq(S)
    BY <2>1
  <2> QED BY <2>1, <2>4, <2>5
<1>8. Fine(n)
  <2> DEFINE Bad == {i \in Nat : i \in 1 .. n /\ ~ Fine(i)}
  <2> SUFFICES ASSUME Bad # {} PROVE FALSE
    <3>1. n \in Nat /\ n \in 1 .. n
      BY <1>1, SMT
    <3> HIDE DEF Fine
    <3> QED BY <3>1
  <2>1. PICK i \in Bad : \A j \in Bad : i <= j
    <3> HIDE DEF Fine
    <3> QED BY LeastNatural
  <2> HIDE DEF Fine
  <2>2. i \in 1 .. n /\ i \in Nat /\ ~ Fine(i)
    OBVIOUS
  <2>3. i # 1
    BY <1>6, <2>2
  <2>4. i - 1 \in Nat /\ i - 1 \in 1 .. n /\ ~ (i <= i - 1)
    BY <1>1, <2>2, <2>3, SMT
  <2>5. Fine(i - 1)
    <3>1. i - 1 \notin Bad
      BY <2>1, <2>4
    <3> QED BY <2>4, <3>1
  <2> QED BY <1>7, <2>2, <2>3, <2>5
<1> QED
  BY <1>3, <1>8 DEF n

LEMMA FlattenHolds ==
    ASSUME NEW S, NEW rows \in Seq(Seq(S)), Len(rows) # 0
    PROVE  /\ \A i \in DOMAIN rows : \A k \in DOMAIN rows[i] :
                 \E p \in DOMAIN FlattenSeq(rows) : FlattenSeq(rows)[p] = rows[i][k]
           /\ \A p \in DOMAIN FlattenSeq(rows) :
                 \E i \in DOMAIN rows : \E k \in DOMAIN rows[i] :
                    FlattenSeq(rows)[p] = rows[i][k]
           /\ Distinct(FlattenSeq(rows)) <=> NoneTwice(rows)
<1> DEFINE u == FlattenSeq(rows)
           n == Len(rows)
<1>1. PICK h : Origin(h, u, rows, n)
  BY FlattenFacts
<1>2. DOMAIN rows = 1 .. n
  OBVIOUS
<1> HIDE DEF u, n
<1>3. /\ \A p \in DOMAIN u : h[p] \in Cells(rows, n) /\ u[p] = rows[h[p][1]][h[p][2]]
      /\ \A p, q \in DOMAIN u : h[p] = h[q] => p = q
      /\ \A c \in Cells(rows, n) : \E p \in DOMAIN u : h[p] = c
  BY <1>1 DEF Origin
<1>4. \A i \in DOMAIN rows : \A k \in DOMAIN rows[i] :
         \E p \in DOMAIN u : h[p] = <<i, k>> /\ u[p] = rows[i][k]
  <2> SUFFICES ASSUME NEW i \in DOMAIN rows, NEW k \in DOMAIN rows[i]
               PROVE  \E p \in DOMAIN u : h[p] = <<i, k>> /\ u[p] = rows[i][k]
    OBVIOUS
  <2>1. <<i, k>> \in Cells(rows, n)
    BY <1>2, CellIs
  <2>2. PICK p \in DOMAIN u : h[p] = <<i, k>>
    BY <1>3, <2>1
  <2> QED BY <1>3, <2>2
<1>5. \A p \in DOMAIN u : \E i \in DOMAIN rows : \E k \in DOMAIN rows[i] :
         h[p] = <<i, k>> /\ u[p] = rows[i][k]
  <2> SUFFICES ASSUME NEW p \in DOMAIN u
               PROVE  \E i \in DOMAIN rows : \E k \in DOMAIN rows[i] :
                         h[p] = <<i, k>> /\ u[p] = rows[i][k]
    OBVIOUS
  <2>1. PICK i, k : i \in 1 .. n /\ k \in DOMAIN rows[i] /\ h[p] = <<i, k>>
    BY <1>3, CellIs
  <2>2. u[p] = rows[i][k]
    BY <1>3, <2>1
  <2> QED BY <1>2, <2>1, <2>2
<1>6. ASSUME NoneTwice(rows) PROVE Distinct(u)
  <2> SUFFICES ASSUME NEW p \in DOMAIN u, NEW q \in DOMAIN u, u[p] = u[q]
               PROVE  p = q
    BY DEF Distinct
  <2>1. PICK i \in DOMAIN rows :
           \E k \in DOMAIN rows[i] : h[p] = <<i, k>> /\ u[p] = rows[i][k]
    BY <1>5
  <2>2. PICK k \in DOMAIN rows[i] : h[p] = <<i, k>> /\ u[p] = rows[i][k]
    BY <2>1
  <2>3. PICK j \in DOMAIN rows :
           \E l \in DOMAIN rows[j] : h[q] = <<j, l>> /\ u[q] = rows[j][l]
    BY <1>5
  <2>4. PICK l \in DOMAIN rows[j] : h[q] = <<j, l>> /\ u[q] = rows[j][l]
    BY <2>3
  <2>5. i = j /\ k = l
    <3>1. rows[i][k] = rows[j][l]
      BY <2>2, <2>4
    <3> QED BY <1>6, <3>1, Zenon DEF NoneTwice
  <2>6. h[p] = h[q]
    BY <2>2, <2>4, <2>5
  <2> QED BY <1>3, <2>6
<1>7. ASSUME Distinct(u) PROVE NoneTwice(rows)
  <2> SUFFICES ASSUME NEW i \in DOMAIN rows, NEW j \in DOMAIN rows,
                      NEW k \in DOMAIN rows[i], NEW l \in DOMAIN rows[j],
                      rows[i][k] = rows[j][l]
               PROVE  i = j /\ k = l
    BY DEF NoneTwice
  <2>1. PICK p \in DOMAIN u : h[p] = <<i, k>> /\ u[p] = rows[i][k]
    BY <1>4
  <2>2. PICK q \in DOMAIN u : h[q] = <<j, l>> /\ u[q] = rows[j][l]
    BY <1>4
  <2>3. p = q
    BY <1>7, <2>1, <2>2 DEF Distinct
  <2>4. h[p][1] = i /\ h[p][2] = k /\ h[q][1] = j /\ h[q][2] = l
    BY <2>1, <2>2
  <2> QED BY <2>3, <2>4, Zenon
<1> QED
  BY <1>4, <1>5, <1>6, <1>7 DEF u
=============================================================================
