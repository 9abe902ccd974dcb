-------------------------- MODULE Counting_proof --------------------------
(***************************************************************************)
(* Least elements, and how the number of cells changes when one row does.  *)
(***************************************************************************)
EXTENDS Integers, Sequences, Counting, FiniteSetsExt, FiniteSetTheorems, WellFoundedInduction, TLAPS

\* A set of numbers that is not empty has a least one.
LEMMA LeastElement ==
  ASSUME NEW S, S \subseteq Nat, S # {}
  PROVE  Min(S) \in S /\ \A x \in S : Min(S) <= x
<1>1. IsWellFoundedOn(OpToRel(<, Nat), Nat)
  BY NatLessThanWellFounded
<1>2. \E x \in S : \A y \in S : ~ (<<y, x>> \in OpToRel(<, Nat))
  BY <1>1, WFMin
<1>3. \A x, y \in S : <<y, x>> \in OpToRel(<, Nat) <=> y < x
  BY DEF OpToRel
<1>4. \E x \in S : \A y \in S : ~ (y < x)
  BY <1>2, <1>3
<1>5. \E x \in S : \A y \in S : x =< y
  BY <1>4
<1> QED
  BY <1>5 DEF Min

\* A row of cells is as large as its set.
LEMMA RowCardinality ==
  ASSUME NEW x, NEW S, IsFiniteSet(S)
  PROVE  IsFiniteSet({x} \X S) /\ Cardinality({x} \X S) = Cardinality(S)
<1>1. IsFiniteSet({x}) /\ Cardinality({x}) = 1
  BY FS_Singleton
<1>2. IsFiniteSet({x} \X S) /\ Cardinality({x} \X S) = Cardinality({x}) * Cardinality(S)
  BY <1>1, FS_Product
<1>3. Cardinality(S) \in Nat
  BY FS_CardinalityType
<1> QED
  BY <1>1, <1>2, <1>3

\* The cells of the rows other than a's.
OtherCells(f, a) == UNION {{x} \X f[x] : x \in DOMAIN f \ {a}}

\* The cells of f are its row at a and the cells of the other rows.
LEMMA CellsSplit ==
  ASSUME NEW f, NEW a \in DOMAIN f
  PROVE  /\ Cells(f) = OtherCells(f, a) \cup ({a} \X f[a])
         /\ OtherCells(f, a) \cap ({a} \X f[a]) = {}
<1>1. \A z : z \in Cells(f) <=> \E x \in DOMAIN f : z \in {x} \X f[x]
  BY DEF Cells
<1>2. \A z : z \in OtherCells(f, a) <=> \E x \in DOMAIN f \ {a} : z \in {x} \X f[x]
  BY DEF OtherCells
<1>3. \A z : z \in Cells(f) <=> z \in OtherCells(f, a) \/ z \in {a} \X f[a]
  BY <1>1, <1>2, Zenon
<1>4. ASSUME NEW z \in OtherCells(f, a), z \in {a} \X f[a] PROVE FALSE
  <2>1. PICK x \in DOMAIN f \ {a} : z \in {x} \X f[x]
    BY <1>2
  <2>2. z[1] = x /\ z[1] = a
    BY <1>4, <2>1
  <2> QED
    BY <2>2
<1>5. Cells(f) = OtherCells(f, a) \cup ({a} \X f[a])
  BY <1>3, Zenon
<1> QED
  BY <1>4, <1>5

\* Changing one row changes the number of cells by the difference of the rows.
LEMMA CellsUpdate ==
  ASSUME NEW f, NEW g, DOMAIN g = DOMAIN f, NEW a \in DOMAIN f,
         \A x \in DOMAIN f : x # a => g[x] = f[x],
         IsFiniteSet(Cells(f)), IsFiniteSet(f[a]), IsFiniteSet(g[a])
  PROVE  /\ IsFiniteSet(Cells(g))
         /\ Cardinality(Cells(g)) = Cardinality(Cells(f)) - Cardinality(f[a]) + Cardinality(g[a])
<1>1. PICK Rest : Rest = OtherCells(f, a)
  OBVIOUS
<1>2. Rest = OtherCells(g, a)
  <2>1. \A z : z \in OtherCells(f, a) <=> \E x \in DOMAIN f \ {a} : z \in {x} \X f[x]
    BY DEF OtherCells
  <2>2. \A z : z \in OtherCells(g, a) <=> \E x \in DOMAIN f \ {a} : z \in {x} \X g[x]
    BY DEF OtherCells
  <2>3. \A x \in DOMAIN f \ {a} : {x} \X f[x] = {x} \X g[x]
    OBVIOUS
  <2>4. \A z : z \in OtherCells(f, a) <=> z \in OtherCells(g, a)
    BY <2>1, <2>2, <2>3, Zenon
  <2> QED
    BY <1>1, <2>4, Zenon
<1>3. Cells(f) = Rest \cup ({a} \X f[a]) /\ Rest \cap ({a} \X f[a]) = {}
  BY <1>1, CellsSplit
<1>4. Cells(g) = Rest \cup ({a} \X g[a]) /\ Rest \cap ({a} \X g[a]) = {}
  BY <1>2, CellsSplit
<1>5. IsFiniteSet(Rest)
  <2>1. Rest \in SUBSET Cells(f)
    BY <1>3
  <2> QED
    BY <2>1, FS_Subset
<1>6. /\ IsFiniteSet({a} \X f[a]) /\ Cardinality({a} \X f[a]) = Cardinality(f[a])
      /\ IsFiniteSet({a} \X g[a]) /\ Cardinality({a} \X g[a]) = Cardinality(g[a])
  BY RowCardinality
<1>7. /\ Cardinality(Cells(f)) = Cardinality(Rest) + Cardinality({a} \X f[a]) - Cardinality({})
  BY <1>3, <1>5, <1>6, FS_Union
<1>8. /\ IsFiniteSet(Cells(g))
      /\ Cardinality(Cells(g)) = Cardinality(Rest) + Cardinality({a} \X g[a]) - Cardinality({})
  BY <1>4, <1>5, <1>6, FS_Union
<1>9. /\ Cardinality(Rest) \in Nat /\ Cardinality(f[a]) \in Nat /\ Cardinality(g[a]) \in Nat
      /\ Cardinality({}) = 0
  BY <1>5, FS_CardinalityType, FS_EmptySet
<1> QED
  BY <1>6, <1>7, <1>8, <1>9

\* No cells, no matter how many rows.
LEMMA CellsEmpty ==
  ASSUME NEW f, \A x \in DOMAIN f : f[x] = {}
  PROVE  IsFiniteSet(Cells(f)) /\ Cardinality(Cells(f)) = 0
<1>1. Cells(f) = {}
  BY DEF Cells
<1> QED
  BY <1>1, FS_EmptySet

\* The numbers up to n.
LEMMA SizeUpTo ==
  ASSUME NEW n \in Nat
  PROVE  IsFiniteSet(1 .. n) /\ Cardinality(1 .. n) = n
BY FS_Interval

-----------------------------------------------------------------------------
(* Subsequences.                                                           *)

\* The ranks of finitely many positions number them in their order.
LEMMA Ranks ==
  ASSUME NEW n \in Nat, NEW I \in SUBSET (1..n)
  PROVE  /\ IsFiniteSet(I) /\ Cardinality(I) \in Nat
         /\ \A i \in I : Rank(I, i) \in 1..Cardinality(I)
         /\ \A i, j \in I : i < j => Rank(I, i) < Rank(I, j)
         /\ \A k \in 1..Cardinality(I) : \E i \in I : Rank(I, i) = k
<1> DEFINE Low(i) == {j \in I : j <= i}
           f == [i \in I |-> Rank(I, i)]
<1>1. IsFiniteSet(I) /\ Cardinality(I) \in Nat
  BY SizeUpTo, FS_Subset, FS_CardinalityType
<1>2. ASSUME NEW i \in I
      PROVE  /\ IsFiniteSet(Low(i)) /\ Rank(I, i) = Cardinality(Low(i))
             /\ Rank(I, i) \in Nat /\ Rank(I, i) # 0 /\ Rank(I, i) <= Cardinality(I)
  <2>1. Low(i) \in SUBSET I
    OBVIOUS
  <2>2. IsFiniteSet(Low(i)) /\ Cardinality(Low(i)) <= Cardinality(I)
    BY <1>1, <2>1, FS_Subset
  <2>3. Cardinality(Low(i)) \in Nat
    BY <2>2, FS_CardinalityType
  <2>4. i \in Low(i)
    OBVIOUS
  <2>5. Cardinality(Low(i)) # 0
    BY <2>2, <2>4, FS_EmptySet
  <2> QED
    BY <2>2, <2>3, <2>5 DEF Rank
<1>3. ASSUME NEW i \in I PROVE Rank(I, i) \in 1..Cardinality(I)
  <2>1. Rank(I, i) \in Nat /\ Rank(I, i) # 0 /\ Rank(I, i) <= Cardinality(I)
    BY <1>2
  <2> QED
    BY <1>1, <2>1
<1>4. ASSUME NEW i \in I, NEW j \in I, i < j
      PROVE  Rank(I, i) < Rank(I, j)
  <2>1. i \in Nat /\ j \in Nat /\ \A x \in I : x \in Nat
    OBVIOUS
  <2>2. \A x \in I : x <= i => x <= j
    BY <1>4, <2>1
  <2>3. Low(i) \in SUBSET Low(j)
    BY <2>2
  <2>4. j <= j /\ ~(j <= i)
    BY <1>4, <2>1
  <2>5. Low(i) \in SUBSET Low(j) /\ j \in Low(j) /\ j \notin Low(i)
    BY <2>3, <2>4
  <2>6. Cardinality(Low(i)) <= Cardinality(Low(j)) /\ Cardinality(Low(j)) # Cardinality(Low(i))
    BY <1>2, <2>5, FS_Subset
  <2> QED
    BY <1>2, <2>6
<1>5. f \in [I -> 1..Cardinality(I)]
  BY <1>3
<1>6. \A i, j \in I : f[i] = f[j] => i = j
  <2>1. \A i, j \in I : i < j => f[i] < f[j]
    BY <1>4
  <2>2. \A i \in I : f[i] \in Nat
    BY <1>3
  <2>3. \A i, j \in I : i < j \/ i = j \/ j < i
    OBVIOUS
  <2> HIDE DEF f
  <2> QED
    BY <2>1, <2>2, <2>3
<1>7. f \in Injection(I, 1..Cardinality(I))
  BY <1>5, <1>6 DEF Injection, IsInjective
<1>8. IsFiniteSet(1..Cardinality(I)) /\ Cardinality(1..Cardinality(I)) = Cardinality(I)
  BY <1>1, SizeUpTo
<1>9. f \in Surjection(I, 1..Cardinality(I))
  BY <1>7, <1>8, FS_Injection
<1>10. \A k \in 1..Cardinality(I) : \E i \in I : f[i] = k
  BY <1>9 DEF Surjection
<1>11. \A k \in 1..Cardinality(I) : \E i \in I : Rank(I, i) = k
  BY <1>10
<1> QED
  BY <1>1, <1>3, <1>4, <1>11

\* The positions that a subsequence takes its elements from: e[k] for the k-th.
Picks(e, I) ==
  /\ e \in [1..Cardinality(I) -> I]
  /\ \A k, l \in 1..Cardinality(I) : k < l => e[k] < e[l]
  /\ \A i \in I : \E k \in 1..Cardinality(I) : e[k] = i

\* A subsequence has the chosen elements, in their order, and no other.
LEMMA SelectedElements ==
  ASSUME NEW S, NEW seq \in Seq(S), NEW I \in SUBSET (1..Len(seq))
  PROVE  /\ Selected(seq, I) \in Seq(S)
         /\ Cardinality(I) \in Nat /\ Len(Selected(seq, I)) = Cardinality(I)
         /\ \E e : Picks(e, I) /\ \A k \in 1..Cardinality(I) : Selected(seq, I)[k] = seq[e[k]]
<1> DEFINE e == [k \in 1..Cardinality(I) |-> CHOOSE i \in I : Rank(I, i) = k]
<1>1. Len(seq) \in Nat
  OBVIOUS
<1>2. /\ Cardinality(I) \in Nat
      /\ \A i \in I : Rank(I, i) \in 1..Cardinality(I)
      /\ \A i, j \in I : i < j => Rank(I, i) < Rank(I, j)
      /\ \A k \in 1..Cardinality(I) : \E i \in I : Rank(I, i) = k
  BY <1>1, Ranks
<1>3. \A k \in 1..Cardinality(I) : e[k] \in I /\ Rank(I, e[k]) = k
  BY <1>2
<1>4. e \in [1..Cardinality(I) -> I]
  BY <1>3
<1>5. \A i, j \in I : Rank(I, i) = Rank(I, j) => i = j
  <2>1. \A i \in I : Rank(I, i) \in Nat /\ i \in Nat
    BY <1>1, <1>2
  <2> QED
    BY <1>2, <2>1
<1> HIDE DEF e
<1>6. \A i \in I : \E k \in 1..Cardinality(I) : e[k] = i
  BY <1>2, <1>3, <1>5
<1>7. ASSUME NEW k \in 1..Cardinality(I), NEW l \in 1..Cardinality(I), k < l
      PROVE  e[k] < e[l]
  <2>1. e[k] \in I /\ e[l] \in I /\ e[k] \in Nat /\ e[l] \in Nat
    <3>1. e[k] \in I /\ e[l] \in I
      BY <1>3
    <3>2. \A x \in I : x \in Nat
      BY <1>1
    <3> QED
      BY <3>1, <3>2
  <2>2. Rank(I, e[k]) = k /\ Rank(I, e[l]) = l
    BY <1>3
  <2>3. ~(e[l] < e[k]) /\ e[k] # e[l]
    BY <1>2, <1>7, <2>1, <2>2
  <2> QED
    BY <2>1, <2>3
<1>8. Picks(e, I)
  BY <1>4, <1>6, <1>7 DEF Picks
<1>9. Selected(seq, I) = [k \in 1..Cardinality(I) |-> seq[e[k]]]
  BY DEF Selected, e
<1>10. \A k \in 1..Cardinality(I) : seq[e[k]] \in S
  <2>1. \A i \in I : seq[i] \in S
    OBVIOUS
  <2> QED
    BY <1>3, <2>1
<1>11. Selected(seq, I) \in Seq(S) /\ Len(Selected(seq, I)) = Cardinality(I)
  BY <1>2, <1>9, <1>10
<1> QED
  BY <1>2, <1>8, <1>9, <1>11

\* A set of numbers up to n that is not empty has a greatest one.
LEMMA GreatestElement ==
  ASSUME NEW n \in Nat, NEW S \in SUBSET (0..n), S # {}
  PROVE  Max(S) \in S /\ \A x \in S : x <= Max(S)
<1> DEFINE R == {n - x : x \in S}
<1>1. R \subseteq Nat /\ R # {}
  <2>1. \A x \in S : x \in 0..n
    OBVIOUS
  <2>2. \A x \in S : n - x \in Nat
    BY <2>1
  <2> QED
    BY <2>2
<1>2. PICK r \in R : \A y \in R : r <= y
  BY <1>1, LeastElement
<1>3. PICK x \in S : r = n - x
  OBVIOUS
<1>4. \A y \in S : n - x <= n - y
  BY <1>2, <1>3
<1>5. \A y \in S : x >= y
  BY <1>4
<1>6. \E z \in S : \A y \in S : z >= y
  BY <1>5
<1>7. Max(S) \in S /\ \A y \in S : Max(S) >= y
  BY <1>6 DEF Max
<1> QED
  BY <1>7

\* Between a number outside a set and a later one in it, the set begins.
LEMMA FirstInside ==
  ASSUME NEW X, NEW lo \in Nat, NEW hi \in Nat, lo <= hi, lo \notin X, hi \in X
  PROVE  \E m \in (lo + 1)..hi : m \in X /\ m - 1 \notin X
<1> DEFINE S == {m \in (lo + 1)..hi : m \in X}
<1>1. hi \in S /\ S \subseteq Nat
  OBVIOUS
<1>2. PICK m \in S : \A y \in S : m <= y
  BY <1>1, LeastElement
<1>3. m - 1 \notin S
  BY <1>2
<1>4. m - 1 = lo \/ m - 1 \in (lo + 1)..hi
  OBVIOUS
<1> QED
  BY <1>3, <1>4

\* Induction up to n, over the set of the numbers that have a property.
LEMMA Reached ==
  ASSUME NEW n \in Nat, NEW G, 0 \in G, \A i \in 1..n : i - 1 \in G => i \in G
  PROVE  \A i \in 0..n : i \in G
<1> SUFFICES ASSUME NEW i \in 0..n, i \notin G PROVE FALSE
  OBVIOUS
<1> DEFINE X == {j \in 0..n : j \notin G}
<1>1. i \in X /\ 0 \notin X /\ i \in Nat /\ 0 <= i
  OBVIOUS
<1>2. PICK m \in (0 + 1)..i : m \in X /\ m - 1 \notin X
  <2> HIDE DEF X
  <2> QED
    BY <1>1, FirstInside
<1>3. m \in 1..n /\ m - 1 \in 0..n
  OBVIOUS
<1> QED
  BY <1>2, <1>3

-----------------------------------------------------------------------------
(* What is computed step by step.                                          *)

\* The values f of something that starts at b and that each i up to n changes by g.
Steps(f, b, n, g) == f[0] = b /\ \A i \in 1..n : f[i] = g[<<f[i - 1], i>>]
LEMMA Iterated ==
  ASSUME NEW S, NEW b \in S, NEW n \in Nat, NEW g \in [S \X (1..n) -> S]
  PROVE  \E f : f \in [0..n -> S] /\ Steps(f, b, n, g)
<1> DEFINE Short == {m \in 0..n : ~ \E f \in [0..m -> S] : Steps(f, b, m, g)}
<1> USE DEF Steps
<1>1. 0 \notin Short
  <2>1. [i \in 0..0 |-> b] \in [0..0 -> S] /\ Steps([i \in 0..0 |-> b], b, 0, g)
    OBVIOUS
  <2> QED
    BY <2>1
<1>2. ASSUME NEW m \in 1..n, m - 1 \notin Short PROVE m \notin Short
  <2>1. PICK f \in [0..(m - 1) -> S] : Steps(f, b, m - 1, g)
    BY <1>2
  <2>2. PICK h : h = [i \in 0..m |-> IF i = m THEN g[<<f[m - 1], m>>] ELSE f[i]]
    OBVIOUS
  <2>3. m - 1 \in 0..(m - 1) /\ <<f[m - 1], m>> \in S \X (1..n)
    OBVIOUS
  <2>4. h \in [0..m -> S]
    <3>1. g[<<f[m - 1], m>>] \in S
      BY <2>3
    <3>2. \A i \in 0..m : i # m => i \in 0..(m - 1)
      OBVIOUS
    <3> QED
      BY <2>2, <3>1, <3>2
  <2>5. Steps(h, b, m, g)
    <3>1. h[0] = b
      BY <2>1, <2>2
    <3>2. ASSUME NEW i \in 1..m PROVE h[i] = g[<<h[i - 1], i>>]
      <4>1. i \in 0..m /\ i - 1 \in 0..m /\ i - 1 # m
        OBVIOUS
      <4>2. h[i - 1] = f[i - 1]
        BY <2>2, <4>1
      <4>3. CASE i = m
        BY <2>2, <4>1, <4>2, <4>3
      <4>4. CASE i # m
        <5>1. i \in 1..(m - 1)
          BY <4>4
        <5> QED
          BY <2>1, <2>2, <4>1, <4>2, <4>4, <5>1
      <4> QED
        BY <4>3, <4>4
    <3> QED
      BY <3>1, <3>2
  <2> QED
    BY <2>4, <2>5
<1> HIDE DEF Short
<1>3. n \notin Short
  <2> DEFINE G == {m \in 0..n : m \notin Short}
  <2>1. 0 \in G
    BY <1>1
  <2>2. ASSUME NEW m \in 1..n, m - 1 \in G PROVE m \in G
    <3>1. m - 1 \notin Short
      BY <2>2
    <3>2. m \notin Short
      BY <1>2, <3>1
    <3> QED
      BY <3>2
  <2> HIDE DEF G
  <2>3. \A m \in 0..n : m \in G
    BY <2>1, <2>2, Reached
  <2> QED
    BY <2>3 DEF G
<1> QED
  BY <1>3 DEF Short
=============================================================================
