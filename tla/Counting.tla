----------------------------- MODULE Counting -----------------------------
(***************************************************************************)
(* What folds and recursive operators would compute, by counting: sums of  *)
(* set sizes, as the cells of a table with one row per element of a        *)
(* domain, and subsequences, by the rank of their positions.               *)
(***************************************************************************)
EXTENDS Naturals, FiniteSets

\* The elements of the sets f[x], each with its x: as many as the sizes of the
\* sets add up to.
Cells(f) == UNION {{x} \X f[x] : x \in DOMAIN f}

\* The elements of a sequence at the positions I, in their order.
Rank(I, i) == Cardinality({j \in I : j <= i})
Selected(seq, I) ==
  [k \in 1..Cardinality(I) |-> seq[CHOOSE i \in I : Rank(I, i) = k]]
=============================================================================
