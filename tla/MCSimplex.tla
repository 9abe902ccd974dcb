----------------------------- MODULE MCSimplex -----------------------------
(***************************************************************************)
(* Problems for the simplex solvers.  With three assets: the orderbook of  *)
(* assets 0 and 1 with up to three others, maxima of 1 or 2 and lower      *)
(* bounds of 0 or 1; three orderbooks of which some have identical bounds. *)
(* With four assets: every three orderbooks, with a maximum of 1.          *)
(***************************************************************************)
EXTENDS Simplex

SetsToTry == {S \in SUBSET Pairs : 0 \in S /\ Cardinality(S) <= 4}
MCMaxima == UNION {[S -> {1, 2}] : S \in SetsToTry}
MCBounds ==
  UNION {[S -> {<<0, 2>>, <<1, 2>>}] : S \in SetsToTry}
  \cup [{0, 1, 3} -> {<<1, 1>>, <<0, 2>>, <<1, 2>>}]

ThreeOrderbooks == {[o \in S |-> 1] : S \in {T \in SUBSET Pairs : Cardinality(T) = 3}}
=============================================================================
