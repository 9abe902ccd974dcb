------------------------------ MODULE Simplex ------------------------------
(***************************************************************************)
(* The two simplex solvers of simplex/ for the linear program without      *)
(* taxes: TaxFreeSimplex, which maximises the trade between assets on a    *)
(* dense tableau of two-bit coefficients, and SimplexLPSolver, which       *)
(* decides on a sparse tableau whether the lower and upper bounds of the   *)
(* orderbooks admit a solution.                                            *)
(*                                                                         *)
(* A problem gives the bounds of the orderbooks it is told about, added in *)
(* the order of their indices.  One step is one pivot, or one pass of      *)
(* construct_solution over the assets.                                     *)
(***************************************************************************)
EXTENDS PriceArith, FiniteSets, FiniteSetsExt, SequencesExt

CONSTANTS
  SolverAssets,  \* number of assets
  WordCols,      \* columns in a word of a dense row (32 in the code)
  Maxima,        \* problems of TaxFreeSimplex: index of an orderbook -> its maximum
  Bounds         \* problems of SimplexLPSolver: index -> <<lower bound, upper bound>>

Pairs == 0..get_num_orderbooks_by_asset_count(SolverAssets) - 1
AssetIds == 0..SolverAssets - 1
SellOf(o) == category_from_idx(o, SolverAssets).sell
BuyOf(o) == category_from_idx(o, SolverAssets).buy

ASSUME SimplexAssumption ==
  /\ SolverAssets \in Nat \ {0, 1} /\ WordCols \in Nat \ {0}
  /\ \A m \in Maxima : DOMAIN m \subseteq Pairs /\ \A o \in DOMAIN m : m[o] \in Nat
  /\ \A b \in Bounds : /\ DOMAIN b \subseteq Pairs
                       /\ \A o \in DOMAIN b : 0 <= b[o][1] /\ b[o][1] <= b[o][2]

\* Columns: [y_ij e_ij s_a], and t_a in the feasibility problem.
SlackOf(o) == Cardinality(Pairs) + o
AssetSlackOf(a) == 2 * Cardinality(Pairs) + a
FeasibilitySlackOf(a) == 2 * Cardinality(Pairs) + SolverAssets + a
DenseCols == 0..AssetSlackOf(SolverAssets) - 1
SparseCols == 0..FeasibilitySlackOf(SolverAssets) - 1

VARIABLES
  spc,      \* what the solver is doing
  problem,  \* the bounds it was given
  tableau,  \* constraint rows, objective row and basis
  answer    \* the solution, or whether there is one

simplex_vars == <<spc, problem, tableau, answer>>

InOrder(S) ==
  [i \in 1..Cardinality(S) |-> CHOOSE x \in S : Cardinality({y \in S : y < x}) = i - 1]

\* The columns of the orderbooks that were added and of their assets.
ActiveCols(books) ==
  UNION {{o, SlackOf(o), AssetSlackOf(SellOf(o)), AssetSlackOf(BuyOf(o)),
          FeasibilitySlackOf(SellOf(o)), FeasibilitySlackOf(BuyOf(o))} : o \in books}

\* The first of the candidate rows that has the least value.
least_row(candidates, value) ==
  {candidates[i] : i \in {k \in DOMAIN candidates :
     /\ \A j \in DOMAIN candidates : value[candidates[k]] <= value[candidates[j]]
     /\ \A j \in 1..k - 1 : value[candidates[j]] > value[candidates[k]]}}

----------------------------------------------------------------------------
(* The dense tableau.  A BitcompressedRow has two bits for every column,   *)
(* in words: 00 is 0, 01 is 1 and 10 is -1.                                *)

num_words == (Cardinality(DenseCols) + WordCols - 1) \div WordCols
Bits(word, offset) == (word \div 4^offset) % 4
Coefficient(row, c) ==
  LET bits == Bits(row.words[c \div WordCols + 1], c % WordCols)
  IN CASE bits = 0 -> 0 [] bits = 1 -> 1 [] OTHER -> -1

\* 11, the sum of 1 and -1 and the complement of 0, becomes 00.
normalize(word) ==
  MapThenSumSet(LAMBDA i : (Bits(word, i) % 3) * 4^i, 0..WordCols - 1)
plus(row, other) ==
  [words |-> [i \in 1..num_words |-> normalize(row.words[i] + other.words[i])],
   value |-> row.value + other.value]
negate(row) ==
  [words |-> [i \in 1..num_words |-> normalize(4^WordCols - 1 - row.words[i])],
   value |-> -row.value]

\* set_pos and set_neg of the columns of a new row.
NewRow(pos, neg, value) ==
  LET within(cols, i) == {c \in cols : c \div WordCols = i - 1}
      word(i) == MapThenSumSet(LAMBDA c : 4^(c % WordCols), within(pos, i))
                 + MapThenSumSet(LAMBDA c : 2 * 4^(c % WordCols), within(neg, i))
  IN [words |-> [i \in 1..num_words |-> word(i)], value |-> value]

\* A row for every asset, bought - sold + s_a = 0, then one for every
\* orderbook, y + e = maximum; the slack variables are the basis.
add_asset_constraint(a) ==
  NewRow({AssetSlackOf(a)} \cup {o \in Pairs : BuyOf(o) = a}, {o \in Pairs : SellOf(o) = a}, 0)
add_orderbook_constraint(o, value) == NewRow({o, SlackOf(o)}, {}, value)
TaxFreeSimplex(m) ==
  LET books == InOrder(DOMAIN m)
  IN [rows  |-> [i \in 1..SolverAssets |-> add_asset_constraint(i - 1)]
                \o [i \in 1..Len(books) |-> add_orderbook_constraint(books[i], m[books[i]])],
      basis |-> [i \in 1..SolverAssets |-> AssetSlackOf(i - 1)]
                \o [i \in 1..Len(books) |-> SlackOf(books[i])],
      objective |-> [c \in DenseCols |-> IF c \in DOMAIN m THEN 1 ELSE 0],
      value |-> 0]

\* Columns with which the objective grows.
Improving_NonNegative == {c \in DenseCols \cap ActiveCols(DOMAIN problem) : tableau.objective[c] >= 0}
Improving == {c \in DenseCols \cap ActiveCols(DOMAIN problem) : tableau.objective[c] > 0}

\* The pivot row is subtracted from the rows and from the objective as often as
\* the pivot column occurs in them.
TUPivot(r, c) ==
  LET pivot == tableau.rows[r]
      coeff == tableau.objective[c]
      cleared(row) == CASE Coefficient(row, c) < 0 -> plus(row, pivot)
                        [] Coefficient(row, c) > 0 -> negate(plus(negate(row), pivot))
                        [] OTHER -> row
  IN [rows |-> [i \in DOMAIN tableau.rows |->
                  IF i = r THEN pivot ELSE cleared(tableau.rows[i])],
      basis |-> [tableau.basis EXCEPT ![r] = c],
      objective |-> [d \in DenseCols |-> tableau.objective[d] - coeff * Coefficient(pivot, d)],
      value |-> tableau.value - coeff * pivot.value]

\* TUSimplex::do_pivot on the first improving column.
RowsWith(c) ==
  SelectSeq([i \in DOMAIN tableau.rows |-> i], LAMBDA i : Coefficient(tableau.rows[i], c) > 0)
DensePivot ==
  /\ spc = "maximise"
  /\ \E c \in Improving :
       /\ c = Min(Improving)
       /\ \/ RowsWith(c) = <<>> /\ spc' = "threw" /\ UNCHANGED tableau
          \/ \E r \in least_row(RowsWith(c), [i \in DOMAIN tableau.rows |-> tableau.rows[i].value]) :
               tableau' = TUPivot(r, c) /\ UNCHANGED spc
  /\ UNCHANGED <<problem, answer>>

\* construct_solution: the orderbooks in the basis have the values of their
\* rows, those that are not are sorted by asset.
InBasis(o) == \E i \in DOMAIN tableau.basis : tableau.basis[i] = o
BasisValue(o) ==
  IF InBasis(o) THEN tableau.rows[Max({i \in DOMAIN tableau.basis : tableau.basis[i] = o})].value
  ELSE 0
ConstructSolution ==
  LET unsolved == {o \in DOMAIN problem : ~InBasis(o)}
  IN /\ spc = "maximise" /\ Improving = {}
     /\ answer' = [solution |-> [o \in Pairs |-> BasisValue(o)],
                   unsolved |-> [a \in {SellOf(o) : o \in unsolved} \cup {BuyOf(o) : o \in unsolved} |->
                                   {o \in unsolved : a \in {SellOf(o), BuyOf(o)}}]]
     /\ spc' = "peel"
     /\ UNCHANGED <<problem, tableau>>

\* What asset a's other orderbooks bring in, less what they take out.
SolveLast(solution, a, o) ==
  LET into == {p \in Pairs : BuyOf(p) = a /\ SellOf(p) # SellOf(o)}
      outof == {p \in Pairs : SellOf(p) = a /\ BuyOf(p) # BuyOf(o)}
  IN [solution EXCEPT ![o] = MapThenSumSet(LAMBDA p : solution[p], into)
                             - MapThenSumSet(LAMBDA p : solution[p], outof)]

\* One pass over the assets that are left.  An asset with one orderbook to
\* solve goes; the orderbook stays in the set of its other asset.
PeelPass ==
  LET single == {a \in DOMAIN answer.unsolved : Cardinality(answer.unsolved[a]) = 1}
      solve(solution, a) == SolveLast(solution, a, CHOOSE o \in answer.unsolved[a] : TRUE)
  IN /\ spc = "peel"
     /\ answer' = [solution |-> FoldLeft(solve, answer.solution, InOrder(single)),
                   unsolved |-> [a \in DOMAIN answer.unsolved \ single |-> answer.unsolved[a]]]
     /\ spc' = IF DOMAIN answer.unsolved = {} THEN "solved"
               ELSE IF single = {} THEN "stuck" ELSE spc
     /\ UNCHANGED <<problem, tableau>>

----------------------------------------------------------------------------
(* The sparse tableau.  A row lists its columns with a positive and those  *)
(* with a negative coefficient, a column its rows in the same way.  A row  *)
(* is negated by its flag in negations: then both lists of the row, and    *)
(* the place of the row in the lists of its columns, mean the opposite.    *)

\* Orderbooks with identical bounds are left out, and so is what they trade.
Added(b) == {o \in DOMAIN b : b[o][1] < b[o][2]}

\* What the lower bounds put on the right of asset a's constraint.
adjust_asset_constraint(b, a) ==
  MapThenSumSet(LAMBDA o : b[o][1], {o \in Added(b) : SellOf(o) = a})
  - MapThenSumSet(LAMBDA o : b[o][1], {o \in Added(b) : BuyOf(o) = a})

SimplexLPSolver(b) ==
  LET books == InOrder(Added(b))
      asset_row(a) == [pos |-> {AssetSlackOf(a)} \cup {o \in Pairs : BuyOf(o) = a},
                       neg |-> {FeasibilitySlackOf(a)} \cup {o \in Pairs : SellOf(o) = a},
                       value |-> adjust_asset_constraint(b, a)]
      book_row(o) == [pos |-> {o, SlackOf(o)}, neg |-> {}, value |-> b[o][2] - b[o][1]]
      rows == [i \in 1..SolverAssets |-> asset_row(i - 1)]
              \o [i \in 1..Len(books) |-> book_row(books[i])]
  IN [rows |-> rows,
      cols |-> [c \in SparseCols |-> [pos |-> {i \in DOMAIN rows : c \in rows[i].pos},
                                      neg |-> {i \in DOMAIN rows : c \in rows[i].neg}]],
      negations |-> [i \in DOMAIN rows |-> FALSE],
      basis |-> [i \in 1..SolverAssets |-> IF rows[i].value < 0 THEN FeasibilitySlackOf(i - 1)
                                           ELSE AssetSlackOf(i - 1)]
                \o [i \in 1..Len(books) |-> SlackOf(books[i])],
      objective |-> [c \in SparseCols |-> 0], value |-> 0, nz_hints |-> <<>>]

\* What the lists of a row mean.
Pos(t, i) == IF t.negations[i] THEN t.rows[i].neg ELSE t.rows[i].pos
Neg(t, i) == IF t.negations[i] THEN t.rows[i].pos ELSE t.rows[i].neg
Value(t, i) == IF t.negations[i] THEN -t.rows[i].value ELSE t.rows[i].value

\* ObjectiveRow::subtract_sparse.  A column whose coefficient becomes positive
\* is put on the stack of hints.
Rises_FromBelow(before, after) == after > 0 /\ before < 0
Rises(before, after) == after > 0 /\ before <= 0
subtract_sparse(t, i, c) ==
  LET before == t.objective
      after == [d \in SparseCols |->
                  before[d] - (CASE d \in Pos(t, i) -> before[c]
                                 [] d \in Neg(t, i) -> -before[c]
                                 [] OTHER -> 0)]
      hints(cols) == InOrder({d \in cols : Rises(before[d], after[d])})
  IN [t EXCEPT !.objective = after, !.value = @ - before[c] * Value(t, i),
               !.nz_hints = @ \o hints(t.rows[i].pos) \o hints(t.rows[i].neg)]

\* check_feasibility, before the pivots: the t_a have to go, and the rows that
\* start with one in the basis are turned around.
StartCheck ==
  /\ spc = "check"
  /\ LET objective == [c \in SparseCols |->
                         IF \E a \in AssetIds : c = FeasibilitySlackOf(a) THEN -1 ELSE 0]
         turn(t, a) ==
           IF t.basis[a + 1] # FeasibilitySlackOf(a) THEN t
           ELSE subtract_sparse([t EXCEPT !.negations[a + 1] = ~@], a + 1, FeasibilitySlackOf(a))
     IN tableau' = FoldLeft(turn, [tableau EXCEPT !.objective = objective], InOrder(AssetIds))
  /\ spc' = "feasibility"
  /\ UNCHANGED <<problem, answer>>

\* get_next_pivot_column: hints are popped until one still is to be used.
UsableHints ==
  {h \in DOMAIN tableau.nz_hints : LET c == tableau.nz_hints[h]
                                   IN c \in ActiveCols(Added(problem)) /\ tableau.objective[c] > 0}

\* get_pivot_row: the rows listed as positive come before those listed as
\* negative that are negated.
PivotRows(t, c) ==
  InOrder({i \in t.cols[c].pos : ~t.negations[i]}) \o InOrder({i \in t.cols[c].neg : t.negations[i]})

\* guarded_insert_pos and guarded_insert_neg: a column of the pivot row cancels
\* against the opposite sign in the row, or is inserted.
guarded_insert(own, other, same, opposite) == (own \ opposite) \cup (same \ other)

\* The rows of a pivot that lose column d, which has a coefficient of the given
\* sign in the pivot row.
try_erase(t, rows, d, positive) == {i \in rows : d \in (IF positive THEN Neg(t, i) ELSE Pos(t, i))}

\* insert_pos, insert_neg, remove_pos and remove_neg of a column put a row into,
\* or take it out of, the list that the row's flag says at that moment.
UpdatedList(t, old, inserted, removed, positive, in_pos) ==
  (old \ {i \in removed : (~positive # t.negations[i]) = in_pos})
  \cup {i \in inserted : (positive # t.negations[i]) = in_pos}

set_single_pos(negated, r) == [pos |-> IF negated THEN {} ELSE {r}, neg |-> IF negated THEN {r} ELSE {}]

\* SparseTableau::do_pivot.  Rows with the pivot column are negated, if need be,
\* to have it with coefficient -1, get the pivot row added column by column,
\* and are turned back.  The columns follow.
SparsePivotOn(t, r, c) ==
  LET touched == (t.cols[c].pos \cup t.cols[c].neg) \ {r}
      flipped == [i \in DOMAIN t.rows |-> IF i \in touched THEN i \in t.cols[c].pos
                                          ELSE t.negations[i]]
      during == [t EXCEPT !.negations = flipped]
      P == Pos(t, r)
      N == Neg(t, r)
      pos(i) == guarded_insert(Pos(during, i), Neg(during, i), P, N)
      neg(i) == guarded_insert(Neg(during, i), Pos(during, i), N, P)
      sum(i) == Value(during, i) + Value(t, r)
      row(i) == IF flipped[i] THEN [pos |-> neg(i), neg |-> pos(i), value |-> -sum(i)]
                ELSE [pos |-> pos(i), neg |-> neg(i), value |-> sum(i)]
      erased(d) == try_erase(during, touched, d, d \in P)
      list(d, old, in_pos) ==
        UpdatedList(during, old, touched \ erased(d), erased(d), d \in P, in_pos)
      column(d) == IF d = c THEN set_single_pos(t.negations[r], r)
                   ELSE IF d \notin P \cup N THEN t.cols[d]
                   ELSE [pos |-> list(d, t.cols[d].pos, TRUE), neg |-> list(d, t.cols[d].neg, FALSE)]
  IN [t EXCEPT !.rows = [i \in DOMAIN t.rows |-> IF i \in touched THEN row(i) ELSE t.rows[i]],
               !.cols = [d \in SparseCols |-> column(d)]]

SparsePivot ==
  /\ spc = "feasibility"
  /\ \E h \in UsableHints :
       /\ h = Max(UsableHints)
       /\ LET c == tableau.nz_hints[h]
              popped == [tableau EXCEPT !.nz_hints = SubSeq(@, 1, h - 1)]
          IN \/ PivotRows(tableau, c) = <<>> /\ spc' = "threw" /\ UNCHANGED tableau
             \/ \E r \in least_row(PivotRows(tableau, c), [i \in DOMAIN tableau.rows |-> Value(tableau, i)]) :
                  /\ tableau' = [subtract_sparse(SparsePivotOn(popped, r, c), r, c) EXCEPT !.basis[r] = c]
                  /\ UNCHANGED spc
  /\ UNCHANGED <<problem, answer>>

\* No hint is left; the problem is feasible if the t_a add up to 0.
EndCheck ==
  /\ spc = "feasibility" /\ UsableHints = {}
  /\ answer' = [feasible |-> tableau.value = 0]
  /\ tableau' = [tableau EXCEPT !.nz_hints = <<>>]
  /\ spc' = "checked"
  /\ UNCHANGED problem

----------------------------------------------------------------------------
simplex_Init ==
  /\ answer = [solution |-> <<>>]
  /\ \/ \E m \in Maxima : problem = m /\ tableau = TaxFreeSimplex(m) /\ spc = "maximise"
     \/ \E b \in Bounds : problem = b /\ tableau = SimplexLPSolver(b) /\ spc = "check"

simplex_Next ==
  DensePivot \/ ConstructSolution \/ PeelPass \/ StartCheck \/ SparsePivot \/ EndCheck

\* A solver is one thread that runs until it has its answer.
simplex_Fairness == WF_simplex_vars(simplex_Next)

simplex_Spec == simplex_Init /\ [][simplex_Next]_simplex_vars /\ simplex_Fairness

----------------------------------------------------------------------------
(* Properties.                                                             *)

LargestBound ==
  Max({0} \cup UNION {{m[o] : o \in DOMAIN m} : m \in Maxima}
          \cup UNION {{b[o][2] : o \in DOMAIN b} : b \in Bounds})
Sum(f, pairs) == MapThenSumSet(LAMBDA o : f[o], pairs)

\* Trades in which every asset is sold as much as it is bought.
Circulations ==
  {f \in [Pairs -> 0..LargestBound] :
     \A a \in AssetIds : Sum(f, {o \in Pairs : SellOf(o) = a}) = Sum(f, {o \in Pairs : BuyOf(o) = a})}
Within(f, books, Lower(_), Upper(_)) ==
  \A o \in Pairs : IF o \in books THEN Lower(o) <= f[o] /\ f[o] <= Upper(o) ELSE f[o] = 0

\* TaxFreeSimplex returns a trade within the maxima that no other exceeds.
Maximal ==
  LET possible == {f \in Circulations : Within(f, DOMAIN problem, LAMBDA o : 0, LAMBDA o : problem[o])}
  IN /\ answer.solution \in possible
     /\ \A f \in possible : Sum(f, Pairs) <= Sum(answer.solution, Pairs)

\* Rows and columns of the sparse tableau hold the same coefficients
\* (SparseTableau::integrity_check), and no improving column has lost its hint.
Intact ==
  /\ \A i \in DOMAIN tableau.rows, c \in SparseCols :
       /\ (c \in tableau.rows[i].pos) = (i \in tableau.cols[c].pos)
       /\ (c \in tableau.rows[i].neg) = (i \in tableau.cols[c].neg)
  /\ \A c \in ActiveCols(Added(problem)) :
       tableau.objective[c] > 0 => \E h \in DOMAIN tableau.nz_hints : tableau.nz_hints[h] = c

\* The solvers agree with the definition of the problem: TaxFreeSimplex finds a
\* trade of the greatest volume, check_feasibility says whether there is a
\* trade within the bounds of the orderbooks it took, although it looks only at
\* columns it was hinted at; neither throws ("failed to find pivot row",
\* "stuck"); and the rows and columns of the sparse tableau never come apart
\* (do_pivot, construct_solution, get_next_pos, check_feasibility,
\* integrity_check).
SolverExact ==
  /\ spc \notin {"threw", "stuck"}
  /\ spc = "solved" => Maximal
  /\ spc = "feasibility" => Intact
  /\ spc = "checked" =>
       answer.feasible = \E f \in Circulations :
                  Within(f, Added(problem), LAMBDA o : problem[o][1], LAMBDA o : problem[o][2])

\* Neither solver goes around in a circle of pivots, which leave the objective
\* where it is whenever the pivot row's value is 0, as all asset rows' are at
\* the start (run_simplex, get_next_pivot_row).  An exception ends a solver too:
\* that there is none is part of SolverExact.
SolverEnds == <>(spc \in {"solved", "checked", "stuck", "threw"})

\* Edges that are not in the basis are peeled off, one after the other, until
\* none is left (construct_solution).
EveryEdgePeeled == spc # "stuck"
=============================================================================
