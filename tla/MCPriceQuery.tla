---------------------------- MODULE MCPriceQuery ----------------------------
(***************************************************************************)
(* Model values and bounds for the threads of price computation: the       *)
(* searchers with their timeout and the block producer, or one searcher    *)
(* with the helpers of its demand oracle.  The two meet only in the sums   *)
(* that DemandExact speaks of, so a behaviour moves one of them while the  *)
(* other is at its end.  A third kind of behaviour runs a simplex solver.  *)
(***************************************************************************)
EXTENDS Tatonnement, DemandOracle, MCSimplex

vars == <<tat_vars, demand_vars, simplex_vars>>

\* The oracle after its destructor has run.
SearchersGone ==
  /\ oracle = [IdleOracle EXCEPT !.kill = TRUE]
  /\ wpc = [w \in Searchers |-> "exit"]
  /\ search = [w \in Searchers |-> IdleSearch]
  /\ timer = [pc |-> "off", tick |-> 0, block |-> 0, caused |-> FALSE]
  /\ flags = [timeout |-> FALSE, cancel |-> FALSE]
  /\ producer = [pc |-> "gone", block |-> NumBlocks, prices |-> InitialPrices,
                 lower_bounds |-> FALSE]

\* A demand oracle without orderbooks after its destructor has run.
HelpersGone ==
  /\ units = 0
  /\ hpc = [h \in Helpers |-> "exit"]
  /\ hflags = [h \in Helpers |-> [round_start |-> FALSE, round |-> FALSE, sleep |-> FALSE,
                                  round_done |-> FALSE, done |-> TRUE]]
  /\ hsum = [h \in Helpers |-> NoSum]
  /\ caller = [pc |-> "gone", i |-> 0, query |-> 1, round |-> 1]
  /\ total = NoSum

\* A solver that has answered a problem without bounds.
NoProblem ==
  spc = "checked" /\ problem = <<>> /\ tableau = <<>> /\ answer = [feasible |-> TRUE]

Init ==
  \/ tat_Init /\ HelpersGone /\ NoProblem
  \/ SearchersGone /\ demand_Init /\ NoProblem
  \/ SearchersGone /\ HelpersGone /\ simplex_Init

Next ==
  \/ tat_Next /\ UNCHANGED <<demand_vars, simplex_vars>>
  \/ demand_Next /\ UNCHANGED <<tat_vars, simplex_vars>>
  \/ simplex_Next /\ UNCHANGED <<tat_vars, demand_vars>>

Spec == Init /\ [][Next]_vars /\ tat_Fairness /\ demand_Fairness /\ simplex_Fairness
=============================================================================
