---------------------------- MODULE DemandOracle ----------------------------
(***************************************************************************)
(* The parallel demand oracle of one price search                          *)
(* (price_computation/demand_oracle.h).  The searching thread wakes its    *)
(* helpers for a query, and in every round of the query hands them prices, *)
(* computes the demand of its own orderbooks, and adds up theirs.  A       *)
(* helper sleeps on a condition variable between queries and spins on two  *)
(* flags during one, holding its mutex all the while.                      *)
(*                                                                         *)
(* The demand of an orderbook at some prices is abstracted to the pair of  *)
(* the two, so that a sum tells which pairs went into it, and how often.   *)
(***************************************************************************)
EXTENDS Naturals

CONSTANTS
  NumHelpers,   \* NUM_WORKERS (5 in the code)
  WorkUnits,    \* numbers of orderbooks to try
  NumQueries,   \* bound on the queries of the search thread
  NumRounds     \* bound on the rounds of a query

ASSUME DemandAssumption ==
  /\ NumHelpers \in Nat \ {0} /\ NumQueries \in Nat \ {0} /\ NumRounds \in Nat \ {0}
  /\ WorkUnits \subseteq Nat

VARIABLES
  units,    \* num_work_units, fixed when the oracle is made
  hpc,      \* helpers: where each one is
  hflags,   \* the flags of a DemandOracleWorker
  hsum,     \* its supplies and demands
  caller,   \* the searching thread: its place, helper index, query and round
  total     \* the supplies and demands it adds up

demand_vars == <<units, hpc, hflags, hsum, caller, total>>

Helpers == 0..NumHelpers - 1
QueryRounds == (1..NumQueries) \X (1..NumRounds)
Sums(n) == [(0..n - 1) \X QueryRounds -> Nat]

\* The orderbooks of a helper, and those of the searching thread.
HelperUnits(h) ==
  LET shares == NumHelpers + 1
  IN (units * (h + 1)) \div shares .. (units * (h + 2)) \div shares - 1
CallerUnits == 0 .. units \div (NumHelpers + 1) - 1

NoSum == [c \in (0..units - 1) \X QueryRounds |-> 0]

\* Add the demand of the given orderbooks at the prices of a round.
AddDemand(sum, us, round) ==
  [c \in DOMAIN sum |-> sum[c] + IF c[1] \in us /\ c[2] = round THEN 1 ELSE 0]

AddSums(a, b) == [c \in DOMAIN a |-> a[c] + b[c]]

\* The prices the searching thread has handed out, read through a pointer.
ActivePrices == <<caller.query, caller.round>>

demand_Init ==
  /\ units \in WorkUnits
  /\ hpc = [h \in Helpers |-> "asleep"]
  /\ hflags = [h \in Helpers |-> [round_start |-> FALSE, round |-> FALSE, sleep |-> FALSE,
                                  round_done |-> FALSE, done |-> FALSE]]
  /\ hsum = [h \in Helpers |-> NoSum]
  /\ caller = [pc |-> "activate", i |-> 0, query |-> 1, round |-> 1]
  /\ total = NoSum

----------------------------------------------------------------------------
(* Helpers: DemandOracleWorker::run.                                       *)

\* Woken for a query, or told to terminate.
Wake(h) ==
  /\ hpc[h] = "asleep"
  /\ hflags[h].round_start \/ hflags[h].done
  /\ IF hflags[h].done
     THEN hpc' = [hpc EXCEPT ![h] = "exit"] /\ UNCHANGED hflags
     ELSE /\ hpc' = [hpc EXCEPT ![h] = "spin"]
          /\ hflags' = [hflags EXCEPT ![h].round_start = FALSE]
  /\ UNCHANGED <<units, hsum, caller, total>>

\* The first load of spinlock: a round has started.
SpinRound(h) ==
  /\ hpc[h] = "spin"
  /\ hpc' = [hpc EXCEPT ![h] = IF hflags[h].round THEN "compute" ELSE "spin_sleep"]
  /\ hflags' = [hflags EXCEPT ![h].round = FALSE]
  /\ UNCHANGED <<units, hsum, caller, total>>

\* The second load of spinlock: the query is over.
SleepSeen_Kept(h) == hflags
SleepSeen(h) == [hflags EXCEPT ![h].sleep = FALSE]

SpinSleep(h) ==
  /\ hpc[h] = "spin_sleep"
  /\ hpc' = [hpc EXCEPT ![h] = IF hflags[h].sleep THEN "asleep" ELSE "spin"]
  /\ hflags' = SleepSeen(h)
  /\ UNCHANGED <<units, hsum, caller, total>>

\* Clear the sums and compute the demand of the helper's orderbooks.
Compute(h) ==
  /\ hpc[h] = "compute"
  /\ hsum' = [hsum EXCEPT ![h] = AddDemand(NoSum, HelperUnits(h), ActivePrices)]
  /\ hpc' = [hpc EXCEPT ![h] = "signal"]
  /\ UNCHANGED <<units, hflags, caller, total>>

\* signal_round_compute_done.
SignalDone(h) ==
  /\ hpc[h] = "signal"
  /\ hflags' = [hflags EXCEPT ![h].round_done = TRUE]
  /\ hpc' = [hpc EXCEPT ![h] = "spin"]
  /\ UNCHANGED <<units, hsum, caller, total>>

----------------------------------------------------------------------------
(* The searching thread: ParallelDemandOracle.                             *)

CallerAt(pc) == caller.pc = pc

\* The place after the current helper of a loop over the helpers.
After(pc) ==
  caller' = IF caller.i + 1 = NumHelpers
            THEN [caller EXCEPT !.i = 0, !.pc = pc]
            ELSE [caller EXCEPT !.i = @ + 1]

\* activate_worker takes the helper's mutex: it waits for one that still spins.
Activate ==
  /\ CallerAt("activate") /\ hpc[caller.i] = "asleep"
  /\ hflags' = [hflags EXCEPT ![caller.i].round_start = TRUE]
  /\ After("start_round")
  /\ UNCHANGED <<units, hpc, hsum, total>>

\* signal_round_start.
SignalStart ==
  /\ CallerAt("start_round")
  /\ hflags' = [hflags EXCEPT ![caller.i].round = TRUE]
  /\ After("own")
  /\ UNCHANGED <<units, hpc, hsum, total>>

\* The searching thread's own orderbooks.
OwnDemand ==
  /\ CallerAt("own")
  /\ total' = AddDemand(total, CallerUnits, ActivePrices)
  /\ caller' = [caller EXCEPT !.pc = "gather"]
  /\ UNCHANGED <<units, hpc, hflags, hsum>>

\* wait_for_compute_done_and_get_results.
ResultsTaken_Kept(h) == hflags
ResultsTaken(h) == [hflags EXCEPT ![h].round_done = FALSE]

Gather ==
  /\ CallerAt("gather") /\ hflags[caller.i].round_done
  /\ hflags' = ResultsTaken(caller.i)
  /\ total' = AddSums(total, hsum[caller.i])
  /\ After("have")
  /\ UNCHANGED <<units, hpc, hsum>>

\* The search uses the sums, then clears them and goes on with new prices, or
\* ends the query.
UseDemand ==
  /\ CallerAt("have")
  /\ total' = NoSum
  /\ \/ /\ caller.round < NumRounds
        /\ caller' = [caller EXCEPT !.pc = "start_round", !.round = @ + 1]
     \/ caller' = [caller EXCEPT !.pc = "deactivate"]
  /\ UNCHANGED <<units, hpc, hflags, hsum>>

\* deactivate_worker; after the last one the thread waits for its next query.
Deactivate ==
  /\ CallerAt("deactivate")
  /\ hflags' = [hflags EXCEPT ![caller.i].sleep = TRUE]
  /\ caller' = IF caller.i + 1 < NumHelpers THEN [caller EXCEPT !.i = @ + 1]
               ELSE IF caller.query < NumQueries
                    THEN [pc |-> "activate", i |-> 0, query |-> caller.query + 1, round |-> 1]
                    ELSE [caller EXCEPT !.i = 0, !.pc = "terminate"]
  /\ UNCHANGED <<units, hpc, hsum, total>>

\* terminate_worker, from the destructor.
Terminate ==
  /\ CallerAt("terminate") /\ hpc[caller.i] = "asleep"
  /\ hflags' = [hflags EXCEPT ![caller.i].done = TRUE]
  /\ After("gone")
  /\ UNCHANGED <<units, hpc, hsum, total>>

Helper(h) == Wake(h) \/ SpinRound(h) \/ SpinSleep(h) \/ Compute(h) \/ SignalDone(h)

Caller == Activate \/ SignalStart \/ OwnDemand \/ Gather \/ UseDemand \/ Deactivate \/ Terminate

demand_Next == Caller \/ \E h \in Helpers : Helper(h)

\* Every thread that can run does; a spinning helper is one that can.
demand_Fairness ==
  /\ WF_demand_vars(Caller)
  /\ \A h \in Helpers : WF_demand_vars(Helper(h))

demand_Spec == demand_Init /\ [][demand_Next]_demand_vars /\ demand_Fairness

----------------------------------------------------------------------------
(* Properties.                                                             *)

\* Type correctness of the flags, the sums and the threads' places.
demand_TypeOK ==
  /\ units \in WorkUnits
  /\ hpc \in [Helpers -> {"asleep", "spin", "spin_sleep", "compute", "signal", "exit"}]
  /\ hflags \in [Helpers -> [round_start : BOOLEAN, round : BOOLEAN, sleep : BOOLEAN,
                             round_done : BOOLEAN, done : BOOLEAN]]
  /\ hsum \in [Helpers -> Sums(units)]
  /\ caller \in [pc : {"activate", "start_round", "own", "gather", "have", "deactivate",
                       "terminate", "gone"},
                 i : Helpers, query : 1..NumQueries, round : 1..NumRounds]
  /\ total \in Sums(units)

\* The demand a round works with is that of every orderbook, counted once, at
\* the prices of this round and of no other: no flag of an earlier round or
\* query starts a helper early, or makes its sum count twice (spinlock,
\* signal_round_start, wait_for_compute_done_and_get_results); and the flags and
\* sums keep their types.
DemandExact ==
  /\ demand_TypeOK
  /\ CallerAt("have") =>
       \A c \in DOMAIN total : total[c] = IF c[2] = ActivePrices THEN 1 ELSE 0

\* The search thread is never left spinning for a helper that sleeps, nor
\* waiting for the mutex of a helper that spins for ever.
EveryRoundEnds == <>CallerAt("gone")
=============================================================================
