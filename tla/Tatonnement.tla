---------------------------- MODULE Tatonnement ----------------------------
(***************************************************************************)
(* The threads of price computation in block production                    *)
(* (price_computation/tatonnement_oracle.*, the LP fallback of             *)
(* price_computation/lp_solver.cc, and the part of                         *)
(* speedex/speedex_operation.cc that drives them).                         *)
(*                                                                         *)
(* The block producer starts one query per block.  Worker threads join the *)
(* query, search for clearing prices, and publish; the first success ends  *)
(* the query, and so does a timeout thread.  Prices are records that say   *)
(* who computed them, for which block, whether they clear the market and   *)
(* how much utility they lose; the arithmetic is in module Market.         *)
(* A critical section of TatonnementOracle::mtx is one action.             *)
(***************************************************************************)
EXTENDS Naturals, FiniteSets

CONSTANTS
  Searchers,    \* the worker threads of start_tatonnement_threads
  NumBlocks,    \* bound on the blocks produced
  Ticks,        \* sleeps of the timeout thread before it signals (10 in the code)
  CheckFreq,    \* rounds between two reads of the done flag (10000 in the code)
  Ratios,       \* lost/satisfied utility ratios of prices
  NaN,          \* the ratio 0/0, of prices at which there is nothing to trade
  None          \* no thread

ASSUME TatAssumption ==
  /\ Searchers # {} /\ IsFiniteSet(Searchers) /\ None \notin Searchers \cup Ratios
  /\ NumBlocks \in Nat \ {0} /\ Ticks \in Nat \ {0} /\ CheckFreq \in Nat \ 0..2
  /\ Ratios \subseteq Nat \cup {NaN} /\ Ratios # {} /\ NaN \notin Nat /\ NaN # None

VARIABLES
  oracle,   \* the fields of TatonnementOracle, and the ratios published (answers)
  wpc,      \* worker threads: where each one is
  search,   \* their local state: prices, round number, clearing flag, success
  timer,    \* the timeout thread of the current block
  flags,    \* the two atomics of the producer the timeout thread shares
  producer  \* the block producer

tat_vars == <<oracle, wpc, search, timer, flags, producer>>

Blocks == 1..NumBlocks

Prices == [by : Searchers \cup {None}, block : 0..NumBlocks, clears : BOOLEAN,
           ratio : Ratios \cup {0}]

\* price_workspace as it is before the first block.
InitialPrices == [by |-> None, block |-> 0, clears |-> FALSE, ratio |-> 0]

IdleOracle ==
  [done |-> TRUE, timeout_happened |-> FALSE, active |-> 0, results_ready |-> FALSE,
   kill |-> FALSE, shared |-> InitialPrices, best |-> None, found_success |-> FALSE,
   answers |-> {}]

IdleSearch == [prices |-> InitialPrices, round |-> 0, clearing |-> FALSE, success |-> FALSE]

tat_Init ==
  /\ oracle = IdleOracle
  /\ wpc = [w \in Searchers |-> "wait"]
  /\ search = [w \in Searchers |-> IdleSearch]
  /\ timer = [pc |-> "off", tick |-> 0, block |-> 0, caused |-> FALSE]
  /\ flags = [timeout |-> FALSE, cancel |-> FALSE]
  /\ producer = [pc |-> "commit", block |-> 1, prices |-> InitialPrices,
                 lower_bounds |-> FALSE]

----------------------------------------------------------------------------
(* Worker threads: run_tatonnement_thread and its grid search.             *)

\* Wake on start_cv, copy the shared prices, leave if the threads are killed.
Join(w) ==
  /\ wpc[w] = "wait"
  /\ ~oracle.done \/ oracle.kill
  /\ search' = [search EXCEPT ![w] = [IdleSearch EXCEPT !.prices = oracle.shared]]
  /\ IF oracle.kill
     THEN wpc' = [wpc EXCEPT ![w] = "exit"] /\ UNCHANGED oracle
     ELSE /\ wpc' = [wpc EXCEPT ![w] = "search"]
          /\ oracle' = [oracle EXCEPT !.active = @ + 1]
  /\ UNCHANGED <<timer, flags, producer>>

\* tatonnement_done_flag.exchange(true) returned false: nobody ended the query
\* before.
FirstToEnd_Always == TRUE
FirstToEnd == ~oracle.done

\* Prices of w's search after a round.
RoundPrices(w, clears) ==
  [by : {w}, block : {producer.block}, clears : {clears}, ratio : Ratios]

\* One round that leaves the search going, or ends it because the round
\* number says to look at the done flag and somebody has set it.
Round(w) ==
  /\ wpc[w] = "search" /\ ~search[w].clearing
  /\ LET r == (search[w].round + 1) % CheckFreq
         ends == r = CheckFreq - 1 /\ oracle.done
     IN \E clears \in BOOLEAN : \E p \in RoundPrices(w, clears) :
          /\ search' = [search EXCEPT
               ![w] = [prices |-> IF ends THEN @.prices ELSE p, round |-> r,
                       clearing |-> clears /\ ~ends, success |-> FALSE]]
          /\ wpc' = [wpc EXCEPT ![w] = IF ends THEN "publish" ELSE "search"]
  /\ UNCHANGED <<oracle, timer, flags, producer>>

\* The market cleared, or the LP check found the prices feasible: the first
\* thread to set the done flag has won.  The exchange is outside mtx.
Clear(w) ==
  /\ wpc[w] = "search" /\ search[w].clearing
  /\ oracle' = [oracle EXCEPT !.done = TRUE]
  /\ search' = [search EXCEPT ![w].success = FirstToEnd]
  /\ wpc' = [wpc EXCEPT ![w] = "publish"]
  /\ UNCHANGED <<timer, flags, producer>>

\* The results are there with the first success, or with the last thread.
ResultsReady_Success(wins, active) == wins
ResultsReady(wins, active) == wins \/ active = 0

\* x < y of doubles: NaN compares with nothing.
LessThan(x, y) == x # NaN /\ y # NaN /\ x < y

\* The locked section after the search: the winner stores its prices; while
\* there is none, a loser stores its own if they are the first or lose less
\* utility than the best so far; the last one out makes the results ready.
\* What the search left in w's locals is not read again.
Publish(w) ==
  /\ wpc[w] = "publish"
  /\ LET mine == search[w].prices
         wins == search[w].success /\ ~oracle.found_success
         found == oracle.found_success \/ wins
         better == ~found /\ (oracle.best = None \/ LessThan(mine.ratio, oracle.best))
         active == oracle.active - 1
     IN oracle' = [oracle EXCEPT
          !.active = active,
          !.found_success = found,
          !.shared = IF wins \/ better THEN mine ELSE @,
          !.best = IF better THEN mine.ratio ELSE @,
          !.results_ready = @ \/ ResultsReady(wins, active),
          !.answers = @ \cup {mine.ratio}]
  /\ wpc' = [wpc EXCEPT ![w] = "wait"]
  /\ search' = [search EXCEPT ![w] = IdleSearch]
  /\ UNCHANGED <<timer, flags, producer>>

----------------------------------------------------------------------------
(* The timeout thread of a block: launch_timeout_thread.                   *)

TimeUp(tick) == tick = Ticks

Sleep ==
  /\ timer.pc = "sleep"
  /\ timer' = [timer EXCEPT !.tick = @ + 1,
                 !.pc = IF flags.cancel THEN "done"
                        ELSE IF TimeUp(timer.tick + 1) THEN "signal" ELSE "sleep"]
  /\ UNCHANGED <<oracle, wpc, search, flags, producer>>

\* signal_grid_search_timeout.
SignalTimeout ==
  /\ timer.pc = "signal"
  /\ oracle' = [oracle EXCEPT !.done = TRUE, !.timeout_happened = @ \/ FirstToEnd]
  /\ timer' = [timer EXCEPT !.pc = "assign", !.caused = FirstToEnd]
  /\ UNCHANGED <<wpc, search, flags, producer>>

\* The assignment of its result, after mtx is released.
AssignTimeout ==
  /\ timer.pc = "assign"
  /\ flags' = [flags EXCEPT !.timeout = timer.caused]
  /\ timer' = [timer EXCEPT !.pc = "done"]
  /\ UNCHANGED <<oracle, wpc, search, producer>>

----------------------------------------------------------------------------
(* The block producer.                                                     *)

ProducerAt(pc) == producer.pc = pc
ProducerTo(pc) == producer' = [producer EXCEPT !.pc = pc]

\* commit_for_production regenerates the index every search reads; then the
\* timeout thread is launched.
CommitOrderbooks ==
  /\ ProducerAt("commit")
  /\ flags' = [timeout |-> FALSE, cancel |-> FALSE]
  /\ timer' = [pc |-> "sleep", tick |-> 0, block |-> producer.block, caused |-> FALSE]
  /\ ProducerTo("start")
  /\ UNCHANGED <<oracle, wpc, search>>

\* compute_prices_grid_search up to start_tatonnement_query.
StartQuery ==
  /\ ProducerAt("start")
  /\ oracle' = [oracle EXCEPT !.shared = producer.prices, !.done = FALSE,
                  !.results_ready = FALSE, !.timeout_happened = FALSE, !.best = None,
                  !.found_success = FALSE, !.answers = {}]
  /\ ProducerTo("finish")
  /\ UNCHANGED <<wpc, search, timer, flags>>

\* finish_tatonnement_query returns once the results are ready ...
FinishQuery ==
  /\ ProducerAt("finish") /\ oracle.results_ready
  /\ ProducerTo("read")
  /\ UNCHANGED <<oracle, wpc, search, timer, flags>>

\* ... and the shared prices are read without the lock.
ReadPrices ==
  /\ ProducerAt("read")
  /\ producer' = [producer EXCEPT !.prices = oracle.shared, !.pc = "cancel"]
  /\ UNCHANGED <<oracle, wpc, search, timer, flags>>

CancelTimeout ==
  /\ ProducerAt("cancel")
  /\ flags' = [flags EXCEPT !.cancel = TRUE]
  /\ ProducerTo("solve")
  /\ UNCHANGED <<oracle, wpc, search, timer>>

\* LPSolver::solve, with the lower bounds unless the timeout flag is set; an
\* infeasible program is solved again without them.  If the solution does not
\* clear the market, the exception meets a timeout thread that is not joined,
\* which terminates the process.
SolveLP ==
  /\ ProducerAt("solve")
  /\ \E clearing_check \in BOOLEAN :
       producer' = [producer EXCEPT !.lower_bounds = ~flags.timeout /\ producer.prices.clears,
                                    !.pc = IF clearing_check THEN "clear" ELSE "threw"]
  /\ UNCHANGED <<oracle, wpc, search, timer, flags>>

\* The rolling averages, and clear_offers_for_production, which takes offers
\* out of the orderbooks.
ClearOffers ==
  /\ ProducerAt("clear")
  /\ ProducerTo("wait_all")
  /\ UNCHANGED <<oracle, wpc, search, timer, flags>>

\* wait_for_all_tatonnement_threads.
AllThreadsOut_Results == oracle.results_ready
AllThreadsOut == oracle.active = 0

WaitForAll ==
  /\ ProducerAt("wait_all") /\ AllThreadsOut
  /\ ProducerTo("join")
  /\ UNCHANGED <<oracle, wpc, search, timer, flags>>

\* The timeout thread is joined and the block is inserted in the header map.
JoinTimeout ==
  /\ ProducerAt("join") /\ timer.pc = "done"
  /\ timer' = [timer EXCEPT !.pc = "off"]
  /\ producer' = IF producer.block = NumBlocks
                 THEN [producer EXCEPT !.pc = "end"]
                 ELSE [producer EXCEPT !.pc = "commit", !.block = @ + 1,
                                       !.lower_bounds = FALSE]
  /\ UNCHANGED <<oracle, wpc, search, flags>>

\* end_tatonnement_threads, from the destructor: tell every worker to leave ...
EndThreads ==
  /\ ProducerAt("end")
  /\ oracle' = [oracle EXCEPT !.kill = TRUE, !.done = TRUE]
  /\ ProducerTo("join_threads")
  /\ UNCHANGED <<wpc, search, timer, flags>>

\* ... and join them.
JoinThreads ==
  /\ ProducerAt("join_threads") /\ \A w \in Searchers : wpc[w] = "exit"
  /\ ProducerTo("gone")
  /\ UNCHANGED <<oracle, wpc, search, timer, flags>>

Producer ==
  \/ CommitOrderbooks \/ StartQuery \/ FinishQuery \/ ReadPrices \/ CancelTimeout
  \/ SolveLP \/ ClearOffers \/ WaitForAll \/ JoinTimeout \/ EndThreads \/ JoinThreads

Searcher(w) == Join(w) \/ Round(w) \/ Clear(w) \/ Publish(w)

Timer == Sleep \/ SignalTimeout \/ AssignTimeout

tat_Next == Producer \/ Timer \/ \E w \in Searchers : Searcher(w)

\* The threads are the operating system's: each one that can run does.
tat_Fairness ==
  /\ WF_tat_vars(Producer) /\ WF_tat_vars(Timer)
  /\ \A w \in Searchers : WF_tat_vars(Searcher(w))

tat_Spec == tat_Init /\ [][tat_Next]_tat_vars /\ tat_Fairness

----------------------------------------------------------------------------
(* Properties.                                                             *)

\* Type correctness of the oracle's fields, the threads' locals and the flags.
tat_TypeOK ==
  /\ oracle \in [done : BOOLEAN, timeout_happened : BOOLEAN, active : 0..Cardinality(Searchers),
                 results_ready : BOOLEAN, kill : BOOLEAN, shared : Prices,
                 best : Ratios \cup {None}, found_success : BOOLEAN, answers : SUBSET Ratios]
  /\ wpc \in [Searchers -> {"wait", "search", "publish", "exit"}]
  /\ search \in [Searchers -> [prices : Prices, round : 0..CheckFreq - 1,
                               clearing : BOOLEAN, success : BOOLEAN]]
  /\ timer \in [pc : {"off", "sleep", "signal", "assign", "done"}, tick : 0..Ticks,
                block : 0..NumBlocks, caused : BOOLEAN]
  /\ flags \in [timeout : BOOLEAN, cancel : BOOLEAN]
  /\ producer \in [pc : {"commit", "start", "finish", "read", "cancel", "solve", "clear",
                         "threw", "wait_all", "join", "end", "join_threads", "gone"},
                   block : Blocks, prices : Prices, lower_bounds : BOOLEAN]

Answered == producer.pc \in {"cancel", "solve", "clear", "threw", "wait_all", "join"}

\* The prices a block is cleared at are this query's: the prices of the one
\* thread that set the done flag first if a thread did, and they clear the
\* market; otherwise the prices of a thread, and none that were published lose
\* less utility.  A thread that joins late, reports late, or loses to the
\* timeout cannot replace them (run_tatonnement_thread).  Prices at which there
\* is nothing to trade are no better or worse than any others: published first
\* they stay, otherwise they are dropped.
AnswerIsBest ==
  Answered =>
    /\ producer.prices.block = producer.block
    /\ oracle.found_success => producer.prices.clears
    /\ ~oracle.found_success =>
         \A ratio \in oracle.answers : ~LessThan(ratio, producer.prices.ratio)
    /\ oracle.timeout_happened # oracle.found_success

\* While a block commits its offers and regenerates the index every search
\* reads, no worker is in a query and no timeout thread of an earlier block is
\* left to end the next query (the end of the block in speedex_operation.cc);
\* and the state keeps its types.
BlocksIsolated ==
  /\ tat_TypeOK
  /\ producer.pc \in {"commit", "end"} =>
       /\ timer.pc = "off"
       /\ \A w \in Searchers : wpc[w] = "wait"

\* When its time is up, the timeout thread finds a query that a worker has
\* joined, or one that is over.  The code does not see to it: it gives the
\* workers two seconds (signal_grid_search_timeout, compute_prices_grid_search).
TimeoutInTime ==
  timer.pc = "signal" =>
    \/ producer.pc = "finish" /\ (oracle.done \/ oracle.active > 0)
    \/ producer.pc \notin {"start", "finish"}

\* Unless a timeout comes before any worker, every query ends, every block is
\* finished and the destructor returns, or an exception ends the process: the
\* producer is not left waiting on finished_cv, nor a worker on start_cv.
EveryQueryEnds == []TimeoutInTime => <>(producer.pc \in {"gone", "threw"})

\* "So too should wait_for_all_tatonnement_threads() be called before
\* modifying the orderbooks" (tatonnement_oracle.h:115): offers are cleared
\* only when no search is running.
ClearingAfterSearch ==
  ProducerAt("clear") => \A w \in Searchers : wpc[w] # "search"
============================================================================
