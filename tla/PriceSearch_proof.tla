------------------------- MODULE PriceSearch_proof -------------------------
(***************************************************************************)
(* Proofs about the search for prices: Tatonnement, for any number of      *)
(* search threads and blocks and any timeout, whenever it comes; and       *)
(* DemandOracle, for any number of helpers, orderbooks, queries and        *)
(* rounds.                                                                 *)
(***************************************************************************)
EXTENDS Tatonnement, DemandOracle, Integers, FiniteSetTheorems, TLAPS

\* The workers that are in a query.
Active == {w \in Searchers : wpc[w] \in {"search", "publish"}}

\* A query is under way, or answered and not yet replaced.
QueryOpen ==
  producer.pc \in {"finish", "read", "cancel", "solve", "clear", "threw", "wait_all", "join"}

\* A worker that ended the query and has not reported it yet.
Won(w) == wpc[w] = "publish" /\ search[w].success

(***************************************************************************)
(* The inductive invariant.                                                *)
(***************************************************************************)
\* The counter is that of the workers in a query.
ActiveCounted == oracle.active = Cardinality(Active)

\* No worker is in a query where the producer has waited for all of them;
\* workers leave only when they are told to.
ThreadsInStep ==
  /\ oracle.kill <=> producer.pc \in {"join_threads", "gone"}
  /\ \A w \in Searchers : wpc[w] = "exit" => oracle.kill
  /\ producer.pc \in {"commit", "start", "join", "end", "join_threads", "gone"} =>
       oracle.done /\ Active = {}
  /\ producer.pc \in {"read", "cancel", "solve", "clear", "threw", "wait_all", "join"} =>
       oracle.results_ready

\* The timeout thread lives from the commit of the offers to its join.
TimerInStep ==
  /\ timer.pc = "off" <=> producer.pc \in {"commit", "end", "join_threads", "gone"}
  /\ timer.pc = "sleep" => timer.tick < Ticks

\* Whoever has something to publish computed it in this query, and whoever
\* cleared the market has prices that do.
SearchesCurrent ==
  \A w \in Searchers :
    /\ wpc[w] = "search" =>
         \/ search[w].prices.block = producer.block /\ search[w].prices.ratio \in Ratios
         \/ search[w].round = 0 /\ ~search[w].clearing
    /\ wpc[w] = "publish" =>
         search[w].prices.block = producer.block /\ search[w].prices.ratio \in Ratios
    /\ wpc[w] = "search" /\ search[w].clearing => search[w].prices.clears
    /\ Won(w) => search[w].prices.clears

\* The done flag was set by exactly one of the timeout and the workers.
EndedOnce ==
  QueryOpen =>
    /\ oracle.done <=> (oracle.timeout_happened \/ oracle.found_success \/ \E w \in Searchers : Won(w))
    /\ ~(oracle.timeout_happened /\ oracle.found_success)
    /\ \A w \in Searchers : Won(w) => ~oracle.timeout_happened /\ ~oracle.found_success
    /\ \A v, w \in Searchers : Won(v) /\ Won(w) => v = w
    /\ \A w \in Searchers : wpc[w] = "publish" => oracle.done

\* Results are ready with a success, or with the last worker of a timed-out
\* query.
ReadyInStep ==
  QueryOpen /\ oracle.results_ready =>
    \/ oracle.found_success
    \/ oracle.timeout_happened /\ Active = {} /\ oracle.best # None

\* p is the answer of the query as far as it has got.
IsAnswer(p) ==
  /\ p.block = producer.block
  /\ oracle.found_success => p.clears
  /\ ~oracle.found_success => \A q \in oracle.answers : ~LessThan(q, p.ratio)

\* The shared prices are the answer so far.
SharedInStep ==
  QueryOpen =>
    /\ oracle.found_success \/ oracle.best # None => IsAnswer(oracle.shared)
    /\ ~oracle.found_success /\ oracle.best # None => oracle.shared.ratio = oracle.best
    /\ ~oracle.found_success /\ oracle.best = None => oracle.answers = {}

\* The producer has read them.
AnswerRead == Answered => IsAnswer(producer.prices)

TatInv ==
  /\ tat_TypeOK /\ ActiveCounted /\ ThreadsInStep /\ TimerInStep
  /\ SearchesCurrent /\ EndedOnce /\ ReadyInStep /\ SharedInStep /\ AnswerRead

-----------------------------------------------------------------------------
\* The sets that the provers need to see through the type invariant.
Oracles == [done : BOOLEAN, timeout_happened : BOOLEAN, active : 0..Cardinality(Searchers),
            results_ready : BOOLEAN, kill : BOOLEAN, shared : Prices,
            best : Ratios \cup {None}, found_success : BOOLEAN, answers : SUBSET Ratios]
Places == {"wait", "search", "publish", "exit"}
Searches == [prices : Prices, round : 0..CheckFreq - 1, clearing : BOOLEAN, success : BOOLEAN]
Timers == [pc : {"off", "sleep", "signal", "assign", "done"}, tick : 0..Ticks,
           block : 0..NumBlocks, caused : BOOLEAN]
Producers == [pc : {"commit", "start", "finish", "read", "cancel", "solve", "clear",
                    "threw", "wait_all", "join", "end", "join_threads", "gone"},
              block : Blocks, prices : Prices, lower_bounds : BOOLEAN]

\* Type correctness in these terms.
LEMMA Typed ==
  tat_TypeOK <=>
    /\ oracle \in Oracles /\ wpc \in [Searchers -> Places] /\ search \in [Searchers -> Searches]
    /\ timer \in Timers /\ flags \in [timeout : BOOLEAN, cancel : BOOLEAN]
    /\ producer \in Producers
BY DEF tat_TypeOK, Oracles, Places, Searches, Timers, Producers

\* The number of workers in a query is within the counter's type.
LEMMA ActiveFinite ==
  IsFiniteSet(Active) /\ Cardinality(Active) \in 0..Cardinality(Searchers)
<1>1. IsFiniteSet(Searchers) /\ Active \subseteq Searchers
  BY TatAssumption DEF Active
<1>2. IsFiniteSet(Active) /\ Cardinality(Active) <= Cardinality(Searchers)
  BY <1>1, FS_Subset
<1> QED
  BY <1>1, <1>2, FS_CardinalityType

\* The invariant holds at the start.
LEMMA TatStart == tat_Init => TatInv
<1> SUFFICES ASSUME tat_Init PROVE TatInv
  OBVIOUS
<1>1. Active = {} /\ Cardinality(Active) = 0
  BY FS_EmptySet DEF Active, tat_Init
<1>2. InitialPrices \in Prices
  BY TatAssumption DEF InitialPrices, Prices
<1>3. tat_TypeOK
  <2>1. 0 \in 0..Cardinality(Searchers) /\ 0 \in 0..NumBlocks /\ 1 \in Blocks /\ 0 \in 0..Ticks
        /\ 0 \in 0..CheckFreq - 1
    BY TatAssumption, FS_CardinalityType DEF Blocks
  <2>2. oracle \in Oracles
    BY <1>2, <2>1 DEF tat_Init, IdleOracle, Oracles
  <2>3. search \in [Searchers -> Searches]
    BY <1>2, <2>1 DEF tat_Init, IdleSearch, Searches
  <2>4. timer \in Timers /\ producer \in Producers
    BY <1>2, <2>1 DEF tat_Init, Timers, Producers
  <2> QED
    BY <2>2, <2>3, <2>4, Typed DEF tat_Init, Places
<1>4. ActiveCounted
  BY <1>1 DEF ActiveCounted, tat_Init, IdleOracle
<1>5. ThreadsInStep /\ TimerInStep
  BY <1>1 DEF ThreadsInStep, TimerInStep, tat_Init, IdleOracle
<1>6. SearchesCurrent /\ EndedOnce /\ ReadyInStep /\ SharedInStep /\ AnswerRead
  BY DEF SearchesCurrent, Won, EndedOnce, ReadyInStep, SharedInStep, AnswerRead, QueryOpen,
         Answered, tat_Init
<1> QED
  BY <1>3, <1>4, <1>5, <1>6 DEF TatInv

-----------------------------------------------------------------------------
(* The block producer and the timeout thread.                              *)

\* Steps that touch neither the oracle nor the workers.
LEMMA OutsideFrame ==
  ASSUME UNCHANGED <<oracle, wpc, search>>
  PROVE  /\ Active' = Active
         /\ ActiveCounted => ActiveCounted'
         /\ \A w \in Searchers : Won(w)' = Won(w)
BY DEF Active, ActiveCounted, Won

\* ... and move the producer within the query or the block.
LEMMA ProducerFrame ==
  ASSUME TatInv, UNCHANGED <<oracle, wpc, search>>, producer'.block = producer.block,
         QueryOpen' => QueryOpen
  PROVE  ActiveCounted' /\ SearchesCurrent' /\ EndedOnce' /\ ReadyInStep' /\ SharedInStep'
<1>1. /\ Active' = Active /\ ActiveCounted'
      /\ \A w \in Searchers : Won(w)' = Won(w)
  BY OutsideFrame DEF TatInv
<1>2. SearchesCurrent'
  BY <1>1 DEF TatInv, SearchesCurrent
<1>3. EndedOnce'
  BY <1>1 DEF TatInv, EndedOnce
<1>4. ReadyInStep'
  BY <1>1 DEF TatInv, ReadyInStep
<1>5. SharedInStep'
  BY DEF TatInv, SharedInStep, IsAnswer
<1> QED
  BY <1>1, <1>2, <1>3, <1>4, <1>5

\* commit_for_production, and the launch of the timeout thread.
LEMMA CommitOrderbooksStep ==
  ASSUME TatInv, CommitOrderbooks
  PROVE  TatInv'
<1>1. /\ oracle \in Oracles /\ producer \in Producers /\ timer \in Timers
      /\ wpc \in [Searchers -> Places] /\ search \in [Searchers -> Searches]
  BY Typed DEF TatInv
<1>2. /\ producer.pc = "commit" /\ UNCHANGED <<oracle, wpc, search>>
      /\ producer' = [producer EXCEPT !.pc = "start"]
      /\ timer' = [pc |-> "sleep", tick |-> 0, block |-> producer.block, caused |-> FALSE]
      /\ flags' \in [timeout : BOOLEAN, cancel : BOOLEAN]
  BY DEF CommitOrderbooks, ProducerAt, ProducerTo
<1>3. producer' \in Producers /\ producer'.pc = "start" /\ producer'.block = producer.block
  BY <1>1, <1>2 DEF Producers
<1>4. timer' \in Timers /\ timer'.pc = "sleep" /\ timer'.tick = 0
  BY <1>1, <1>2, TatAssumption DEF Timers, Producers, Blocks
<1>5. tat_TypeOK'
  BY <1>1, <1>2, <1>3, <1>4, Typed DEF tat_TypeOK, Oracles, Places, Searches, Timers, Producers
<1>6. ActiveCounted' /\ SearchesCurrent' /\ EndedOnce' /\ ReadyInStep' /\ SharedInStep'
  BY <1>2, <1>3, ProducerFrame DEF QueryOpen
<1>7. ThreadsInStep'
  BY <1>2, <1>3, OutsideFrame DEF TatInv, ThreadsInStep
<1>8. TimerInStep'
  BY <1>3, <1>4, TatAssumption DEF TimerInStep
<1>9. AnswerRead'
  BY <1>3 DEF AnswerRead, Answered
<1> QED
  BY <1>5, <1>6, <1>7, <1>8, <1>9 DEF TatInv

\* A step of the producer within a query that reads the shared prices or goes
\* on without looking at them.
LEMMA WithinQuery ==
  ASSUME TatInv, UNCHANGED <<oracle, wpc, search, timer>>,
         flags' \in [timeout : BOOLEAN, cancel : BOOLEAN],
         producer' \in Producers, producer'.block = producer.block,
         \/ producer.pc = "finish" /\ oracle.results_ready /\ producer'.pc = "read"
         \/ producer.pc = "read" /\ producer'.pc = "cancel" /\ producer'.prices = oracle.shared
         \/ /\ producer.pc \in {"cancel", "solve", "clear"}
            /\ producer'.pc \in {"solve", "clear", "threw", "wait_all"}
            /\ producer'.prices = producer.prices
         \/ /\ producer.pc = "wait_all" /\ producer'.pc = "join" /\ oracle.active = 0
            /\ producer'.prices = producer.prices
  PROVE  TatInv'
<1>1. /\ oracle \in Oracles /\ timer \in Timers
      /\ wpc \in [Searchers -> Places] /\ search \in [Searchers -> Searches]
  BY Typed DEF TatInv
<1>2. tat_TypeOK'
  BY <1>1, Typed DEF tat_TypeOK, Oracles, Places, Searches, Timers, Producers
<1>3. QueryOpen /\ QueryOpen'
  BY DEF QueryOpen
<1>4. ActiveCounted' /\ SearchesCurrent' /\ EndedOnce' /\ ReadyInStep' /\ SharedInStep'
  BY <1>3, ProducerFrame
<1>5. TimerInStep'
  BY DEF TatInv, TimerInStep
<1>6. oracle.results_ready => oracle.done
  BY <1>3 DEF TatInv, ReadyInStep, EndedOnce
<1>7. ThreadsInStep'
  <2>1. oracle.active = 0 => Active = {}
    BY ActiveFinite, FS_EmptySet DEF TatInv, ActiveCounted
  <2>2. Active' = Active
    BY OutsideFrame
  <2>3. oracle.results_ready
    BY DEF TatInv, ThreadsInStep
  <2> QED
    BY <1>6, <2>1, <2>2, <2>3 DEF TatInv, ThreadsInStep
<1>8. AnswerRead'
  <2>1. \A p : IsAnswer(p)' <=> IsAnswer(p)
    BY DEF IsAnswer
  <2>2. CASE producer.pc = "read"
    <3>1. oracle.found_success \/ oracle.best # None
      BY <1>3, <2>2 DEF TatInv, ThreadsInStep, ReadyInStep
    <3>2. IsAnswer(oracle.shared)
      BY <1>3, <3>1 DEF TatInv, SharedInStep
    <3>3. producer'.prices = oracle.shared
      BY <2>2
    <3> QED
      BY <3>2, <3>3 DEF AnswerRead, IsAnswer
  <2>3. CASE producer.pc = "finish"
    BY <2>3 DEF AnswerRead, Answered
  <2>4. CASE producer.pc \notin {"finish", "read"}
    <3>1. Answered /\ producer'.prices = producer.prices
      BY <2>4 DEF Answered
    <3>2. IsAnswer(producer.prices)
      BY <3>1 DEF TatInv, AnswerRead
    <3> QED
      BY <3>1, <3>2 DEF AnswerRead, IsAnswer
  <2> QED
    BY <2>2, <2>3, <2>4
<1> QED
  BY <1>2, <1>4, <1>5, <1>7, <1>8 DEF TatInv

\* The producer from the results to the end of the block.
LEMMA QueryStep ==
  ASSUME TatInv,
         FinishQuery \/ ReadPrices \/ CancelTimeout \/ SolveLP \/ ClearOffers \/ WaitForAll
  PROVE  TatInv'
<1>1. /\ producer \in Producers /\ flags \in [timeout : BOOLEAN, cancel : BOOLEAN]
      /\ oracle \in Oracles
  BY Typed DEF TatInv
<1> USE DEF ProducerAt, ProducerTo
<1>2. CASE FinishQuery
  <2>1. producer' \in Producers /\ producer'.block = producer.block /\ producer'.pc = "read"
    BY <1>1, <1>2 DEF FinishQuery, Producers
  <2> QED
    BY <1>1, <1>2, <2>1, WithinQuery DEF FinishQuery
<1>3. CASE ReadPrices
  <2>1. /\ producer' \in Producers /\ producer'.block = producer.block
        /\ producer'.pc = "cancel" /\ producer'.prices = oracle.shared
    BY <1>1, <1>3 DEF ReadPrices, Producers, Oracles
  <2> QED
    BY <1>1, <1>3, <2>1, WithinQuery DEF ReadPrices
<1>4. CASE CancelTimeout
  <2>1. /\ producer' \in Producers /\ producer'.block = producer.block
        /\ producer'.pc = "solve" /\ producer'.prices = producer.prices
    BY <1>1, <1>4 DEF CancelTimeout, Producers
  <2>2. flags' \in [timeout : BOOLEAN, cancel : BOOLEAN]
    BY <1>1, <1>4 DEF CancelTimeout
  <2> QED
    BY <1>4, <2>1, <2>2, WithinQuery DEF CancelTimeout
<1>5. CASE SolveLP
  <2>1. (~flags.timeout /\ producer.prices.clears) \in BOOLEAN
    OBVIOUS
  <2>2. PICK pc \in {"clear", "threw"} :
          producer' = [producer EXCEPT
            !.lower_bounds = ~flags.timeout /\ producer.prices.clears, !.pc = pc]
    BY <1>5 DEF SolveLP
  <2>3. /\ producer' \in Producers /\ producer'.block = producer.block
        /\ producer'.pc \in {"clear", "threw"} /\ producer'.prices = producer.prices
    BY <1>1, <2>1, <2>2 DEF Producers
  <2> QED
    BY <1>1, <1>5, <2>3, WithinQuery DEF SolveLP
<1>6. CASE ClearOffers
  <2>1. /\ producer' \in Producers /\ producer'.block = producer.block
        /\ producer'.pc = "wait_all" /\ producer'.prices = producer.prices
    BY <1>1, <1>6 DEF ClearOffers, Producers
  <2> QED
    BY <1>1, <1>6, <2>1, WithinQuery DEF ClearOffers
<1>7. CASE WaitForAll
  <2>1. /\ producer' \in Producers /\ producer'.block = producer.block
        /\ producer'.pc = "join" /\ producer'.prices = producer.prices
    BY <1>1, <1>7 DEF WaitForAll, Producers
  <2> QED
    BY <1>1, <1>7, <2>1, WithinQuery DEF WaitForAll, AllThreadsOut
<1> QED
  BY <1>2, <1>3, <1>4, <1>5, <1>6, <1>7

\* start_tatonnement_query: nobody is in a query that could disturb it.
LEMMA StartQueryStep ==
  ASSUME TatInv, StartQuery
  PROVE  TatInv'
<1>1. /\ oracle \in Oracles /\ producer \in Producers /\ timer \in Timers
      /\ wpc \in [Searchers -> Places] /\ search \in [Searchers -> Searches]
      /\ flags \in [timeout : BOOLEAN, cancel : BOOLEAN]
  BY Typed DEF TatInv
<1>2. /\ producer.pc = "start" /\ UNCHANGED <<wpc, search, timer, flags>>
      /\ oracle' = [oracle EXCEPT !.shared = producer.prices, !.done = FALSE,
                     !.results_ready = FALSE, !.timeout_happened = FALSE, !.best = None,
                     !.found_success = FALSE, !.answers = {}]
      /\ producer' = [producer EXCEPT !.pc = "finish"]
  BY DEF StartQuery, ProducerAt, ProducerTo
<1>3. /\ producer' \in Producers /\ producer'.pc = "finish" /\ producer'.block = producer.block
      /\ oracle' \in Oracles /\ oracle'.active = oracle.active /\ oracle'.kill = oracle.kill
      /\ ~oracle'.done /\ ~oracle'.results_ready /\ ~oracle'.timeout_happened
      /\ ~oracle'.found_success /\ oracle'.best = None /\ oracle'.answers = {}
  BY <1>1, <1>2 DEF Producers, Oracles
<1>4. tat_TypeOK'
  BY <1>1, <1>2, <1>3, Typed DEF tat_TypeOK, Oracles, Places, Searches, Timers, Producers
<1>5. Active' = Active /\ Active = {}
  BY <1>2 DEF Active, TatInv, ThreadsInStep
<1>6. \A w \in Searchers : wpc[w] \notin {"search", "publish"}
  BY <1>5 DEF Active
<1>7. ActiveCounted'
  BY <1>3, <1>5 DEF TatInv, ActiveCounted
<1>8. ThreadsInStep' /\ TimerInStep'
  BY <1>2, <1>3 DEF TatInv, ThreadsInStep, TimerInStep
<1>9. SearchesCurrent' /\ EndedOnce'
  BY <1>2, <1>3, <1>6 DEF SearchesCurrent, EndedOnce, Won
<1>10. ReadyInStep' /\ SharedInStep' /\ AnswerRead'
  BY <1>3 DEF ReadyInStep, SharedInStep, AnswerRead, Answered
<1> QED
  BY <1>4, <1>7, <1>8, <1>9, <1>10 DEF TatInv

\* The timeout thread is joined; the next block begins, or the end.
LEMMA JoinTimeoutStep ==
  ASSUME TatInv, JoinTimeout
  PROVE  TatInv'
<1>1. /\ oracle \in Oracles /\ producer \in Producers /\ timer \in Timers
      /\ wpc \in [Searchers -> Places] /\ search \in [Searchers -> Searches]
      /\ flags \in [timeout : BOOLEAN, cancel : BOOLEAN]
  BY Typed DEF TatInv
<1>2. /\ producer.pc = "join" /\ UNCHANGED <<oracle, wpc, search, flags>>
      /\ timer' = [timer EXCEPT !.pc = "off"]
  BY DEF JoinTimeout, ProducerAt
<1>3. producer' \in Producers /\ producer'.pc \in {"commit", "end"}
  <2>1. CASE producer.block = NumBlocks
    <3>1. producer' = [producer EXCEPT !.pc = "end"]
      BY <2>1 DEF JoinTimeout
    <3> QED
      BY <1>1, <3>1 DEF Producers
  <2>2. CASE producer.block # NumBlocks
    <3>1. producer' = [producer EXCEPT !.pc = "commit", !.block = producer.block + 1,
                                          !.lower_bounds = FALSE]
      BY <2>2 DEF JoinTimeout
    <3>2. producer.block + 1 \in Blocks
      BY <1>1, <2>2, TatAssumption DEF Producers, Blocks
    <3> QED
      BY <1>1, <3>1, <3>2 DEF Producers
  <2> QED
    BY <2>1, <2>2
<1>4. timer' \in Timers /\ timer'.pc = "off"
  BY <1>1, <1>2 DEF Timers
<1>5. tat_TypeOK'
  BY <1>1, <1>2, <1>3, <1>4, Typed DEF tat_TypeOK, Oracles, Places, Searches, Timers, Producers
<1>6. Active' = Active /\ Active = {} /\ ActiveCounted'
  BY <1>2, OutsideFrame DEF TatInv, ThreadsInStep
<1>7. \A w \in Searchers : wpc[w] \notin {"search", "publish"}
  BY <1>6 DEF Active
<1>8. ThreadsInStep' /\ TimerInStep'
  BY <1>2, <1>3, <1>4, <1>6 DEF TatInv, ThreadsInStep, TimerInStep
<1>9. SearchesCurrent' /\ EndedOnce'
  BY <1>2, <1>3, <1>7 DEF SearchesCurrent, EndedOnce, Won, QueryOpen
<1>10. ReadyInStep' /\ SharedInStep' /\ AnswerRead'
  BY <1>3 DEF ReadyInStep, SharedInStep, AnswerRead, Answered, QueryOpen
<1> QED
  BY <1>5, <1>6, <1>8, <1>9, <1>10 DEF TatInv

\* The destructor.
LEMMA EndStep ==
  ASSUME TatInv, EndThreads \/ JoinThreads
  PROVE  TatInv'
<1>1. /\ oracle \in Oracles /\ producer \in Producers /\ timer \in Timers
      /\ wpc \in [Searchers -> Places] /\ search \in [Searchers -> Searches]
      /\ flags \in [timeout : BOOLEAN, cancel : BOOLEAN]
  BY Typed DEF TatInv
<1>2. producer.pc \in {"end", "join_threads"} /\ UNCHANGED <<wpc, search, timer, flags>>
  BY DEF EndThreads, JoinThreads, ProducerAt
<1>3. /\ producer' \in Producers /\ producer'.pc \in {"join_threads", "gone"}
  BY <1>1 DEF EndThreads, JoinThreads, ProducerTo, Producers
<1>4. /\ oracle' \in Oracles /\ oracle'.kill /\ oracle'.done /\ oracle'.active = oracle.active
  <2>1. CASE EndThreads
    BY <1>1, <2>1 DEF EndThreads, Oracles
  <2>2. CASE JoinThreads
    BY <1>1, <2>2 DEF JoinThreads, ProducerAt, TatInv, ThreadsInStep
  <2> QED
    BY <2>1, <2>2
<1>5. tat_TypeOK'
  BY <1>1, <1>2, <1>3, <1>4, Typed DEF tat_TypeOK, Oracles, Places, Searches, Timers, Producers
<1>6. Active' = Active /\ Active = {}
  BY <1>2 DEF Active, TatInv, ThreadsInStep
<1>7. \A w \in Searchers : wpc[w] \notin {"search", "publish"}
  BY <1>6 DEF Active
<1>8. ActiveCounted'
  BY <1>4, <1>6 DEF TatInv, ActiveCounted
<1>9. ThreadsInStep' /\ TimerInStep'
  BY <1>2, <1>3, <1>4, <1>6 DEF TatInv, ThreadsInStep, TimerInStep
<1>10. SearchesCurrent' /\ EndedOnce'
  BY <1>2, <1>3, <1>7 DEF SearchesCurrent, EndedOnce, Won, QueryOpen
<1>11. ReadyInStep' /\ SharedInStep' /\ AnswerRead'
  BY <1>3 DEF ReadyInStep, SharedInStep, AnswerRead, Answered, QueryOpen
<1> QED
  BY <1>5, <1>8, <1>9, <1>10, <1>11 DEF TatInv

\* The timeout thread: only the first to set the done flag has ended the query.
LEMMA TimerStep ==
  ASSUME TatInv, Timer
  PROVE  TatInv'
<1>1. /\ oracle \in Oracles /\ producer \in Producers /\ timer \in Timers
      /\ wpc \in [Searchers -> Places] /\ search \in [Searchers -> Searches]
      /\ flags \in [timeout : BOOLEAN, cancel : BOOLEAN]
  BY Typed DEF TatInv
<1>2. UNCHANGED <<wpc, search, producer>> /\ timer.pc \in {"sleep", "signal", "assign"}
  BY DEF Timer, Sleep, SignalTimeout, AssignTimeout
<1>3. Active' = Active /\ (QueryOpen' <=> QueryOpen) /\ \A w \in Searchers : Won(w)' = Won(w)
  BY <1>2 DEF Active, QueryOpen, Won
<1>4. timer' \in Timers /\ timer'.pc # "off" /\ (timer'.pc = "sleep" => timer'.tick < Ticks)
  <2>1. CASE Sleep
    <3>1. /\ timer.pc = "sleep" /\ timer.tick < Ticks /\ timer.tick + 1 \in 0..Ticks
          /\ timer' = [timer EXCEPT !.tick = timer.tick + 1,
                         !.pc = IF flags.cancel THEN "done"
                                ELSE IF timer.tick + 1 = Ticks THEN "signal" ELSE "sleep"]
      BY <1>1, <2>1, TatAssumption DEF Sleep, TimeUp, TatInv, TimerInStep, Timers
    <3> DEFINE next == IF flags.cancel THEN "done"
                       ELSE IF timer.tick + 1 = Ticks THEN "signal" ELSE "sleep"
    <3>2. /\ next \in {"done", "signal", "sleep"}
          /\ next = "sleep" => timer.tick + 1 < Ticks
      BY <3>1, TatAssumption
    <3>3. timer' = [timer EXCEPT !.tick = timer.tick + 1, !.pc = next]
      BY <3>1
    <3> HIDE DEF next
    <3> QED
      BY <1>1, <3>1, <3>2, <3>3 DEF Timers
  <2>2. CASE SignalTimeout
    <3>1. FirstToEnd \in BOOLEAN
      BY <1>1 DEF FirstToEnd, Oracles
    <3> QED
      BY <1>1, <2>2, <3>1 DEF SignalTimeout, Timers
  <2>3. CASE AssignTimeout
    BY <1>1, <2>3 DEF AssignTimeout, Timers
  <2> QED
    BY <2>1, <2>2, <2>3 DEF Timer
<1>5. flags' \in [timeout : BOOLEAN, cancel : BOOLEAN]
  BY <1>1 DEF Timer, Sleep, SignalTimeout, AssignTimeout, Timers
<1>6. TimerInStep'
  BY <1>2, <1>4 DEF TatInv, TimerInStep
<1>7. SearchesCurrent'
  BY <1>2, <1>3 DEF TatInv, SearchesCurrent
<1>8. CASE Sleep \/ AssignTimeout
  <2>1. oracle' = oracle
    BY <1>8 DEF Sleep, AssignTimeout
  <2>2. tat_TypeOK'
    BY <1>1, <1>2, <1>4, <1>5, <2>1, Typed DEF tat_TypeOK, Oracles, Places, Searches, Timers, Producers
  <2>3. ActiveCounted' /\ ThreadsInStep'
    BY <1>2, <1>3, <2>1 DEF TatInv, ActiveCounted, ThreadsInStep
  <2>4. EndedOnce' /\ ReadyInStep'
    BY <1>2, <1>3, <2>1 DEF TatInv, EndedOnce, ReadyInStep
  <2>5. SharedInStep' /\ AnswerRead'
    BY <1>2, <1>3, <2>1 DEF TatInv, SharedInStep, AnswerRead, Answered, IsAnswer
  <2> QED
    BY <1>6, <1>7, <2>2, <2>3, <2>4, <2>5 DEF TatInv
<1>9. CASE SignalTimeout
  <2>1. oracle' = [oracle EXCEPT !.done = TRUE,
                                 !.timeout_happened = oracle.timeout_happened \/ ~oracle.done]
    BY <1>9 DEF SignalTimeout, FirstToEnd
  <2>2. (oracle.timeout_happened \/ ~oracle.done) \in BOOLEAN
    OBVIOUS
  <2>3. /\ oracle' \in Oracles /\ oracle'.done
        /\ oracle'.timeout_happened = (oracle.timeout_happened \/ ~oracle.done)
        /\ oracle'.active = oracle.active /\ oracle'.kill = oracle.kill
        /\ oracle'.results_ready = oracle.results_ready /\ oracle'.best = oracle.best
        /\ oracle'.found_success = oracle.found_success /\ oracle'.shared = oracle.shared
        /\ oracle'.answers = oracle.answers
    BY <1>1, <2>1, <2>2 DEF Oracles
  <2> HIDE <2>1
  <2>4. tat_TypeOK'
    BY <1>1, <1>2, <1>4, <1>5, <2>3, Typed DEF tat_TypeOK, Oracles, Places, Searches, Timers, Producers
  <2>5. ActiveCounted' /\ ThreadsInStep'
    BY <1>2, <1>3, <2>3 DEF TatInv, ActiveCounted, ThreadsInStep
  <2>6. EndedOnce'
    BY <1>2, <1>3, <2>3 DEF TatInv, EndedOnce
  <2>7. ReadyInStep'
    BY <1>2, <1>3, <2>3 DEF TatInv, ReadyInStep
  <2>8. SharedInStep' /\ AnswerRead'
    BY <1>2, <1>3, <2>3 DEF TatInv, SharedInStep, AnswerRead, Answered, IsAnswer
  <2> QED
    BY <1>6, <1>7, <2>4, <2>5, <2>6, <2>7, <2>8 DEF TatInv
<1> QED
  BY <1>8, <1>9 DEF Timer

-----------------------------------------------------------------------------
(* The worker threads.                                                     *)

\* A step of w changes no other worker's place or locals.
LEMMA WorkerFrame ==
  ASSUME TatInv, NEW w \in Searchers, NEW pc \in Places, NEW s \in Searches,
         wpc' = [wpc EXCEPT ![w] = pc], search' = [search EXCEPT ![w] = s],
         UNCHANGED <<timer, flags, producer>>, oracle' \in Oracles
  PROVE  /\ tat_TypeOK' /\ TimerInStep' /\ (QueryOpen' <=> QueryOpen)
         /\ wpc'[w] = pc /\ search'[w] = s
         /\ \A v \in Searchers \ {w} : wpc'[v] = wpc[v] /\ search'[v] = search[v]
         /\ \A v \in Searchers \ {w} : Won(v)' = Won(v)
         /\ Active' = IF pc \in {"search", "publish"} THEN Active \cup {w} ELSE Active \ {w}
<1>1. /\ oracle \in Oracles /\ producer \in Producers /\ timer \in Timers
      /\ wpc \in [Searchers -> Places] /\ search \in [Searchers -> Searches]
      /\ flags \in [timeout : BOOLEAN, cancel : BOOLEAN]
  BY Typed DEF TatInv
<1>2. wpc' \in [Searchers -> Places] /\ search' \in [Searchers -> Searches]
  BY <1>1
<1>3. tat_TypeOK'
  BY <1>1, <1>2, Typed DEF tat_TypeOK, Oracles, Places, Searches, Timers, Producers
<1>4. /\ wpc'[w] = pc /\ search'[w] = s
      /\ \A v \in Searchers \ {w} : wpc'[v] = wpc[v] /\ search'[v] = search[v]
  BY <1>1
<1>5. \A v \in Searchers \ {w} : Won(v)' = Won(v)
  BY <1>4 DEF Won
<1>6. Active' = IF pc \in {"search", "publish"} THEN Active \cup {w} ELSE Active \ {w}
  BY <1>4 DEF Active
<1>7. TimerInStep' /\ (QueryOpen' <=> QueryOpen)
  BY DEF TatInv, TimerInStep, QueryOpen
<1> QED
  BY <1>3, <1>4, <1>5, <1>6, <1>7

\* A worker wakes: it joins the query that is under way, or leaves.
LEMMA JoinStep ==
  ASSUME TatInv, NEW w \in Searchers, Join(w)
  PROVE  TatInv'
<1>1. /\ oracle \in Oracles /\ producer \in Producers
      /\ wpc \in [Searchers -> Places] /\ search \in [Searchers -> Searches]
  BY Typed DEF TatInv
<1>2. /\ wpc[w] = "wait" /\ (~oracle.done \/ oracle.kill)
      /\ UNCHANGED <<timer, flags, producer>>
  BY DEF Join
<1>3. PICK s : s = [IdleSearch EXCEPT !.prices = oracle.shared]
  OBVIOUS
<1>4. s \in Searches /\ s.round = 0 /\ s.clearing = FALSE /\ s.success = FALSE
  <2>1. 0 \in 0..CheckFreq - 1
    BY TatAssumption
  <2>2. InitialPrices \in Prices
    BY TatAssumption DEF InitialPrices, Prices
  <2>3. /\ IdleSearch \in Searches /\ IdleSearch.round = 0
        /\ IdleSearch.clearing = FALSE /\ IdleSearch.success = FALSE
    BY <2>1, <2>2 DEF IdleSearch, Searches
  <2> QED
    BY <1>1, <1>3, <2>3 DEF Searches, Oracles
<1>5. search' = [search EXCEPT ![w] = s]
  BY <1>3 DEF Join
<1>6. w \notin Active
  BY <1>2 DEF Active
<1>7. CASE oracle.kill
  <2>1. wpc' = [wpc EXCEPT ![w] = "exit"] /\ oracle' = oracle /\ producer.pc \in {"join_threads", "gone"}
    BY <1>7 DEF Join, TatInv, ThreadsInStep
  <2>2. "exit" \in Places
    BY DEF Places
  <2>3. /\ tat_TypeOK' /\ TimerInStep' /\ (QueryOpen' <=> QueryOpen)
        /\ wpc'[w] = "exit" /\ search'[w] = s
        /\ \A v \in Searchers \ {w} : wpc'[v] = wpc[v] /\ search'[v] = search[v]
        /\ Active' = Active \ {w}
    BY <1>1, <1>2, <1>4, <1>5, <2>1, <2>2, WorkerFrame
  <2>4. Active' = Active
    BY <1>6, <2>3
  <2>5. ActiveCounted' /\ ThreadsInStep'
    BY <1>2, <1>7, <2>1, <2>3, <2>4 DEF TatInv, ActiveCounted, ThreadsInStep
  <2>6. SearchesCurrent'
    BY <1>2, <2>3 DEF TatInv, SearchesCurrent, Won
  <2>7. EndedOnce' /\ ReadyInStep' /\ SharedInStep' /\ AnswerRead'
    BY <1>2, <2>1, <2>3 DEF EndedOnce, ReadyInStep, SharedInStep, AnswerRead, Answered, QueryOpen
  <2> QED
    BY <2>3, <2>5, <2>6, <2>7 DEF TatInv
<1>8. CASE ~oracle.kill
  <2>1. /\ ~oracle.done /\ producer.pc = "finish"
    <3>1. producer.pc \in {"read", "cancel", "solve", "clear", "threw", "wait_all"} => oracle.done
      BY DEF TatInv, ThreadsInStep, ReadyInStep, EndedOnce, QueryOpen
    <3> QED
      BY <1>1, <1>2, <1>8, <3>1 DEF TatInv, ThreadsInStep, Producers
  <2>2. /\ wpc' = [wpc EXCEPT ![w] = "search"]
        /\ oracle' = [oracle EXCEPT !.active = oracle.active + 1]
    BY <1>8 DEF Join
  <2>3. Cardinality(Active \cup {w}) = oracle.active + 1
    BY <1>6, ActiveFinite, FS_AddElement DEF TatInv, ActiveCounted
  <2>4. oracle.active + 1 \in 0..Cardinality(Searchers)
    <3>1. Active \cup {w} \subseteq Searchers
      BY DEF Active
    <3> QED
      BY <1>1, <2>3, <3>1, TatAssumption, FS_Subset, FS_CardinalityType DEF Oracles
  <2>5. /\ oracle' \in Oracles /\ oracle'.active = oracle.active + 1
        /\ oracle'.done = oracle.done /\ oracle'.timeout_happened = oracle.timeout_happened
        /\ oracle'.kill = oracle.kill /\ oracle'.results_ready = oracle.results_ready
        /\ oracle'.best = oracle.best /\ oracle'.found_success = oracle.found_success
        /\ oracle'.shared = oracle.shared /\ oracle'.answers = oracle.answers
    BY <1>1, <2>2, <2>4 DEF Oracles
  <2>6. "search" \in Places
    BY DEF Places
  <2>7. /\ tat_TypeOK' /\ TimerInStep' /\ (QueryOpen' <=> QueryOpen)
        /\ wpc'[w] = "search" /\ search'[w] = s
        /\ \A v \in Searchers \ {w} : wpc'[v] = wpc[v] /\ search'[v] = search[v]
        /\ \A v \in Searchers \ {w} : Won(v)' = Won(v)
        /\ Active' = Active \cup {w}
    BY <1>1, <1>2, <1>4, <1>5, <2>2, <2>5, <2>6, WorkerFrame
  <2> HIDE <2>2
  <2>8. ~Won(w) /\ ~Won(w)'
    BY <1>2, <2>7 DEF Won
  <2>9. \A v \in Searchers : Won(v)' = Won(v)
    <3>1. Won(w)' = Won(w)
      BY <1>4, <2>7, <1>2 DEF Won
    <3> QED
      BY <2>7, <3>1
  <2>10. ActiveCounted' /\ ThreadsInStep'
    BY <1>2, <1>8, <2>1, <2>3, <2>5, <2>7 DEF TatInv, ActiveCounted, ThreadsInStep
  <2>11. SearchesCurrent'
    BY <1>2, <1>4, <2>7, <2>8 DEF TatInv, SearchesCurrent, Won
  <2>12. EndedOnce'
    BY <1>2, <2>5, <2>7, <2>9 DEF TatInv, EndedOnce
  <2>13. ReadyInStep'
    <3>1. ~oracle.results_ready
      BY <2>1 DEF TatInv, ReadyInStep, EndedOnce, QueryOpen
    <3> QED
      BY <2>5, <3>1 DEF ReadyInStep
  <2>14. SharedInStep' /\ AnswerRead'
    BY <1>2, <2>5, <2>7 DEF TatInv, SharedInStep, AnswerRead, Answered, IsAnswer
  <2> QED
    BY <2>7, <2>10, <2>11, <2>12, <2>13, <2>14 DEF TatInv
<1> QED
  BY <1>7, <1>8

\* A round of the search: whoever leaves it because the query is over has
\* computed prices in this query, since the flag is looked at only after the
\* first round.
LEMMA RoundStep ==
  ASSUME TatInv, NEW w \in Searchers, Round(w)
  PROVE  TatInv'
<1>1. /\ oracle \in Oracles /\ producer \in Producers
      /\ wpc \in [Searchers -> Places] /\ search \in [Searchers -> Searches]
  BY Typed DEF TatInv
<1>2. /\ wpc[w] = "search" /\ ~search[w].clearing
      /\ UNCHANGED <<oracle, timer, flags, producer>>
  BY DEF Round
<1>3. PICK r : r = (search[w].round + 1) % CheckFreq
  OBVIOUS
<1>4. PICK ends \in BOOLEAN : ends <=> (r = CheckFreq - 1 /\ oracle.done)
  <2>1. (r = CheckFreq - 1 /\ oracle.done) \in BOOLEAN
    OBVIOUS
  <2> QED
    BY <2>1
<1>5. PICK clears \in BOOLEAN : \E p \in RoundPrices(w, clears) :
        /\ search' = [search EXCEPT
             ![w] = [prices |-> IF ends THEN search[w].prices ELSE p, round |-> r,
                     clearing |-> clears /\ ~ends, success |-> FALSE]]
        /\ wpc' = [wpc EXCEPT ![w] = IF ends THEN "publish" ELSE "search"]
  BY <1>3, <1>4 DEF Round
<1>6. PICK p \in RoundPrices(w, clears) :
        /\ search' = [search EXCEPT
             ![w] = [prices |-> IF ends THEN search[w].prices ELSE p, round |-> r,
                     clearing |-> clears /\ ~ends, success |-> FALSE]]
        /\ wpc' = [wpc EXCEPT ![w] = IF ends THEN "publish" ELSE "search"]
  BY <1>5
<1>7. /\ p \in Prices /\ p.block = producer.block /\ p.ratio \in Ratios /\ p.clears = clears
  BY <1>1 DEF RoundPrices, Prices, Producers, Blocks
<1>8. r \in 0..CheckFreq - 1 /\ (ends => search[w].round # 0)
  <2>1. search[w].round \in Nat /\ CheckFreq \in Nat /\ CheckFreq >= 3
    BY <1>1, TatAssumption DEF Searches
  <2>2. r \in 0..CheckFreq - 1
    BY <1>3, <2>1
  <2>3. search[w].round = 0 => r = 1
    BY <1>3, <2>1
  <2> QED
    BY <1>4, <2>1, <2>2, <2>3
<1>9. ends => search[w].prices.block = producer.block /\ search[w].prices.ratio \in Ratios
  BY <1>2, <1>8 DEF TatInv, SearchesCurrent
<1>10. PICK q : q = IF ends THEN search[w].prices ELSE p
  OBVIOUS
<1>11. q \in Prices /\ q.block = producer.block /\ q.ratio \in Ratios /\ (~ends => q.clears = clears)
  BY <1>1, <1>7, <1>9, <1>10 DEF Searches
<1>12. PICK c \in BOOLEAN : c = (clears /\ ~ends)
  OBVIOUS
<1>13. PICK s : s = [prices |-> q, round |-> r, clearing |-> c, success |-> FALSE]
  OBVIOUS
<1>14. /\ s \in Searches /\ s.prices = q /\ s.clearing = c /\ s.success = FALSE
  BY <1>8, <1>11, <1>13 DEF Searches
<1>15. search' = [search EXCEPT ![w] = s]
  BY <1>6, <1>10, <1>12, <1>13
<1>16. PICK pc \in {"search", "publish"} : pc = IF ends THEN "publish" ELSE "search"
  OBVIOUS
<1>17. pc \in Places /\ wpc' = [wpc EXCEPT ![w] = pc]
  BY <1>6, <1>16 DEF Places
<1>18. /\ tat_TypeOK' /\ TimerInStep' /\ (QueryOpen' <=> QueryOpen)
       /\ wpc'[w] = pc /\ search'[w] = s
       /\ \A v \in Searchers \ {w} : wpc'[v] = wpc[v] /\ search'[v] = search[v]
       /\ \A v \in Searchers \ {w} : Won(v)' = Won(v)
       /\ Active' = Active \cup {w}
  BY <1>1, <1>2, <1>14, <1>15, <1>16, <1>17, WorkerFrame
<1> HIDE <1>5, <1>6
<1>19. Active' = Active
  BY <1>2, <1>18 DEF Active
<1>20. \A v \in Searchers : Won(v)' = Won(v)
  <2>1. Won(w)' = Won(w)
    BY <1>2, <1>14, <1>18 DEF Won
  <2> QED
    BY <1>18, <2>1
<1>21. ActiveCounted' /\ ThreadsInStep'
  BY <1>2, <1>16, <1>18, <1>19 DEF TatInv, ActiveCounted, ThreadsInStep
<1>22. SearchesCurrent'
  <2>1. ~Won(w)'
    BY <1>14, <1>18 DEF Won
  <2>2. c => q.clears
    BY <1>11, <1>12
  <2>3. \A v \in Searchers : v # w => Won(v)' = Won(v)
    BY <1>18
  <2> QED
    BY <1>2, <1>11, <1>14, <1>18, <2>1, <2>2, <2>3 DEF TatInv, SearchesCurrent
<1>23. EndedOnce'
  <2>1. pc = "publish" => oracle.done
    BY <1>4, <1>16
  <2> QED
    BY <1>2, <1>18, <1>20, <2>1 DEF TatInv, EndedOnce
<1>24. ReadyInStep'
  BY <1>2, <1>18, <1>19 DEF TatInv, ReadyInStep
<1>25. SharedInStep' /\ AnswerRead'
  BY <1>2, <1>18 DEF TatInv, SharedInStep, AnswerRead, Answered, IsAnswer
<1> QED
  BY <1>18, <1>21, <1>22, <1>23, <1>24, <1>25 DEF TatInv

\* A search that cleared the market: the first to set the flag has won, and it
\* can be no other worker and not the timeout.
LEMMA ClearStep ==
  ASSUME TatInv, NEW w \in Searchers, Clear(w)
  PROVE  TatInv'
<1>1. /\ oracle \in Oracles /\ producer \in Producers
      /\ wpc \in [Searchers -> Places] /\ search \in [Searchers -> Searches]
  BY Typed DEF TatInv
<1>2. /\ wpc[w] = "search" /\ search[w].clearing /\ UNCHANGED <<timer, flags, producer>>
      /\ wpc' = [wpc EXCEPT ![w] = "publish"]
      /\ oracle' = [oracle EXCEPT !.done = TRUE]
  BY DEF Clear
<1>3. PICK first \in BOOLEAN : first = ~oracle.done
  BY <1>1 DEF Oracles
<1>4. PICK s : s = [search[w] EXCEPT !.success = first]
  OBVIOUS
<1>5. s \in Searches /\ s.prices = search[w].prices /\ s.clearing /\ s.success = first
  BY <1>1, <1>2, <1>4 DEF Searches
<1>6. search' = [search EXCEPT ![w] = s]
  BY <1>1, <1>3, <1>4 DEF Clear, FirstToEnd
<1>7. /\ oracle' \in Oracles /\ oracle'.active = oracle.active
      /\ oracle'.done /\ oracle'.timeout_happened = oracle.timeout_happened
      /\ oracle'.kill = oracle.kill /\ oracle'.results_ready = oracle.results_ready
      /\ oracle'.best = oracle.best /\ oracle'.found_success = oracle.found_success
      /\ oracle'.shared = oracle.shared /\ oracle'.answers = oracle.answers
  BY <1>1, <1>2 DEF Oracles
<1>8. "publish" \in Places
  BY DEF Places
<1>9. /\ tat_TypeOK' /\ TimerInStep' /\ (QueryOpen' <=> QueryOpen)
      /\ wpc'[w] = "publish" /\ search'[w] = s
      /\ \A v \in Searchers \ {w} : wpc'[v] = wpc[v] /\ search'[v] = search[v]
      /\ \A v \in Searchers \ {w} : Won(v)' = Won(v)
      /\ Active' = Active \cup {w}
  BY <1>1, <1>2, <1>5, <1>6, <1>7, <1>8, WorkerFrame
<1>10. Active' = Active
  BY <1>2, <1>9 DEF Active
<1>11. ~Won(w) /\ (Won(w)' <=> first)
  BY <1>2, <1>5, <1>9 DEF Won
<1>12. search[w].prices.clears /\ search[w].prices.block = producer.block
       /\ search[w].prices.ratio \in Ratios
  BY <1>2 DEF TatInv, SearchesCurrent
<1>13. producer.pc \notin {"commit", "start", "join", "end", "join_threads", "gone"}
  BY <1>2 DEF TatInv, ThreadsInStep, Active
<1>14. ActiveCounted' /\ ThreadsInStep'
  BY <1>2, <1>7, <1>9, <1>10 DEF TatInv, ActiveCounted, ThreadsInStep
<1>15. SearchesCurrent'
  <2>1. \A v \in Searchers : v # w => Won(v)' = Won(v)
    BY <1>9
  <2> QED
    BY <1>2, <1>5, <1>9, <1>12, <2>1 DEF TatInv, SearchesCurrent
<1>16. EndedOnce'
  <2> SUFFICES ASSUME QueryOpen PROVE EndedOnce'
    BY <1>9 DEF EndedOnce
  <2>1. ~oracle.done => /\ ~oracle.timeout_happened /\ ~oracle.found_success
                        /\ \A v \in Searchers : ~Won(v)
    BY <1>1 DEF TatInv, EndedOnce, Oracles
  <2>2. oracle.done => oracle.timeout_happened \/ oracle.found_success \/ \E v \in Searchers : Won(v)
    BY DEF TatInv, EndedOnce
  <2>3. \A v \in Searchers : v # w => (Won(v)' <=> Won(v))
    BY <1>9
  <2>4. oracle'.timeout_happened \/ oracle'.found_success \/ \E v \in Searchers : Won(v)'
    BY <1>3, <1>7, <1>11, <2>2, <2>3
  <2>5. ~(oracle'.timeout_happened /\ oracle'.found_success)
    BY <1>7 DEF TatInv, EndedOnce
  <2>6. \A v \in Searchers : Won(v)' => ~oracle'.timeout_happened /\ ~oracle'.found_success
    BY <1>3, <1>7, <1>11, <2>1, <2>3 DEF TatInv, EndedOnce
  <2>7. ASSUME NEW u \in Searchers, NEW v \in Searchers, Won(u)', Won(v)'
        PROVE  u = v
    BY <1>3, <1>11, <2>1, <2>3, <2>7 DEF TatInv, EndedOnce
  <2> QED
    BY <1>7, <2>4, <2>5, <2>6, <2>7 DEF EndedOnce
<1>17. ReadyInStep'
  BY <1>2, <1>7, <1>9, <1>10 DEF TatInv, ReadyInStep
<1>18. SharedInStep' /\ AnswerRead'
  BY <1>2, <1>7, <1>9 DEF TatInv, SharedInStep, AnswerRead, Answered, IsAnswer
<1> QED
  BY <1>9, <1>14, <1>15, <1>16, <1>17, <1>18 DEF TatInv

\* The locked section after the search.
LEMMA PublishStep ==
  ASSUME TatInv, NEW w \in Searchers, Publish(w)
  PROVE  TatInv'
<1>1. /\ oracle \in Oracles /\ producer \in Producers
      /\ wpc \in [Searchers -> Places] /\ search \in [Searchers -> Searches]
  BY Typed DEF TatInv
<1>2. /\ wpc[w] = "publish" /\ UNCHANGED <<timer, flags, producer>>
      /\ wpc' = [wpc EXCEPT ![w] = "wait"] /\ search' = [search EXCEPT ![w] = IdleSearch]
  BY DEF Publish
<1>3. PICK mine : mine = search[w].prices
  OBVIOUS
<1>4. PICK wins \in BOOLEAN : wins <=> search[w].success /\ ~oracle.found_success
  OBVIOUS
<1>5. PICK found \in BOOLEAN : found <=> oracle.found_success \/ wins
  OBVIOUS
<1>6. PICK better \in BOOLEAN : better <=> ~found /\ (oracle.best = None \/ LessThan(mine.ratio, oracle.best))
  OBVIOUS
<1>7. PICK active : active = oracle.active - 1
  OBVIOUS
<1>8. PICK ready \in BOOLEAN : ready <=> oracle.results_ready \/ wins \/ active = 0
  OBVIOUS
<1>9. PICK shared : shared = IF wins \/ better THEN mine ELSE oracle.shared
  OBVIOUS
<1>10. PICK best : best = IF better THEN mine.ratio ELSE oracle.best
  OBVIOUS
<1>11. oracle' = [oracle EXCEPT !.active = active, !.found_success = found, !.shared = shared,
                    !.best = best, !.results_ready = ready,
                    !.answers = oracle.answers \cup {mine.ratio}]
  <2>1. wins = (search[w].success /\ ~oracle.found_success)
    BY <1>1, <1>4 DEF Searches, Oracles
  <2>2. found = (oracle.found_success \/ wins)
    BY <1>5
  <2>3. better = (~found /\ (oracle.best = None \/ LessThan(mine.ratio, oracle.best)))
    BY <1>6
  <2>4. ready = (oracle.results_ready \/ ResultsReady(wins, active))
    BY <1>8 DEF ResultsReady
  <2>5. oracle' = [oracle EXCEPT
          !.active = active,
          !.found_success = found,
          !.shared = IF wins \/ better THEN mine ELSE oracle.shared,
          !.best = IF better THEN mine.ratio ELSE oracle.best,
          !.results_ready = oracle.results_ready \/ ResultsReady(wins, active),
          !.answers = oracle.answers \cup {mine.ratio}]
    BY <1>3, <1>7, <2>1, <2>2, <2>3 DEF Publish
  <2> QED
    BY <1>9, <1>10, <2>4, <2>5
<1>12. /\ mine \in Prices /\ mine.block = producer.block /\ mine.ratio \in Ratios
       /\ Won(w) => mine.clears
  BY <1>1, <1>2, <1>3, TatAssumption DEF TatInv, SearchesCurrent, Searches
<1>13. w \in Active /\ Active \subseteq Searchers
  BY <1>2 DEF Active
<1>14. QueryOpen /\ ~oracle.kill
  BY <1>1, <1>13 DEF TatInv, ThreadsInStep, QueryOpen, Producers
<1>15. Cardinality(Active \ {w}) = active /\ active \in 0..Cardinality(Searchers)
  <2>1. IsFiniteSet(Active \ {w}) /\ Cardinality(Active \ {w}) = Cardinality(Active) - 1
    BY <1>13, ActiveFinite, FS_RemoveElement
  <2>2. Cardinality(Active \ {w}) \in Nat
    BY <2>1, FS_CardinalityType
  <2>3. oracle.active = Cardinality(Active) /\ oracle.active \in 0..Cardinality(Searchers)
    BY <1>1 DEF TatInv, ActiveCounted, Oracles
  <2>4. Cardinality(Searchers) \in Nat
    BY TatAssumption, FS_CardinalityType
  <2> QED
    BY <1>7, <2>1, <2>2, <2>3, <2>4
<1>16. /\ shared \in Prices /\ best \in Ratios \cup {None}
       /\ oracle.answers \cup {mine.ratio} \in SUBSET Ratios
  BY <1>1, <1>9, <1>10, <1>12 DEF Oracles
<1>17. /\ oracle' \in Oracles /\ oracle'.active = active /\ oracle'.found_success = found
       /\ oracle'.shared = shared /\ oracle'.best = best /\ oracle'.results_ready = ready
       /\ oracle'.answers = oracle.answers \cup {mine.ratio}
       /\ oracle'.done = oracle.done /\ oracle'.timeout_happened = oracle.timeout_happened
       /\ oracle'.kill = oracle.kill
  BY <1>1, <1>11, <1>15, <1>16 DEF Oracles
<1> HIDE <1>11
<1>18. /\ tat_TypeOK' /\ TimerInStep' /\ (QueryOpen' <=> QueryOpen)
       /\ wpc'[w] = "wait"
       /\ \A v \in Searchers \ {w} : wpc'[v] = wpc[v] /\ search'[v] = search[v]
       /\ \A v \in Searchers \ {w} : Won(v)' = Won(v)
       /\ Active' = Active \ {w}
  <2>1. "wait" \in Places
    BY DEF Places
  <2>2. IdleSearch \in Searches
    BY TatAssumption DEF IdleSearch, Searches, InitialPrices, Prices
  <2>3. search' = [search EXCEPT ![w] = IdleSearch]
    BY <1>2
  <2>4. oracle' \in Oracles
    BY <1>17
  <2>5. UNCHANGED <<timer, flags, producer>> /\ wpc' = [wpc EXCEPT ![w] = "wait"]
    BY <1>2
  <2>6. Active' = IF "wait" \in {"search", "publish"} THEN Active \cup {w} ELSE Active \ {w}
    BY <2>1, <2>2, <2>3, <2>4, <2>5, WorkerFrame
  <2> QED
    BY <2>1, <2>2, <2>3, <2>4, <2>5, <2>6, WorkerFrame
<1>19. ~Won(w)' /\ \A v \in Searchers : v # w => (Won(v)' <=> Won(v))
  BY <1>18 DEF Won
<1>20. wins <=> Won(w)
  BY <1>2, <1>4, <1>14 DEF TatInv, EndedOnce, Won
<1>21. oracle.done
  BY <1>2, <1>14 DEF TatInv, EndedOnce
<1>22. oracle.results_ready => oracle.found_success
  BY <1>13, <1>14 DEF TatInv, ReadyInStep
<1>23. ActiveCounted'
  BY <1>15, <1>17, <1>18 DEF ActiveCounted
<1>24. ThreadsInStep'
  BY <1>2, <1>8, <1>13, <1>17, <1>18, <1>21 DEF TatInv, ThreadsInStep
<1>25. SearchesCurrent'
  BY <1>2, <1>18, <1>19 DEF TatInv, SearchesCurrent
<1>26. EndedOnce'
  <2>1. oracle.timeout_happened \/ oracle.found_success \/ \E v \in Searchers : Won(v)
    BY <1>14, <1>21 DEF TatInv, EndedOnce
  <2>2. oracle'.timeout_happened \/ oracle'.found_success \/ \E v \in Searchers : Won(v)'
    BY <1>5, <1>17, <1>19, <1>20, <2>1
  <2>3. ~(oracle'.timeout_happened /\ oracle'.found_success)
    BY <1>5, <1>14, <1>17, <1>20 DEF TatInv, EndedOnce
  <2>4. \A v \in Searchers : Won(v)' => ~oracle'.timeout_happened /\ ~oracle'.found_success
    BY <1>5, <1>14, <1>17, <1>19, <1>20 DEF TatInv, EndedOnce
  <2>5. \A u, v \in Searchers : Won(u)' /\ Won(v)' => u = v
    BY <1>14, <1>19 DEF TatInv, EndedOnce
  <2> QED
    BY <1>17, <1>21, <2>2, <2>3, <2>4, <2>5 DEF EndedOnce
<1>27. ReadyInStep'
  <2> SUFFICES ASSUME ready, ~found
               PROVE  oracle.timeout_happened /\ Active' = {} /\ best # None
    BY <1>17 DEF ReadyInStep
  <2>1. ~oracle.found_success /\ ~wins /\ active = 0
    BY <1>5, <1>8, <1>22
  <2>2. Active' = {}
    <3>1. IsFiniteSet(Active \ {w})
      BY <1>13, ActiveFinite, FS_RemoveElement
    <3> QED
      BY <1>15, <1>18, <2>1, <3>1, FS_EmptySet
  <2>3. \A v \in Searchers : ~Won(v)
    <3>1. \A v \in Searchers : Won(v) => v \in Active
      BY DEF Won, Active
    <3> QED
      BY <1>18, <1>20, <2>1, <2>2, <3>1
  <2>4. oracle.timeout_happened
    BY <1>14, <1>21, <2>1, <2>3 DEF TatInv, EndedOnce
  <2>5. best # None
    BY <1>6, <1>10, <1>12, TatAssumption
  <2> QED
    BY <2>2, <2>4, <2>5
<1>28. SharedInStep'
  <2>1. CASE oracle.found_success
    <3>1. found /\ ~wins /\ ~better /\ shared = oracle.shared
      BY <1>4, <1>5, <1>6, <1>9, <2>1
    <3>2. IsAnswer(oracle.shared)
      BY <1>14, <2>1 DEF TatInv, SharedInStep
    <3> QED
      BY <1>2, <1>17, <2>1, <3>1, <3>2 DEF SharedInStep, IsAnswer
  <2>2. CASE ~oracle.found_success /\ wins
    <3>1. found /\ shared = mine /\ mine.clears
      BY <1>5, <1>9, <1>12, <1>20, <2>2
    <3> QED
      BY <1>2, <1>12, <1>17, <3>1 DEF SharedInStep, IsAnswer
  <2>3. CASE ~found
    <3>1. ~oracle.found_success /\ ~wins
      BY <1>5, <2>3
    <3>2. /\ oracle.best # None =>
               /\ oracle.shared.block = producer.block
               /\ \A q \in oracle.answers : ~LessThan(q, oracle.shared.ratio)
               /\ oracle.shared.ratio = oracle.best
          /\ oracle.best = None => oracle.answers = {}
      BY <1>14, <3>1 DEF TatInv, SharedInStep, IsAnswer
    <3>3. /\ oracle.best # None => oracle.best \in Nat \cup {NaN}
          /\ \A q \in oracle.answers \cup {mine.ratio} : q \in Nat \cup {NaN}
      <4>1. oracle.best \in Ratios \cup {None} /\ oracle.answers \in SUBSET Ratios
        BY <1>1 DEF Oracles
      <4>2. Ratios \subseteq Nat \cup {NaN}
        BY TatAssumption
      <4> QED
        BY <1>12, <4>1, <4>2, Zenon
    <3>4. CASE better
      <4>1. shared = mine /\ best = mine.ratio
        BY <1>9, <1>10, <3>4
      <4>2. ASSUME NEW q \in oracle.answers
            PROVE  ~LessThan(q, mine.ratio)
        <5>1. /\ LessThan(mine.ratio, oracle.best)
              /\ ~LessThan(q, oracle.best)
              /\ oracle.best \in Nat \cup {NaN}
          BY <1>6, <3>2, <3>3, <3>4, <4>2
        <5> QED
          BY <3>3, <5>1 DEF LessThan
      <4>3. ~LessThan(mine.ratio, mine.ratio)
        BY <3>3 DEF LessThan
      <4> QED
        BY <1>2, <1>12, <1>17, <2>3, <4>1, <4>2, <4>3, TatAssumption DEF SharedInStep, IsAnswer
    <3>5. CASE ~better
      <4>1. shared = oracle.shared /\ best = oracle.best /\ best # None
        BY <1>6, <1>9, <1>10, <2>3, <3>1, <3>5
      <4>2. ~LessThan(mine.ratio, oracle.shared.ratio)
        BY <1>6, <2>3, <3>2, <3>5, <4>1
      <4> QED
        BY <1>2, <1>17, <2>3, <3>2, <4>1, <4>2 DEF SharedInStep, IsAnswer
    <3> QED
      BY <3>4, <3>5
  <2> QED
    BY <1>5, <2>1, <2>2, <2>3
<1>29. AnswerRead'
  <2> SUFFICES ASSUME Answered
               PROVE  producer.prices.block = producer.block /\ found /\ producer.prices.clears
    BY <1>2, <1>17 DEF AnswerRead, Answered, IsAnswer
  <2>1. oracle.found_success
    BY <1>22 DEF TatInv, ThreadsInStep, Answered
  <2> QED
    BY <1>5, <2>1 DEF TatInv, AnswerRead, IsAnswer
<1> QED
  BY <1>18, <1>23, <1>24, <1>25, <1>26, <1>27, <1>28, <1>29 DEF TatInv

-----------------------------------------------------------------------------
(* The theorems.                                                           *)

\* No step breaks the invariant.
LEMMA TatInductive == TatInv /\ [tat_Next]_tat_vars => TatInv'
<1> SUFFICES ASSUME TatInv, [tat_Next]_tat_vars PROVE TatInv'
  OBVIOUS
<1>1. CASE Producer
  BY <1>1, CommitOrderbooksStep, QueryStep, StartQueryStep, JoinTimeoutStep, EndStep DEF Producer
<1>2. CASE Timer
  BY <1>2, TimerStep
<1>3. ASSUME NEW w \in Searchers, Searcher(w) PROVE TatInv'
  BY <1>3, JoinStep, RoundStep, ClearStep, PublishStep DEF Searcher
<1>4. CASE UNCHANGED tat_vars
  <2>1. UNCHANGED <<oracle, wpc, search, timer, flags, producer>>
    BY <1>4 DEF tat_vars
  <2>2. tat_TypeOK' /\ TimerInStep'
    BY <2>1 DEF TatInv, tat_TypeOK, TimerInStep
  <2>3. ActiveCounted' /\ SearchesCurrent' /\ EndedOnce' /\ ReadyInStep' /\ SharedInStep'
    BY <2>1, ProducerFrame DEF QueryOpen
  <2>4. ThreadsInStep'
    BY <2>1, OutsideFrame DEF TatInv, ThreadsInStep
  <2>5. AnswerRead'
    BY <2>1 DEF TatInv, AnswerRead, Answered, IsAnswer
  <2> QED
    BY <2>2, <2>3, <2>4, <2>5 DEF TatInv
<1> QED
  BY <1>1, <1>2, <1>3, <1>4 DEF tat_Next

\* What the producer reads is the answer: ReadyInStep says who ended the query.
LEMMA AnswerEntailed == TatInv => AnswerIsBest
<1> SUFFICES ASSUME TatInv, Answered
             PROVE  IsAnswer(producer.prices) /\ oracle.timeout_happened # oracle.found_success
  BY DEF AnswerIsBest, IsAnswer
<1>1. QueryOpen /\ oracle.results_ready
  BY DEF Answered, QueryOpen, TatInv, ThreadsInStep
<1>2. oracle.timeout_happened \in BOOLEAN /\ oracle.found_success \in BOOLEAN
  BY Typed DEF TatInv, Oracles
<1>3. (oracle.found_success \/ oracle.timeout_happened)
      /\ ~(oracle.found_success /\ oracle.timeout_happened)
  BY <1>1 DEF TatInv, ReadyInStep, EndedOnce
<1> QED
  BY <1>2, <1>3 DEF TatInv, AnswerRead

\* Where a block begins, nobody is left of the one before.
LEMMA IsolationEntailed == TatInv => BlocksIsolated
<1> SUFFICES ASSUME TatInv, producer.pc \in {"commit", "end"}
             PROVE  timer.pc = "off" /\ \A w \in Searchers : wpc[w] = "wait"
  BY DEF BlocksIsolated, TatInv
<1>1. timer.pc = "off" /\ Active = {} /\ ~oracle.kill
  BY DEF TatInv, TimerInStep, ThreadsInStep
<1>2. wpc \in [Searchers -> Places]
  BY Typed DEF TatInv
<1> QED
  BY <1>1, <1>2 DEF TatInv, ThreadsInStep, Active, Places

\* The prices a block is cleared at are those of the one worker that ended the
\* query, or of a query that timed out, prices such that none published lose
\* less utility by the comparison of the code, which no NaN wins: for any
\* number of workers and any order of joins, rounds, reports and timeouts
\* (run_tatonnement_thread, signal_grid_search_timeout).
THEOREM AnswerCorrect == tat_Spec => []AnswerIsBest
<1>1. tat_Init => TatInv
  BY TatStart
<1>2. TatInv /\ [tat_Next]_tat_vars => TatInv'
  BY TatInductive
<1>3. TatInv => AnswerIsBest
  BY AnswerEntailed
<1> QED
  BY <1>1, <1>2, <1>3, PTL DEF tat_Spec

\* No worker and no timeout thread of a block is left when the next one commits
\* its offers (wait_for_all_tatonnement_threads and the join of the timeout
\* thread in speedex_operation.cc); and the state keeps its types.
THEOREM BlocksIsolatedCorrect == tat_Spec => []BlocksIsolated
<1>1. tat_Init => TatInv
  BY TatStart
<1>2. TatInv /\ [tat_Next]_tat_vars => TatInv'
  BY TatInductive
<1>3. TatInv => BlocksIsolated
  BY IsolationEntailed
<1> QED
  BY <1>1, <1>2, <1>3, PTL DEF tat_Spec

-----------------------------------------------------------------------------
(***************************************************************************)
(* DemandOracle.                                                           *)
(***************************************************************************)
(***************************************************************************)
(* The shares of the orderbooks.  Thread k takes those from Share(k) up to *)
(* Share(k + 1), the searching thread being thread 0: what the threads up  *)
(* to some number have added up is a prefix of the orderbooks.             *)
(***************************************************************************)
Share(k) == (units * k) \div (NumHelpers + 1)

\* Integer division: the quotient is within one divisor of the dividend.
LEMMA DivBounds ==
  ASSUME NEW a \in Nat, NEW s \in Nat \ {0}
  PROVE  a \div s \in Nat /\ s * (a \div s) <= a /\ a < s * (a \div s) + s
OBVIOUS

\* A larger factor makes the product larger by the other factor at least.
LEMMA MulStrict ==
  ASSUME NEW s \in Nat \ {0}, NEW p \in Nat, NEW q \in Nat, q + 1 <= p
  PROVE  s * q + s <= s * p
OBVIOUS

\* Products of natural numbers are monotonic.
LEMMA MulMono ==
  ASSUME NEW u \in Nat, NEW j \in Nat, NEW k \in Nat, j <= k
  PROVE  u * j <= u * k /\ u * j \in Nat /\ u * k \in Nat
OBVIOUS

\* Integer division is monotonic in the dividend.
LEMMA DivMono ==
  ASSUME NEW a \in Nat, NEW b \in Nat, NEW s \in Nat \ {0}, a <= b
  PROVE  a \div s <= b \div s
<1> DEFINE p == a \div s
           q == b \div s
<1>1. p \in Nat /\ q \in Nat /\ s * p <= a /\ b < s * q + s
  BY DivBounds
<1>2. ASSUME q + 1 <= p PROVE FALSE
  <2>1. s * q + s <= s * p
    BY <1>1, <1>2, MulStrict
  <2>2. s * q \in Int /\ s * p \in Int
    BY <1>1
  <2> HIDE DEF p, q
  <2> QED
    BY <1>1, <2>1, <2>2
<1> QED
  BY <1>1, <1>2

\* A product divided by one of its factors is the other.
LEMMA DivExact ==
  ASSUME NEW u \in Nat, NEW s \in Nat \ {0}
  PROVE  (u * s) \div s = u
<1> DEFINE p == (u * s) \div s
<1>1. u * s \in Nat /\ u * s = s * u
  BY MulMono
<1>2. p \in Nat /\ s * p <= u * s /\ u * s < s * p + s
  BY <1>1, DivBounds
<1> HIDE DEF p
<1>3. ~(p + 1 <= u)
  <2> SUFFICES ASSUME p + 1 <= u PROVE FALSE
    OBVIOUS
  <2>1. s * p + s <= s * u
    BY <1>2, MulStrict
  <2> QED
    BY <1>1, <1>2, <2>1
<1>4. ~(u + 1 <= p)
  <2> SUFFICES ASSUME u + 1 <= p PROVE FALSE
    OBVIOUS
  <2>1. s * u + s <= s * p
    BY <1>2, MulStrict
  <2> QED
    BY <1>1, <1>2, <2>1
<1> QED
  BY <1>2, <1>3, <1>4 DEF p

\* The shares cut the orderbooks into consecutive intervals: none is left
\* out, none is given to two threads (num_work_units of demand_oracle.h).
LEMMA Shares ==
  ASSUME units \in Nat
  PROVE  /\ Share(0) = 0 /\ Share(NumHelpers + 1) = units
         /\ CallerUnits = 0 .. Share(1) - 1
         /\ \A h \in Helpers :
              /\ Share(h + 1) \in Nat /\ Share(h + 2) \in Nat
              /\ Share(h + 1) <= Share(h + 2)
              /\ HelperUnits(h) = Share(h + 1) .. Share(h + 2) - 1
         /\ Share(1) \in Nat
<1>1. NumHelpers + 1 \in Nat \ {0} /\ Helpers \subseteq Nat /\ NumHelpers \in Nat
  BY DemandAssumption DEF Helpers
<1>2. Share(NumHelpers + 1) = units
  BY <1>1, DivExact DEF Share
<1>3. Share(0) = 0
  <2>1. units * 0 = 0
    OBVIOUS
  <2> QED
    BY <1>1, <2>1, DivExact DEF Share
<1>4. units * 1 = units
  OBVIOUS
<1>5. CallerUnits = 0 .. Share(1) - 1 /\ Share(1) \in Nat
  BY <1>1, <1>4, DivBounds DEF CallerUnits, Share
<1>6. ASSUME NEW h \in Helpers
      PROVE  /\ Share(h + 1) \in Nat /\ Share(h + 2) \in Nat
             /\ Share(h + 1) <= Share(h + 2)
             /\ HelperUnits(h) = Share(h + 1) .. Share(h + 2) - 1
  <2>1. h + 1 \in Nat /\ h + 2 \in Nat /\ h + 1 <= h + 2
    BY <1>1
  <2>2. units * (h + 1) <= units * (h + 2) /\ units * (h + 1) \in Nat /\ units * (h + 2) \in Nat
    BY <2>1, MulMono
  <2> QED
    BY <1>1, <2>2, DivBounds, DivMono DEF Share, HelperUnits
<1> QED
  BY <1>2, <1>3, <1>5, <1>6

(***************************************************************************)
(* Where a helper may be, by what the searching thread last did to it.     *)
(***************************************************************************)
NoFlags(h) == /\ ~hflags[h].round_start /\ ~hflags[h].round /\ ~hflags[h].sleep
              /\ ~hflags[h].round_done /\ ~hflags[h].done
Spinning(h) == hpc[h] \in {"spin", "spin_sleep"}

\* In the query, between two rounds.
Ready(h) == Spinning(h) /\ NoFlags(h)

\* Activated, and perhaps not awake yet.
Woken(h) ==
  \/ Ready(h)
  \/ /\ hpc[h] = "asleep" /\ hflags[h].round_start
     /\ ~hflags[h].round /\ ~hflags[h].sleep /\ ~hflags[h].round_done /\ ~hflags[h].done

\* The demand that helper h contributes to the present round.
Contribution(h) == AddDemand(NoSum, HelperUnits(h), ActivePrices)

\* Told to start the round: it has not noticed yet, it computes, or it has
\* the sum of this round, and of no other.
InRound(h) ==
  /\ ~hflags[h].sleep /\ ~hflags[h].done
  /\ \/ /\ hflags[h].round /\ ~hflags[h].round_done
        /\ \/ hpc[h] = "asleep" /\ hflags[h].round_start
           \/ Spinning(h) /\ ~hflags[h].round_start
     \/ hpc[h] = "compute" /\ NoFlags(h)
     \/ hpc[h] = "signal" /\ NoFlags(h) /\ hsum[h] = Contribution(h)
     \/ /\ Spinning(h) /\ hsum[h] = Contribution(h)
        /\ ~hflags[h].round /\ hflags[h].round_done /\ ~hflags[h].round_start

\* Told to sleep, and perhaps asleep already.
Leaving(h) ==
  \/ hpc[h] = "asleep" /\ NoFlags(h)
  \/ /\ Spinning(h) /\ hflags[h].sleep
     /\ ~hflags[h].round_start /\ ~hflags[h].round /\ ~hflags[h].round_done /\ ~hflags[h].done

\* Told to terminate.
Terminated(h) == hpc[h] \in {"asleep", "exit"} /\ hflags[h].done

\* The helpers the searching thread's loop has passed, and those to come.
Passed(h) == h < caller.i
HelpersInStep ==
  \A h \in Helpers :
    /\ CallerAt("activate") => IF Passed(h) THEN Woken(h) ELSE Leaving(h)
    /\ CallerAt("start_round") => IF Passed(h) THEN InRound(h) ELSE Woken(h)
    /\ CallerAt("own") => InRound(h)
    /\ CallerAt("gather") => IF Passed(h) THEN Ready(h) ELSE InRound(h)
    /\ CallerAt("have") => Ready(h)
    /\ CallerAt("deactivate") => IF Passed(h) THEN Leaving(h) ELSE Ready(h)
    /\ CallerAt("terminate") => IF Passed(h) THEN Terminated(h) ELSE Leaving(h)
    /\ CallerAt("gone") => Terminated(h)

\* The searching thread's sums: those of the orderbooks before the share of
\* the helper it waits for, at the prices of this round.
PrefixSum(n) == [c \in (0..units - 1) \X QueryRounds |->
                   IF c[1] < n /\ c[2] = ActivePrices THEN 1 ELSE 0]
SumsInStep ==
  /\ caller.pc \in {"activate", "start_round", "own", "deactivate", "terminate", "gone"} =>
       total = NoSum
  /\ CallerAt("gather") => total = PrefixSum(Share(caller.i + 1))
  /\ CallerAt("have") => total = PrefixSum(units)
  /\ caller.pc \in {"own", "have"} => caller.i = 0

DInv == demand_TypeOK /\ HelpersInStep /\ SumsInStep

-----------------------------------------------------------------------------
\* What the type invariant says of one helper, and of the sums.
LEMMA Types ==
  ASSUME demand_TypeOK
  PROVE  /\ units \in Nat /\ NumHelpers \in Nat \ {0} /\ Helpers \subseteq Nat
         /\ caller.i \in Helpers
         /\ ActivePrices \in QueryRounds
         /\ NoSum \in Sums(units)
         /\ \A h \in Helpers : Contribution(h) \in Sums(units)
<1>1. units \in Nat /\ NumHelpers \in Nat \ {0} /\ Helpers \subseteq Nat /\ caller.i \in Helpers
  BY DemandAssumption DEF demand_TypeOK, Helpers
<1>2. ActivePrices \in QueryRounds
  BY DEF demand_TypeOK, ActivePrices, QueryRounds
<1>3. NoSum \in Sums(units)
  BY DEF NoSum, Sums
<1>4. \A h \in Helpers : Contribution(h) \in Sums(units)
  BY <1>3 DEF Contribution, AddDemand, NoSum, Sums
<1> QED
  BY <1>1, <1>2, <1>3, <1>4

\* The invariant holds at the start.
LEMMA DemandInit == demand_Init => DInv
<1> SUFFICES ASSUME demand_Init PROVE DInv
  OBVIOUS
<1>1. demand_TypeOK
  <2>1. NoSum \in Sums(units)
    BY DEF NoSum, Sums
  <2>2. 0 \in Helpers /\ 1 \in 1..NumQueries /\ 1 \in 1..NumRounds
    BY DemandAssumption DEF Helpers
  <2> QED
    BY <2>1, <2>2 DEF demand_Init, demand_TypeOK
<1>2. HelpersInStep
  BY DEF demand_Init, HelpersInStep, Leaving, NoFlags, CallerAt, Passed, Helpers
<1>3. SumsInStep
  BY DEF demand_Init, SumsInStep, CallerAt
<1> QED
  BY <1>1, <1>2, <1>3 DEF DInv

\* A helper's place is a matter of its own variables and the active prices.
LEMMA HelperFrame ==
  ASSUME NEW h \in Helpers, UNCHANGED units,
         hpc'[h] = hpc[h], hflags'[h] = hflags[h], hsum'[h] = hsum[h]
  PROVE  /\ Ready(h) => Ready(h)'
         /\ Woken(h) => Woken(h)'
         /\ Leaving(h) => Leaving(h)'
         /\ Terminated(h) => Terminated(h)'
         /\ InRound(h) /\ ActivePrices' = ActivePrices => InRound(h)'
<1>1. ActivePrices' = ActivePrices => Contribution(h)' = Contribution(h)
  BY DEF Contribution, AddDemand, NoSum, HelperUnits
<1> QED
  BY <1>1 DEF Ready, Woken, Leaving, Terminated, InRound, NoFlags, Spinning

\* No step of a helper takes it from one of these places to another: only the
\* searching thread does.
LEMMA HelperStays ==
  ASSUME demand_TypeOK, NEW h \in Helpers, Helper(h)
  PROVE  /\ Ready(h) => Ready(h)'
         /\ Woken(h) => Woken(h)'
         /\ Leaving(h) => Leaving(h)'
         /\ Terminated(h) => Terminated(h)'
         /\ InRound(h) => InRound(h)'
<1>1. /\ hpc \in [Helpers -> {"asleep", "spin", "spin_sleep", "compute", "signal", "exit"}]
      /\ hflags \in [Helpers -> [round_start : BOOLEAN, round : BOOLEAN, sleep : BOOLEAN,
                                 round_done : BOOLEAN, done : BOOLEAN]]
      /\ DOMAIN hsum = Helpers
  BY DEF demand_TypeOK
<1>2. ActivePrices' = ActivePrices /\ Contribution(h)' = Contribution(h)
  BY DEF Helper, Wake, SpinRound, SpinSleep, Compute, SignalDone, ActivePrices,
         Contribution, AddDemand, NoSum, HelperUnits
<1> USE DEF Ready, Woken, Leaving, Terminated, InRound, NoFlags, Spinning
<1>3. CASE Wake(h)
  <2>1. /\ hpc[h] = "asleep" /\ hsum'[h] = hsum[h]
        /\ hflags[h].done => hpc'[h] = "exit" /\ hflags'[h] = hflags[h]
        /\ ~hflags[h].done =>
             hpc'[h] = "spin" /\ hflags'[h] = [hflags[h] EXCEPT !.round_start = FALSE]
    BY <1>1, <1>3 DEF Wake
  <2>2. hflags[h].done \/ hflags[h].round_start
    BY <1>3 DEF Wake
  <2> QED
    BY <1>1, <1>2, <2>1, <2>2
<1>4. CASE SpinRound(h)
  <2>1. /\ hpc[h] = "spin" /\ hsum'[h] = hsum[h]
        /\ hpc'[h] = IF hflags[h].round THEN "compute" ELSE "spin_sleep"
        /\ hflags'[h] = [hflags[h] EXCEPT !.round = FALSE]
    BY <1>1, <1>4 DEF SpinRound
  <2> QED
    BY <1>1, <1>2, <2>1
<1>5. CASE SpinSleep(h)
  <2>1. /\ hpc[h] = "spin_sleep" /\ hsum'[h] = hsum[h]
        /\ hpc'[h] = IF hflags[h].sleep THEN "asleep" ELSE "spin"
        /\ hflags'[h] = [hflags[h] EXCEPT !.sleep = FALSE]
    BY <1>1, <1>5 DEF SpinSleep, SleepSeen
  <2> QED
    BY <1>1, <1>2, <2>1
<1>6. CASE Compute(h)
  <2>1. /\ hpc[h] = "compute" /\ hpc'[h] = "signal" /\ hflags'[h] = hflags[h]
        /\ hsum'[h] = Contribution(h)
    BY <1>1, <1>6 DEF Compute, Contribution
  <2> QED
    BY <1>1, <1>2, <2>1
<1>7. CASE SignalDone(h)
  <2>1. /\ hpc[h] = "signal" /\ hpc'[h] = "spin" /\ hsum'[h] = hsum[h]
        /\ hflags'[h] = [hflags[h] EXCEPT !.round_done = TRUE]
    BY <1>1, <1>7 DEF SignalDone
  <2> QED
    BY <1>1, <1>2, <2>1
<1> QED
  BY <1>3, <1>4, <1>5, <1>6, <1>7 DEF Helper

\* A helper's step preserves the invariant.
LEMMA HelperStep ==
  ASSUME DInv, NEW h \in Helpers, Helper(h)
  PROVE  DInv'
<1>1. UNCHANGED <<units, caller, total>>
  BY DEF Helper, Wake, SpinRound, SpinSleep, Compute, SignalDone
<1>2. \A g \in Helpers \ {h} : hpc'[g] = hpc[g] /\ hflags'[g] = hflags[g] /\ hsum'[g] = hsum[g]
  BY DEF DInv, demand_TypeOK, Helper, Wake, SpinRound, SpinSleep, SleepSeen, Compute, SignalDone
<1>3. demand_TypeOK'
  <2>1. AddDemand(NoSum, HelperUnits(h), ActivePrices) \in Sums(units)
    BY Types DEF DInv, Contribution
  <2>2. CASE Wake(h)
    <3>1. \/ hpc' = [hpc EXCEPT ![h] = "exit"] /\ hflags' = hflags
          \/ /\ hpc' = [hpc EXCEPT ![h] = "spin"]
             /\ hflags' = [hflags EXCEPT ![h].round_start = FALSE]
      BY <2>2 DEF Wake
    <3>2. hsum' = hsum
      BY <2>2 DEF Wake
    <3>3. hpc' \in [Helpers -> {"asleep", "spin", "spin_sleep", "compute", "signal", "exit"}]
      BY <3>1 DEF DInv, demand_TypeOK
    <3>4. hflags' \in [Helpers -> [round_start : BOOLEAN, round : BOOLEAN, sleep : BOOLEAN,
                                   round_done : BOOLEAN, done : BOOLEAN]]
      <4>1. CASE hflags' = hflags
        BY <4>1 DEF DInv, demand_TypeOK
      <4>2. CASE hflags' = [hflags EXCEPT ![h].round_start = FALSE]
        BY <4>2, ZenonT(40) DEF DInv, demand_TypeOK
      <4> QED
        BY <3>1, <4>1, <4>2
    <3> QED
      BY <1>1, <3>2, <3>3, <3>4 DEF DInv, demand_TypeOK
  <2>3. CASE SpinRound(h)
    BY <1>1, <2>3, ZenonT(40) DEF DInv, demand_TypeOK, SpinRound
  <2>4. CASE SpinSleep(h)
    BY <1>1, <2>4, ZenonT(40) DEF DInv, demand_TypeOK, SpinSleep, SleepSeen
  <2>5. CASE Compute(h)
    BY <1>1, <2>1, <2>5 DEF DInv, demand_TypeOK, Compute
  <2>6. CASE SignalDone(h)
    BY <1>1, <2>6, ZenonT(40) DEF DInv, demand_TypeOK, SignalDone
  <2> QED
    BY <2>2, <2>3, <2>4, <2>5, <2>6 DEF Helper
<1>4. HelpersInStep'
  <2> SUFFICES ASSUME NEW g \in Helpers
               PROVE  /\ Ready(g) => Ready(g)'
                      /\ Woken(g) => Woken(g)'
                      /\ Leaving(g) => Leaving(g)'
                      /\ Terminated(g) => Terminated(g)'
                      /\ InRound(g) => InRound(g)'
    BY <1>1 DEF DInv, HelpersInStep, CallerAt, Passed
  <2>1. CASE g = h
    BY <2>1, HelperStays DEF DInv
  <2>2. CASE g # h
    <3>1. hpc'[g] = hpc[g] /\ hflags'[g] = hflags[g] /\ hsum'[g] = hsum[g]
      BY <1>2, <2>2
    <3>2. ActivePrices' = ActivePrices
      BY <1>1 DEF ActivePrices
    <3> QED
      BY <1>1, <3>1, <3>2, HelperFrame
  <2> QED
    BY <2>1, <2>2
<1>5. SumsInStep'
  BY <1>1 DEF DInv, SumsInStep, CallerAt, NoSum, PrefixSum, ActivePrices, Share
<1> QED
  BY <1>3, <1>4, <1>5 DEF DInv

\* Where the searching thread goes after a helper of one of its loops.
LEMMA AfterHelper ==
  ASSUME demand_TypeOK, NEW pc, After(pc)
  PROVE  /\ caller.i + 1 = NumHelpers =>
              /\ caller'.i = 0 /\ caller'.pc = pc
              /\ \A h \in Helpers : h < caller.i \/ h = caller.i
         /\ caller.i + 1 # NumHelpers =>
              /\ caller'.i = caller.i + 1 /\ caller'.pc = caller.pc
              /\ \A h \in Helpers : h < caller.i + 1 <=> (h < caller.i \/ h = caller.i)
         /\ caller'.i \in Helpers
         /\ caller'.query = caller.query /\ caller'.round = caller.round
         /\ ActivePrices' = ActivePrices
<1>1. caller.i \in 0..NumHelpers - 1 /\ NumHelpers \in Nat \ {0}
  BY DemandAssumption DEF demand_TypeOK, Helpers
<1>2. caller \in [pc : {"activate", "start_round", "own", "gather", "have", "deactivate",
                       "terminate", "gone"},
                  i : Helpers, query : 1..NumQueries, round : 1..NumRounds]
  BY DEF demand_TypeOK
<1>3. CASE caller.i + 1 = NumHelpers
  <2>1. caller' = [caller EXCEPT !.i = 0, !.pc = pc]
    BY <1>3 DEF After
  <2> QED
    BY <1>1, <1>2, <1>3, <2>1 DEF Helpers, ActivePrices
<1>4. CASE caller.i + 1 # NumHelpers
  <2>1. caller' = [caller EXCEPT !.i = caller.i + 1]
    BY <1>4 DEF After
  <2> QED
    BY <1>1, <1>2, <1>4, <2>1 DEF Helpers, ActivePrices
<1> QED
  BY <1>3, <1>4

\* The helpers that a step of the thread's loop does not touch.
LEMMA OtherHelpers ==
  ASSUME UNCHANGED <<units, hpc, hsum>>, NEW h \in Helpers,
         \A g \in Helpers \ {h} : hflags'[g] = hflags[g],
         NEW g \in Helpers, g # h
  PROVE  /\ Ready(g) => Ready(g)'
         /\ Woken(g) => Woken(g)'
         /\ Leaving(g) => Leaving(g)'
         /\ Terminated(g) => Terminated(g)'
         /\ InRound(g) /\ ActivePrices' = ActivePrices => InRound(g)'
BY HelperFrame

\* The types of the searching thread's variables after a pass of a loop.
LEMMA CallerTypes ==
  ASSUME demand_TypeOK, NEW pc \in {"activate", "start_round", "own", "gather", "have",
                                    "deactivate", "terminate", "gone"}, After(pc)
  PROVE  /\ caller' \in [pc : {"activate", "start_round", "own", "gather", "have", "deactivate",
                               "terminate", "gone"},
                         i : Helpers, query : 1..NumQueries, round : 1..NumRounds]
         /\ caller'.pc \in {caller.pc, pc}
<1>1. caller'.i \in Helpers
  BY AfterHelper
<1> QED
  BY <1>1 DEF After, demand_TypeOK

\* activate_worker on the next helper.
LEMMA ActivateStep ==
  ASSUME DInv, Activate
  PROVE  DInv'
<1> PICK k \in Helpers : k = caller.i
  BY Types DEF DInv
<1>1. /\ k = caller.i /\ k \in Nat /\ caller.pc = "activate" /\ hpc[k] = "asleep"
      /\ After("start_round") /\ UNCHANGED <<units, hpc, hsum, total>>
  BY Types DEF DInv, Activate, CallerAt
<1>2. /\ hflags'[k] = [hflags[k] EXCEPT !.round_start = TRUE]
      /\ \A g \in Helpers \ {k} : hflags'[g] = hflags[g]
      /\ hflags' \in [Helpers -> [round_start : BOOLEAN, round : BOOLEAN, sleep : BOOLEAN,
                                  round_done : BOOLEAN, done : BOOLEAN]]
  BY <1>1 DEF Activate, DInv, demand_TypeOK
<1>3. demand_TypeOK'
  BY <1>1, <1>2, CallerTypes DEF DInv, demand_TypeOK
<1>4. HelpersInStep'
  <2>1. Woken(k)'
    <3>1. Leaving(k)
      BY <1>1 DEF DInv, HelpersInStep, CallerAt, Passed
    <3> QED
      BY <1>1, <1>2, <3>1 DEF Leaving, Woken, NoFlags, Spinning, DInv, demand_TypeOK
  <2> SUFFICES ASSUME NEW g \in Helpers
               PROVE  /\ caller'.pc = "activate" =>
                           IF g < caller'.i THEN Woken(g)' ELSE Leaving(g)'
                      /\ caller'.pc = "start_round" => Woken(g)' /\ caller'.i = 0
    <3>1. caller'.pc \in {"activate", "start_round"}
      BY <1>1, CallerTypes DEF DInv
    <3> QED
      BY <3>1 DEF HelpersInStep, CallerAt, Passed, Helpers
  <2>2. g # k => (Woken(g) => Woken(g)') /\ (Leaving(g) => Leaving(g)')
    BY <1>1, <1>2, OtherHelpers
  <2>3. IF g < k THEN Woken(g) ELSE Leaving(g)
    BY <1>1 DEF DInv, HelpersInStep, CallerAt, Passed
  <2>4. CASE caller.i + 1 = NumHelpers
    <3>1. caller'.pc = "start_round" /\ caller'.i = 0 /\ (g < k \/ g = k)
      BY <1>1, <2>4, AfterHelper DEF DInv
    <3> QED
      BY <2>1, <2>2, <2>3, <3>1
  <2>5. CASE caller.i + 1 # NumHelpers
    <3>1. caller'.pc = "activate" /\ caller'.i = k + 1 /\ (g < k + 1 <=> (g < k \/ g = k))
      BY <1>1, <2>5, AfterHelper DEF DInv
    <3> QED
      BY <2>1, <2>2, <2>3, <3>1
  <2> QED
    BY <2>4, <2>5
<1>5. SumsInStep'
  <2>1. caller'.pc \in {"activate", "start_round"}
    BY <1>1, CallerTypes DEF DInv
  <2> QED
    BY <1>1, <2>1 DEF DInv, SumsInStep, CallerAt, NoSum
<1> QED
  BY <1>3, <1>4, <1>5 DEF DInv

\* signal_round_start on the next helper.
LEMMA SignalStartStep ==
  ASSUME DInv, SignalStart
  PROVE  DInv'
<1> PICK k \in Helpers : k = caller.i
  BY Types DEF DInv
<1>1. /\ k = caller.i /\ k \in Nat /\ caller.pc = "start_round"
      /\ After("own") /\ UNCHANGED <<units, hpc, hsum, total>>
  BY Types DEF DInv, SignalStart, CallerAt
<1>2. /\ hflags'[k] = [hflags[k] EXCEPT !.round = TRUE]
      /\ \A g \in Helpers \ {k} : hflags'[g] = hflags[g]
      /\ hflags' \in [Helpers -> [round_start : BOOLEAN, round : BOOLEAN, sleep : BOOLEAN,
                                  round_done : BOOLEAN, done : BOOLEAN]]
  BY <1>1, ZenonT(40) DEF SignalStart, DInv, demand_TypeOK
<1>3. demand_TypeOK'
  BY <1>1, <1>2, CallerTypes DEF DInv, demand_TypeOK
<1>4. HelpersInStep'
  <2>1. InRound(k)'
    <3>1. Woken(k)
      BY <1>1 DEF DInv, HelpersInStep, CallerAt, Passed
    <3> QED
      BY <1>1, <1>2, <3>1 DEF Woken, InRound, Ready, NoFlags, Spinning, DInv, demand_TypeOK
  <2> SUFFICES ASSUME NEW g \in Helpers
               PROVE  /\ caller'.pc = "start_round" =>
                           IF g < caller'.i THEN InRound(g)' ELSE Woken(g)'
                      /\ caller'.pc = "own" => InRound(g)' /\ caller'.i = 0
    <3>1. caller'.pc \in {"start_round", "own"}
      BY <1>1, CallerTypes DEF DInv
    <3> QED
      BY <3>1 DEF HelpersInStep, CallerAt, Passed, Helpers
  <2>2. g # k => (InRound(g) => InRound(g)') /\ (Woken(g) => Woken(g)')
    BY <1>1, <1>2, OtherHelpers, AfterHelper DEF DInv
  <2>3. IF g < k THEN InRound(g) ELSE Woken(g)
    BY <1>1 DEF DInv, HelpersInStep, CallerAt, Passed
  <2>4. CASE caller.i + 1 = NumHelpers
    <3>1. caller'.pc = "own" /\ caller'.i = 0 /\ (g < k \/ g = k)
      BY <1>1, <2>4, AfterHelper DEF DInv
    <3> QED
      BY <2>1, <2>2, <2>3, <3>1
  <2>5. CASE caller.i + 1 # NumHelpers
    <3>1. caller'.pc = "start_round" /\ caller'.i = k + 1 /\ (g < k + 1 <=> (g < k \/ g = k))
      BY <1>1, <2>5, AfterHelper DEF DInv
    <3> QED
      BY <2>1, <2>2, <2>3, <3>1
  <2> QED
    BY <2>4, <2>5
<1>5. SumsInStep'
  <2>1. caller'.pc \in {"start_round", "own"} /\ (caller'.pc = "own" => caller'.i = 0)
    BY <1>1, CallerTypes, AfterHelper DEF DInv
  <2> QED
    BY <1>1, <2>1 DEF DInv, SumsInStep, CallerAt, NoSum
<1> QED
  BY <1>3, <1>4, <1>5 DEF DInv

\* wait_for_compute_done_and_get_results of the next helper: its share extends
\* the prefix of the orderbooks that is added up.
LEMMA GatherStep ==
  ASSUME DInv, Gather
  PROVE  DInv'
<1> PICK k \in Helpers : k = caller.i
  BY Types DEF DInv
<1>1. /\ k = caller.i /\ k \in Nat /\ caller.pc = "gather" /\ hflags[k].round_done
      /\ After("have") /\ UNCHANGED <<units, hpc, hsum>>
  BY Types DEF DInv, Gather, CallerAt
<1>2. /\ hflags'[k] = [hflags[k] EXCEPT !.round_done = FALSE]
      /\ \A g \in Helpers \ {k} : hflags'[g] = hflags[g]
      /\ hflags' \in [Helpers -> [round_start : BOOLEAN, round : BOOLEAN, sleep : BOOLEAN,
                                  round_done : BOOLEAN, done : BOOLEAN]]
  BY <1>1, ZenonT(40) DEF Gather, ResultsTaken, DInv, demand_TypeOK
<1>6. total' = PrefixSum(Share(k + 2)) /\ total' \in Sums(units)
  <2>1. InRound(k)
    BY <1>1 DEF DInv, HelpersInStep, CallerAt, Passed
  <2>2. hsum[k] = Contribution(k)
    BY <1>1, <2>1 DEF InRound, NoFlags
  <2>3. total = PrefixSum(Share(k + 1)) /\ total' = AddSums(total, Contribution(k))
    BY <1>1, <2>2 DEF DInv, SumsInStep, CallerAt, Gather
  <2>4. /\ Share(k + 1) \in Nat /\ Share(k + 2) \in Nat /\ Share(k + 1) <= Share(k + 2)
        /\ HelperUnits(k) = Share(k + 1) .. Share(k + 2) - 1
    BY Types, Shares DEF DInv
  <2>5. ASSUME NEW c \in (0..units - 1) \X QueryRounds
        PROVE  PrefixSum(Share(k + 1))[c] + Contribution(k)[c] = PrefixSum(Share(k + 2))[c]
    BY <2>4 DEF PrefixSum, Contribution, AddDemand, NoSum
  <2>6. total' = PrefixSum(Share(k + 2))
    <3>1. DOMAIN total = (0..units - 1) \X QueryRounds
      BY <2>3 DEF PrefixSum
    <3>2. total' = [c \in (0..units - 1) \X QueryRounds |-> total[c] + Contribution(k)[c]]
      BY <2>3, <3>1 DEF AddSums
    <3>3. total' = [c \in (0..units - 1) \X QueryRounds |-> PrefixSum(Share(k + 2))[c]]
      BY <2>3, <2>5, <3>2
    <3> QED
      BY <3>3 DEF PrefixSum
  <2> QED
    BY <2>6 DEF PrefixSum, Sums
<1>3. demand_TypeOK'
  BY <1>1, <1>2, CallerTypes, <1>6 DEF DInv, demand_TypeOK
<1>4. HelpersInStep'
  <2>1. Ready(k)'
    <3>1. InRound(k)
      BY <1>1 DEF DInv, HelpersInStep, CallerAt, Passed
    <3> QED
      BY <1>1, <1>2, <3>1 DEF InRound, Ready, Ready, NoFlags, Spinning, DInv, demand_TypeOK
  <2> SUFFICES ASSUME NEW g \in Helpers
               PROVE  /\ caller'.pc = "gather" =>
                           IF g < caller'.i THEN Ready(g)' ELSE InRound(g)'
                      /\ caller'.pc = "have" => Ready(g)' /\ caller'.i = 0
    <3>1. caller'.pc \in {"gather", "have"}
      BY <1>1, CallerTypes DEF DInv
    <3> QED
      BY <3>1 DEF HelpersInStep, CallerAt, Passed, Helpers
  <2>2. g # k => (Ready(g) => Ready(g)') /\ (InRound(g) => InRound(g)')
    BY <1>1, <1>2, OtherHelpers, AfterHelper DEF DInv
  <2>3. IF g < k THEN Ready(g) ELSE InRound(g)
    BY <1>1 DEF DInv, HelpersInStep, CallerAt, Passed
  <2>4. CASE caller.i + 1 = NumHelpers
    <3>1. caller'.pc = "have" /\ caller'.i = 0 /\ (g < k \/ g = k)
      BY <1>1, <2>4, AfterHelper DEF DInv
    <3> QED
      BY <2>1, <2>2, <2>3, <3>1
  <2>5. CASE caller.i + 1 # NumHelpers
    <3>1. caller'.pc = "gather" /\ caller'.i = k + 1 /\ (g < k + 1 <=> (g < k \/ g = k))
      BY <1>1, <2>5, AfterHelper DEF DInv
    <3> QED
      BY <2>1, <2>2, <2>3, <3>1
  <2> QED
    BY <2>4, <2>5
<1>5. SumsInStep'
  <2>1. PrefixSum(Share(k + 2))' = PrefixSum(Share(k + 2))
    BY <1>1, AfterHelper DEF DInv, PrefixSum, Share
  <2>2. total' = PrefixSum(Share(k + 2))'
    BY <1>6, <2>1
  <2>3. CASE caller.i + 1 = NumHelpers
    <3>1. caller'.pc = "have" /\ caller'.i = 0
      BY <1>1, <2>3, AfterHelper DEF DInv
    <3>2. Share(k + 2)' = units'
      <4>1. k + 2 = NumHelpers + 1
        BY <1>1, <2>3, Types DEF DInv
      <4> QED
        BY <1>1, <4>1, Types, Shares DEF DInv, Share
    <3> QED
      BY <2>2, <3>1, <3>2 DEF SumsInStep, CallerAt, PrefixSum
  <2>4. CASE caller.i + 1 # NumHelpers
    <3>1. caller'.pc = "gather" /\ caller'.i = k + 1
      BY <1>1, <2>4, AfterHelper DEF DInv
    <3>2. caller'.i + 1 = k + 2
      BY <1>1, <3>1
    <3> QED
      BY <2>2, <3>1, <3>2 DEF SumsInStep, CallerAt
  <2> QED
    BY <2>3, <2>4
<1> QED
  BY <1>3, <1>4, <1>5 DEF DInv

\* terminate_worker on the next helper.
LEMMA TerminateStep ==
  ASSUME DInv, Terminate
  PROVE  DInv'
<1> PICK k \in Helpers : k = caller.i
  BY Types DEF DInv
<1>1. /\ k = caller.i /\ k \in Nat /\ caller.pc = "terminate" /\ hpc[k] = "asleep"
      /\ After("gone") /\ UNCHANGED <<units, hpc, hsum, total>>
  BY Types DEF DInv, Terminate, CallerAt
<1>2. /\ hflags'[k] = [hflags[k] EXCEPT !.done = TRUE]
      /\ \A g \in Helpers \ {k} : hflags'[g] = hflags[g]
      /\ hflags' \in [Helpers -> [round_start : BOOLEAN, round : BOOLEAN, sleep : BOOLEAN,
                                  round_done : BOOLEAN, done : BOOLEAN]]
  BY <1>1 DEF Terminate, DInv, demand_TypeOK
<1>3. demand_TypeOK'
  BY <1>1, <1>2, CallerTypes DEF DInv, demand_TypeOK
<1>4. HelpersInStep'
  <2>1. Terminated(k)'
    <3>1. Leaving(k)
      BY <1>1 DEF DInv, HelpersInStep, CallerAt, Passed
    <3> QED
      BY <1>1, <1>2, <3>1 DEF Leaving, Terminated, Ready, NoFlags, Spinning, DInv, demand_TypeOK
  <2> SUFFICES ASSUME NEW g \in Helpers
               PROVE  /\ caller'.pc = "terminate" =>
                           IF g < caller'.i THEN Terminated(g)' ELSE Leaving(g)'
                      /\ caller'.pc = "gone" => Terminated(g)' /\ caller'.i = 0
    <3>1. caller'.pc \in {"terminate", "gone"}
      BY <1>1, CallerTypes DEF DInv
    <3> QED
      BY <3>1 DEF HelpersInStep, CallerAt, Passed, Helpers
  <2>2. g # k => (Terminated(g) => Terminated(g)') /\ (Leaving(g) => Leaving(g)')
    BY <1>1, <1>2, OtherHelpers
  <2>3. IF g < k THEN Terminated(g) ELSE Leaving(g)
    BY <1>1 DEF DInv, HelpersInStep, CallerAt, Passed
  <2>4. CASE caller.i + 1 = NumHelpers
    <3>1. caller'.pc = "gone" /\ caller'.i = 0 /\ (g < k \/ g = k)
      BY <1>1, <2>4, AfterHelper DEF DInv
    <3> QED
      BY <2>1, <2>2, <2>3, <3>1
  <2>5. CASE caller.i + 1 # NumHelpers
    <3>1. caller'.pc = "terminate" /\ caller'.i = k + 1 /\ (g < k + 1 <=> (g < k \/ g = k))
      BY <1>1, <2>5, AfterHelper DEF DInv
    <3> QED
      BY <2>1, <2>2, <2>3, <3>1
  <2> QED
    BY <2>4, <2>5
<1>5. SumsInStep'
  <2>1. caller'.pc \in {"terminate", "gone"} /\ (caller'.pc = "gone" => caller'.i = 0)
    BY <1>1, CallerTypes, AfterHelper DEF DInv
  <2> QED
    BY <1>1, <2>1 DEF DInv, SumsInStep, CallerAt, NoSum
<1> QED
  BY <1>3, <1>4, <1>5 DEF DInv

\* The searching thread adds its own share, the first.
LEMMA OwnDemandStep ==
  ASSUME DInv, OwnDemand
  PROVE  DInv'
<1>1. /\ caller.pc = "own" /\ caller.i = 0 /\ UNCHANGED <<units, hpc, hflags, hsum>>
      /\ caller' = [caller EXCEPT !.pc = "gather"] /\ total = NoSum
      /\ total' = AddDemand(NoSum, CallerUnits, ActivePrices)
  BY DEF DInv, SumsInStep, OwnDemand, CallerAt
<1>2. /\ caller'.pc = "gather" /\ caller'.i = 0
      /\ caller' \in [pc : {"activate", "start_round", "own", "gather", "have", "deactivate",
                            "terminate", "gone"},
                      i : Helpers, query : 1..NumQueries, round : 1..NumRounds]
      /\ ActivePrices' = ActivePrices
  BY <1>1 DEF DInv, demand_TypeOK, ActivePrices
<1>3. total' = PrefixSum(Share(1))
  <2>1. CallerUnits = 0 .. Share(1) - 1 /\ Share(1) \in Nat
    BY Types, Shares DEF DInv
  <2> QED
    BY <1>1, <2>1 DEF AddDemand, NoSum, PrefixSum
<1>4. demand_TypeOK'
  <2>1. total' \in Sums(units)
    BY <1>3 DEF PrefixSum, Sums
  <2> QED
    BY <1>1, <1>2, <2>1 DEF DInv, demand_TypeOK
<1>5. HelpersInStep'
  <2> SUFFICES ASSUME NEW g \in Helpers PROVE InRound(g)'
    BY <1>2 DEF HelpersInStep, CallerAt, Passed, Helpers
  <2>1. InRound(g)
    BY <1>1 DEF DInv, HelpersInStep, CallerAt
  <2> QED
    BY <1>1, <1>2, <2>1, HelperFrame
<1>6. SumsInStep'
  <2>1. caller'.i + 1 = 1
    BY <1>2
  <2>2. PrefixSum(Share(1))' = PrefixSum(Share(1))
    BY <1>1, <1>2 DEF PrefixSum, Share
  <2> QED
    BY <1>2, <1>3, <2>1, <2>2 DEF SumsInStep, CallerAt
<1> QED
  BY <1>4, <1>5, <1>6 DEF DInv

\* The sums are cleared, and another round begins or the query ends.
LEMMA UseDemandStep ==
  ASSUME DInv, UseDemand
  PROVE  DInv'
<1>1. /\ caller.pc = "have" /\ caller.i = 0 /\ UNCHANGED <<units, hpc, hflags, hsum>>
      /\ total' = NoSum /\ NoSum' = NoSum
      /\ \/ caller.round < NumRounds /\ caller' = [caller EXCEPT !.pc = "start_round", !.round = @ + 1]
         \/ caller' = [caller EXCEPT !.pc = "deactivate"]
  BY DEF DInv, SumsInStep, UseDemand, CallerAt, NoSum
<1>2. /\ caller'.pc \in {"start_round", "deactivate"} /\ caller'.i = 0
      /\ caller' \in [pc : {"activate", "start_round", "own", "gather", "have", "deactivate",
                            "terminate", "gone"},
                      i : Helpers, query : 1..NumQueries, round : 1..NumRounds]
  <2>1. caller.round < NumRounds => caller.round + 1 \in 1..NumRounds
    BY DemandAssumption DEF DInv, demand_TypeOK
  <2> QED
    BY <1>1, <2>1 DEF DInv, demand_TypeOK
<1>3. demand_TypeOK'
  BY <1>1, <1>2, Types DEF DInv, demand_TypeOK
<1>4. HelpersInStep'
  <2> SUFFICES ASSUME NEW g \in Helpers PROVE Ready(g)'
    BY <1>2 DEF HelpersInStep, CallerAt, Passed, Helpers, Woken
  <2>1. Ready(g)
    BY <1>1 DEF DInv, HelpersInStep, CallerAt
  <2> QED
    BY <1>1, <2>1, HelperFrame
<1>5. SumsInStep'
  BY <1>1, <1>2 DEF SumsInStep, CallerAt
<1> QED
  BY <1>3, <1>4, <1>5 DEF DInv

\* deactivate_worker on the next helper; behind the last one the next query
\* begins, or the destructor.
LEMMA DeactivateStep ==
  ASSUME DInv, Deactivate
  PROVE  DInv'
<1> PICK k \in Helpers : k = caller.i
  BY Types DEF DInv
<1>1. /\ k = caller.i /\ k \in Nat /\ caller.pc = "deactivate"
      /\ UNCHANGED <<units, hpc, hsum, total>> /\ NoSum' = NoSum /\ total = NoSum
  BY Types DEF DInv, SumsInStep, Deactivate, CallerAt, NoSum
<1>2. /\ hflags'[k] = [hflags[k] EXCEPT !.sleep = TRUE]
      /\ \A g \in Helpers \ {k} : hflags'[g] = hflags[g]
      /\ hflags' \in [Helpers -> [round_start : BOOLEAN, round : BOOLEAN, sleep : BOOLEAN,
                                  round_done : BOOLEAN, done : BOOLEAN]]
  BY <1>1, ZenonT(40) DEF Deactivate, DInv, demand_TypeOK
<1>3. /\ k + 1 < NumHelpers => caller'.pc = "deactivate" /\ caller'.i = k + 1
      /\ ~(k + 1 < NumHelpers) => caller'.pc \in {"activate", "terminate"} /\ caller'.i = 0
      /\ caller' \in [pc : {"activate", "start_round", "own", "gather", "have", "deactivate",
                            "terminate", "gone"},
                      i : Helpers, query : 1..NumQueries, round : 1..NumRounds]
  <2>1. caller \in [pc : {"activate", "start_round", "own", "gather", "have", "deactivate",
                          "terminate", "gone"},
                    i : Helpers, query : 1..NumQueries, round : 1..NumRounds]
    BY DEF DInv, demand_TypeOK
  <2>2. CASE k + 1 < NumHelpers
    <3>1. caller' = [caller EXCEPT !.i = k + 1]
      BY <1>1, <2>2 DEF Deactivate
    <3>2. k + 1 \in Helpers
      BY <1>1, <2>2, DemandAssumption DEF Helpers
    <3> QED
      BY <1>1, <2>1, <2>2, <3>1, <3>2
  <2>3. CASE ~(k + 1 < NumHelpers) /\ caller.query < NumQueries
    <3>1. caller' = [pc |-> "activate", i |-> 0, query |-> caller.query + 1, round |-> 1]
      BY <1>1, <2>3 DEF Deactivate
    <3>2. 0 \in Helpers /\ caller.query + 1 \in 1..NumQueries /\ 1 \in 1..NumRounds
      BY <2>1, <2>3, DemandAssumption DEF Helpers
    <3> QED
      BY <2>3, <3>1, <3>2
  <2>4. CASE ~(k + 1 < NumHelpers) /\ ~(caller.query < NumQueries)
    <3>1. caller' = [caller EXCEPT !.i = 0, !.pc = "terminate"]
      BY <1>1, <2>4 DEF Deactivate
    <3>2. 0 \in Helpers
      BY DemandAssumption DEF Helpers
    <3> QED
      BY <2>1, <2>4, <3>1, <3>2
  <2> QED
    BY <2>2, <2>3, <2>4
<1>4. demand_TypeOK'
  BY <1>1, <1>2, <1>3 DEF DInv, demand_TypeOK
<1>5. HelpersInStep'
  <2>1. Leaving(k)'
    <3>1. Ready(k)
      BY <1>1 DEF DInv, HelpersInStep, CallerAt, Passed
    <3> QED
      BY <1>1, <1>2, <3>1 DEF Ready, Leaving, NoFlags, Spinning, DInv, demand_TypeOK
  <2> SUFFICES ASSUME NEW g \in Helpers
               PROVE  /\ k + 1 < NumHelpers => IF g < k + 1 THEN Leaving(g)' ELSE Ready(g)'
                      /\ ~(k + 1 < NumHelpers) => Leaving(g)'
    BY <1>3 DEF HelpersInStep, CallerAt, Passed, Helpers
  <2>2. g # k => (Leaving(g) => Leaving(g)') /\ (Ready(g) => Ready(g)')
    BY <1>1, <1>2, OtherHelpers
  <2>3. IF g < k THEN Leaving(g) ELSE Ready(g)
    BY <1>1 DEF DInv, HelpersInStep, CallerAt, Passed
  <2>4. /\ g < k + 1 <=> (g < k \/ g = k)
        /\ ~(k + 1 < NumHelpers) => (g < k \/ g = k)
    BY <1>1, DemandAssumption DEF Helpers
  <2> QED
    BY <2>1, <2>2, <2>3, <2>4
<1>6. SumsInStep'
  BY <1>1, <1>3 DEF SumsInStep, CallerAt
<1> QED
  BY <1>4, <1>5, <1>6 DEF DInv

-----------------------------------------------------------------------------
\* The invariant is inductive.
LEMMA DemandInductive == DInv /\ [demand_Next]_demand_vars => DInv'
<1> SUFFICES ASSUME DInv, [demand_Next]_demand_vars PROVE DInv'
  OBVIOUS
<1>1. CASE UNCHANGED demand_vars
  <2>1. UNCHANGED <<units, hpc, hflags, hsum, caller, total>>
    BY <1>1 DEF demand_vars
  <2>2. demand_TypeOK'
    BY <2>1 DEF DInv, demand_TypeOK
  <2>3. SumsInStep'
    BY <2>1 DEF DInv, SumsInStep, CallerAt, NoSum, PrefixSum, ActivePrices, Share
  <2>4. HelpersInStep'
    <3>1. ActivePrices' = ActivePrices
      BY <2>1 DEF ActivePrices
    <3>2. \A g \in Helpers : /\ Ready(g) => Ready(g)'
                             /\ Woken(g) => Woken(g)'
                             /\ Leaving(g) => Leaving(g)'
                             /\ Terminated(g) => Terminated(g)'
                             /\ InRound(g) => InRound(g)'
      <4> TAKE g \in Helpers
      <4>1. hpc'[g] = hpc[g] /\ hflags'[g] = hflags[g] /\ hsum'[g] = hsum[g] /\ UNCHANGED units
        BY <2>1
      <4> QED
        BY <3>1, <4>1, HelperFrame
    <3> QED
      BY <2>1, <3>2 DEF DInv, HelpersInStep, CallerAt, Passed
  <2> QED
    BY <2>2, <2>3, <2>4 DEF DInv
<1>2. CASE Caller
  BY <1>2, ActivateStep, SignalStartStep, OwnDemandStep, GatherStep, UseDemandStep,
     DeactivateStep, TerminateStep DEF Caller
<1>3. ASSUME NEW h \in Helpers, Helper(h) PROVE DInv'
  BY <1>3, HelperStep
<1> QED
  BY <1>1, <1>2, <1>3 DEF demand_Next

\* The invariant says what a round works with.
LEMMA DemandEntails == DInv => DemandExact
<1> SUFFICES ASSUME DInv PROVE DemandExact
  OBVIOUS
<1>1. ASSUME CallerAt("have"), NEW c \in DOMAIN total
      PROVE  total[c] = IF c[2] = ActivePrices THEN 1 ELSE 0
  <2>1. total = PrefixSum(units)
    BY <1>1 DEF DInv, SumsInStep
  <2>2. c \in (0..units - 1) \X QueryRounds
    BY <1>1, <2>1 DEF PrefixSum
  <2>3. c[1] < units
    BY <2>2, Types DEF DInv
  <2> QED
    BY <2>1, <2>2, <2>3 DEF PrefixSum
<1> QED
  BY <1>1 DEF DInv, DemandExact

\* The demand a round works with is that of every orderbook, counted once, at
\* the prices of this round, for any number of helpers, orderbooks, queries
\* and rounds (ParallelDemandOracle, DemandOracleWorker::run).
THEOREM DemandCorrect == demand_Spec => []DemandExact
<1>1. demand_Init => DInv
  BY DemandInit
<1>2. DInv /\ [demand_Next]_demand_vars => DInv'
  BY DemandInductive
<1>3. DInv => DemandExact
  BY DemandEntails
<1> QED
  BY <1>1, <1>2, <1>3, PTL DEF demand_Spec
=============================================================================
