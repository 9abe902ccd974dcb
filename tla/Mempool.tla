----------------------------- MODULE Mempool -----------------------------
(***************************************************************************)
(* The mempool and the threads that share it.                              *)
(*                                                                         *)
(*  - the network threads append batches to a buffer;                      *)
(*  - the VM thread (SpeedexVM::propose and exec_block, which exclude each *)
(*    other through operation_mtx) moves the buffer into the pool, builds  *)
(*    or validates a block, and starts and stops the two helpers;          *)
(*  - MempoolCleaner removes the transactions that block production        *)
(*    flagged, and joins small chunks;                                     *)
(*  - MempoolFilterExecutor removes transactions whose sequence number has *)
(*    been passed, chunk by chunk until it is cancelled.                   *)
(*                                                                         *)
(* The flags of a chunk (confirmed_txs_to_remove) are a vector parallel to *)
(* its transactions; filtering and joining change the one and not the      *)
(* other, so the order in which the threads run matters.                   *)
(***************************************************************************)
EXTENDS Integers, Sequences, FiniteSets, SequencesExt

CONSTANTS
  TxId,                 \* the transactions, one for each copy that is delivered
  Account,              \* source accounts
  Batches,              \* what the network may deliver: sequences of TxId
  Source,               \* TxId -> Account
  SeqNum,               \* TxId -> sequence number
  UnknownAccounts,      \* accounts that lookup_user does not find
  TARGET_CHUNK_SIZE,
  MAX_MEMPOOL_SIZE,
  MaxSeqNum,            \* bound: what foreign blocks commit
  MaxRounds             \* bound: blocks produced or validated

ASSUME MempoolAssumption ==
  /\ Source \in [TxId -> Account]
  /\ MaxSeqNum \in Nat /\ SeqNum \in [TxId -> 1 .. MaxSeqNum]
  /\ Batches \subseteq Seq(TxId)
  /\ \A b \in Batches : IsInjective(b)
  /\ \A b, c \in Batches : b # c => ToSet(b) \cap ToSet(c) = {}
  /\ TARGET_CHUNK_SIZE \in Nat \ {0}
  /\ MAX_MEMPOOL_SIZE \in Nat
  /\ MaxRounds \in Nat

VARIABLES
  buffered_mempool,     \* sequence of chunks
  mempool,              \* sequence of chunks
  buffer_size, mempool_size,
  arrived,              \* batches delivered so far
  last_committed,       \* account -> last committed sequence number
  (* MempoolCleaner *)
  do_cleaning,
  cleaner_pc,
  (* MempoolFilterExecutor *)
  do_work,
  cancel_background_filter,
  filter_pc,
  todo,                 \* chunks that the running filter has not reached
  (* the VM thread *)
  vm_pc,
  rounds,
  selected,             \* transactions of the block under construction
  flagged               \* history: everything that was ever flagged

cleaner == <<do_cleaning, cleaner_pc>>
filter == <<do_work, cancel_background_filter, filter_pc, todo>>
buffer == <<buffered_mempool, buffer_size, arrived>>
pool == <<mempool, mempool_size>>
chain == <<last_committed, rounds, selected, flagged>>
vars == <<cleaner, filter, buffer, pool, chain, vm_pc>>

(***************************************************************************)
(* Chunks.                                                                 *)
(***************************************************************************)
MempoolChunk(txs) == [txs |-> txs, confirmed_txs_to_remove |-> <<>>]

\* The last element of s overwrites the one at i: s[i] = s.back(), pop_back().
Overwrite(s, i) == [k \in 1 .. Len(s) - 1 |-> IF k = i THEN Last(s) ELSE s[k]]

\* Faulty variant: the flag of the last transaction does not move with it.
erase_at_FlagStays(s) ==
  [s EXCEPT !.txs = Overwrite(@, s.i), !.bits = Front(@)]

\* One iteration of the loop that both removals run: transaction i goes, and
\* the last one is looked at in its place, or i is kept.
erase_at(s) ==
  [s EXCEPT !.txs = Overwrite(@, s.i), !.bits = Overwrite(@, s.i)]
erase_next(s) ==
  IF s.i > Len(s.bits) THEN s
  ELSE IF s.bits[s.i] THEN erase_at(s) ELSE [s EXCEPT !.i = @ + 1]

\* The loop's state after n iterations; an iteration moves i or the end of
\* the flags, so that the loop ends after as many as there are flags.
erase_loop(txs, bits) ==
  LET after[n \in 0 .. Len(bits)] ==
        IF n = 0 THEN [txs |-> txs, bits |-> bits, i |-> 1]
        ELSE erase_next(after[n - 1])
  IN after
erase(txs, bits) == erase_loop(txs, bits)[Len(bits)]

\* MempoolChunk::remove_confirmed_txs.
remove_confirmed_txs(c) ==
  LET left == erase(c.txs, c.confirmed_txs_to_remove)
  IN [txs |-> left.txs, confirmed_txs_to_remove |-> left.bits]

\* MempoolTransactionFilter::check_transaction: TRUE to remove.
check_transaction(t) ==
  /\ Source[t] \notin UnknownAccounts
  /\ last_committed[Source[t]] >= SeqNum[t]

\* MempoolChunk::filter; the chunk's flags are left alone.
filter_txs(txs) == erase(txs, [j \in DOMAIN txs |-> check_transaction(txs[j])]).txs

\* MempoolChunk::join.
join(c, d) ==
  [txs |-> c.txs \o d.txs,
   confirmed_txs_to_remove |->
     c.confirmed_txs_to_remove \o d.confirmed_txs_to_remove]

\* Mempool::join_small_chunks, as a loop over its chunks m and index i; the
\* last chunk fills the gap.
join_next(s) ==
  LET m == s.m  i == s.i
  IN IF i >= Len(m) THEN s
     ELSE IF Len(m[i].txs) + Len(m[i + 1].txs) < TARGET_CHUNK_SIZE
     THEN [s EXCEPT !.m = Overwrite([m EXCEPT ![i] = join(m[i], m[i + 1])], i + 1)]
     ELSE [s EXCEPT !.i = i + 1]
join_loop(m) ==
  LET after[n \in 0 .. Len(m)] ==
        IF n = 0 THEN [m |-> m, i |-> 1] ELSE join_next(after[n - 1])
  IN after
join_small_chunks(m) == join_loop(m)[Len(m)].m

\* chunkify_and_add_to_mempool_buffer: an empty chunk ends a batch whose size
\* is a multiple of the chunk size.
chunkify(txs) ==
  [i \in 1 .. (Len(txs) \div TARGET_CHUNK_SIZE) + 1 |->
     MempoolChunk(SubSeq(txs, (i - 1) * TARGET_CHUNK_SIZE + 1,
                         IF i * TARGET_CHUNK_SIZE < Len(txs)
                         THEN i * TARGET_CHUNK_SIZE ELSE Len(txs)))]

\* The transactions in the first n chunks, and in all of them.
sizes(chunks) ==
  LET upto[n \in 0 .. Len(chunks)] ==
        IF n = 0 THEN 0 ELSE upto[n - 1] + Len(chunks[n].txs)
  IN upto
SizeOf(chunks) == sizes(chunks)[Len(chunks)]

\* How many chunks push_mempool_buffer_to_mempool moves: it stops after the
\* chunk that found the pool larger than MAX_MEMPOOL_SIZE already.
PushCount(b) ==
  LET stops == {n \in DOMAIN b : mempool_size + sizes(b)[n - 1] > MAX_MEMPOOL_SIZE}
  IN IF stops = {} THEN Len(b) ELSE Min(stops)

TxsIn(chunks) == UNION {ToSet(chunks[i].txs) : i \in DOMAIN chunks}

-----------------------------------------------------------------------------
Init ==
  /\ buffered_mempool = <<>> /\ buffer_size = 0 /\ arrived = {}
  /\ mempool = <<>> /\ mempool_size = 0
  /\ last_committed = [a \in Account |-> 0]
  /\ do_cleaning = FALSE /\ cleaner_pc = "wait"
  /\ do_work = FALSE /\ cancel_background_filter = FALSE
  /\ filter_pc = "wait" /\ todo = {}
  /\ vm_pc = "idle" /\ rounds = 0 /\ selected = {} /\ flagged = {}

\* The mempool's mtx.  The filter keeps it from its first chunk to its last;
\* everybody else holds it within one action.
MempoolFree == filter_pc = "wait"

\* A network thread, under buffer_mtx.
chunkify_and_add_to_mempool_buffer ==
  \E b \in Batches \ arrived :
    /\ arrived' = arrived \cup {b}
    /\ buffered_mempool' = buffered_mempool \o chunkify(b)
    /\ buffer_size' = buffer_size + Len(b)
    /\ UNCHANGED <<cleaner, filter, pool, chain, vm_pc>>

\* Faulty variant: removals are not counted.
log_tx_removal_Ignored(n) == UNCHANGED mempool_size

log_tx_removal(n) == mempool_size' = mempool_size - n

(***************************************************************************)
(* MempoolCleaner::run.                                                    *)
(***************************************************************************)
CleanerRemove ==
  /\ cleaner_pc = "wait" /\ do_cleaning
  /\ MempoolFree
  /\ mempool' = [i \in DOMAIN mempool |-> remove_confirmed_txs(mempool[i])]
  /\ log_tx_removal(SizeOf(mempool) - SizeOf(mempool'))
  /\ cleaner_pc' = "join"
  /\ UNCHANGED <<do_cleaning, filter, buffer, chain, vm_pc>>

CleanerJoin ==
  /\ cleaner_pc = "join"
  /\ MempoolFree
  /\ mempool' = join_small_chunks(mempool)
  /\ cleaner_pc' = "wait"
  /\ do_cleaning' = FALSE
  /\ UNCHANGED <<filter, buffer, mempool_size, chain, vm_pc>>

(***************************************************************************)
(* MempoolFilterExecutor::run: the chunks in any order (parallel_for),     *)
(* cancellation seen before any of them.                                   *)
(***************************************************************************)
\* The range over the chunks.
num_chunks == 1 .. Len(mempool)

FilterStart ==
  /\ filter_pc = "wait" /\ do_work
  /\ filter_pc' = "run"
  /\ todo' = num_chunks
  /\ UNCHANGED <<do_work, cancel_background_filter, cleaner, buffer, pool,
                 chain, vm_pc>>

FilterChunk ==
  /\ filter_pc = "run"
  /\ \E i \in todo :
       /\ todo' = todo \ {i}
       /\ mempool' = [mempool EXCEPT ![i].txs = filter_txs(@)]
       /\ log_tx_removal(Len(mempool[i].txs) - Len(mempool'[i].txs))
  /\ UNCHANGED <<do_work, cancel_background_filter, filter_pc, cleaner,
                 buffer, chain, vm_pc>>

\* Part of a cancelled range is skipped.
FilterSkip ==
  /\ filter_pc = "run" /\ cancel_background_filter
  /\ \E i \in todo : todo' = todo \ {i}
  /\ UNCHANGED <<do_work, cancel_background_filter, filter_pc, cleaner,
                 buffer, pool, chain, vm_pc>>

\* Faulty variant: do_work is still set when the filter waits again.
FilterEnd_StillBusy ==
  /\ filter_pc = "run" /\ todo = {}
  /\ filter_pc' = "wait"
  /\ UNCHANGED <<do_work, cancel_background_filter, todo, cleaner, buffer,
                 pool, chain, vm_pc>>

FilterEnd ==
  /\ filter_pc = "run" /\ todo = {}
  /\ filter_pc' = "wait"
  /\ do_work' = FALSE
  /\ UNCHANGED <<cancel_background_filter, todo, cleaner, buffer, pool, chain,
                 vm_pc>>

(***************************************************************************)
(* The VM thread.                                                          *)
(***************************************************************************)
\* propose and exec_block both start with stop_filter.
StopFilter(next) ==
  /\ vm_pc = "idle" /\ rounds < MaxRounds
  /\ rounds' = rounds + 1
  /\ cancel_background_filter' = TRUE
  /\ vm_pc' = next
  /\ UNCHANGED <<do_work, filter_pc, todo, cleaner, buffer, pool,
                 last_committed, selected, flagged>>

ProposeBegin == StopFilter("p_push")
ExecBegin == StopFilter("v_clean")

\* Faulty variant: stop_filter sets the flag and does not wait.
filter_stopped_NoWait == TRUE

\* wait_for_async_task of the filter's worker.
filter_stopped == ~do_work

push_mempool_buffer_to_mempool ==
  LET n == PushCount(buffered_mempool)
      moved == SubSeq(buffered_mempool, 1, n)
  IN /\ MempoolFree
     /\ mempool' = mempool \o moved
     /\ mempool_size' = mempool_size + SizeOf(moved)
     /\ buffer_size' = buffer_size - SizeOf(moved)
     /\ buffered_mempool' = SubSeq(buffered_mempool, n + 1, Len(buffered_mempool))
     /\ UNCHANGED arrived

ProposePush ==
  /\ vm_pc = "p_push" /\ filter_stopped
  /\ push_mempool_buffer_to_mempool
  /\ vm_pc' = "p_build"
  /\ UNCHANGED <<cleaner, filter, chain>>

\* build_block (modules TxProcessing and BlockSpace): some chunks are
\* processed; there a transaction is included, dropped for good or kept.
build_block ==
  /\ vm_pc = "p_build"
  /\ MempoolFree
  /\ \E processed \in SUBSET DOMAIN mempool :
     LET seen == UNION {ToSet(mempool[i].txs) : i \in processed}
     IN \E included \in SUBSET {t \in seen : SeqNum[t] > last_committed[Source[t]]
                                              /\ Source[t] \notin UnknownAccounts},
           dropped \in SUBSET seen :
          /\ included \cap dropped = {}
          /\ mempool' = [i \in DOMAIN mempool |->
               IF i \in processed
               THEN [mempool[i] EXCEPT !.confirmed_txs_to_remove =
                       [j \in DOMAIN mempool[i].txs |->
                          mempool[i].txs[j] \in included \cup dropped]]
               ELSE mempool[i]]
          /\ selected' = included
          /\ flagged' = flagged \cup included \cup dropped
  /\ vm_pc' = "p_clean"
  /\ UNCHANGED <<cleaner, filter, buffer, mempool_size, last_committed, rounds>>

\* do_mempool_cleaning waits for the previous cleaning.
do_mempool_cleaning == ~do_cleaning /\ do_cleaning' = TRUE

ProposeClean ==
  /\ vm_pc = "p_clean"
  /\ do_mempool_cleaning
  /\ vm_pc' = "p_commit"
  /\ UNCHANGED <<cleaner_pc, filter, buffer, pool, chain>>

\* The highest sequence number that a block with transactions ts commits.
NewLast(a, ts) ==
  LET ns == {SeqNum[t] : t \in {u \in ts : Source[u] = a}} \cup {last_committed[a]}
  IN Max(ns)

\* speedex_block_creation_logic commits the block's sequence numbers.
ProposeCommit ==
  /\ vm_pc = "p_commit"
  /\ last_committed' = [a \in Account |-> NewLast(a, selected)]
  /\ selected' = {}
  /\ vm_pc' = "p_wait"
  /\ UNCHANGED <<cleaner, filter, buffer, pool, rounds, flagged>>


\* wait_for_mempool_cleaning_done.
cleaning_done == ~do_cleaning

ProposeEnd ==
  /\ vm_pc = "p_wait"
  /\ cleaning_done
  /\ vm_pc' = "idle"
  /\ UNCHANGED <<cleaner, filter, buffer, pool, chain>>

ExecClean ==
  /\ vm_pc = "v_clean" /\ filter_stopped
  /\ do_mempool_cleaning
  /\ vm_pc' = "v_validate"
  /\ UNCHANGED <<cleaner_pc, filter, buffer, pool, chain>>

\* speedex_block_validation_logic: a valid block commits sequence numbers,
\* an invalid one nothing.
ExecValidate ==
  /\ vm_pc = "v_validate"
  /\ \E lc \in [Account -> 0 .. MaxSeqNum] :
       /\ \A a \in Account : lc[a] >= last_committed[a]
       /\ last_committed' = lc
  /\ vm_pc' = "v_push"
  /\ UNCHANGED <<cleaner, filter, buffer, pool, rounds, selected, flagged>>

\* post_validation_cleanup, up to start_filter.
ExecPush ==
  /\ vm_pc = "v_push"
  /\ cleaning_done
  /\ push_mempool_buffer_to_mempool
  /\ vm_pc' = "v_start"
  /\ UNCHANGED <<cleaner, filter, chain>>

\* start_filter, under the worker's mtx.
ExecEnd ==
  /\ vm_pc = "v_start"
  /\ filter_pc = "wait"
  /\ do_work' = TRUE
  /\ cancel_background_filter' = FALSE
  /\ vm_pc' = "idle"
  /\ UNCHANGED <<filter_pc, todo, cleaner, buffer, pool, chain>>

VM ==
  \/ ProposeBegin \/ ProposePush \/ build_block \/ ProposeClean
  \/ ProposeCommit \/ ProposeEnd
  \/ ExecBegin \/ ExecClean \/ ExecValidate \/ ExecPush \/ ExecEnd

Filter == FilterStart \/ FilterChunk \/ FilterSkip \/ FilterEnd

Idle ==
  /\ vm_pc = "idle" /\ rounds = MaxRounds
  /\ UNCHANGED vars

Next ==
  \/ chunkify_and_add_to_mempool_buffer
  \/ CleanerRemove \/ CleanerJoin
  \/ Filter
  \/ VM
  \/ Idle

\* The VM thread and the two helper threads keep running; nothing is assumed
\* of the network.
Fairness == WF_vars(VM) /\ WF_vars(Filter) /\ WF_vars(CleanerRemove \/ CleanerJoin)

Spec == Init /\ [][Next]_vars /\ Fairness

-----------------------------------------------------------------------------
\* Type invariant.
TypeOK ==
  /\ \A c \in ToSet(mempool) \cup ToSet(buffered_mempool) :
       /\ c.txs \in Seq(TxId)
       /\ c.confirmed_txs_to_remove \in Seq(BOOLEAN)
  /\ mempool_size \in Nat /\ buffer_size \in Nat
  /\ todo \subseteq DOMAIN mempool
  /\ last_committed \in [Account -> 0 .. MaxSeqNum]

\* No transaction disappears: what has arrived is buffered, pooled, was
\* flagged by block production, or is out of date.  The flags are never
\* applied to a transaction they were not set for, although filtering and
\* joining reorder transactions without them.  And none is offered twice: what
\* block production has flagged is gone before the next block is built.
\* Code: MempoolChunk::remove_confirmed_txs, filter and join; the cleaner,
\* against post_production_cleanup and pre_production_stop_background_filtering.
NoTxLost ==
  /\ \A b \in arrived : \A t \in ToSet(b) :
       \/ t \in TxsIn(buffered_mempool) \cup TxsIn(mempool)
       \/ t \in flagged
       \/ check_transaction(t)
  /\ vm_pc = "p_build" => TxsIn(mempool) \cap flagged = {}

\* The atomic counters agree with the chunks between any two critical
\* sections; total_size reports them to the overlay, which throttles on them;
\* and the state keeps its types.  Code: log_tx_removal and its callers.
SizesExact ==
  /\ TypeOK
  /\ mempool_size = SizeOf(mempool)
  /\ buffer_size = SizeOf(buffered_mempool)

\* The filter does not run while a block is produced or validated (comment of
\* MempoolTransactionFilter: "Should NOT be used while speedex state is
\* modified by block production or validation").
FilterQuiescent ==
  vm_pc \in {"p_build", "p_clean", "p_commit", "p_wait", "v_validate", "v_push"}
    => filter_pc = "wait"

\* Neither propose nor exec_block ever waits forever for a helper thread.
\* Code: the mutexes and condition variables of AsyncWorker and Mempool.
VMReturns == (vm_pc # "idle") ~> (vm_pc = "idle")
=============================================================================
