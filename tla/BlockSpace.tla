---------------------------- MODULE BlockSpace ----------------------------
(***************************************************************************)
(* The block-size budget of BlockProducer::build_block.                    *)
(*                                                                         *)
(* tbb::parallel_reduce cuts the mempool's chunks into ranges; a thread    *)
(* runs BlockProductionReduce::operator() on one range at a time.  For     *)
(* each chunk it reserves space with a fetch_sub on a shared counter,      *)
(* gives back what it could not get, processes as many transactions as it  *)
(* reserved, and gives back the space of those that failed.                *)
(*                                                                         *)
(* What processing does to the database is module TxProcessing; here a     *)
(* transaction succeeds, fails for good or fails for now.                  *)
(***************************************************************************)
EXTENDS Integers, Sequences, FiniteSetsExt, Counting

CONSTANTS
  Worker,
  ChunkSizes,       \* the sequences of chunk sizes that a mempool may have
  max_block_size

ASSUME SpaceAssumption ==
  /\ max_block_size \in Nat
  /\ \A m \in ChunkSizes : m \in Seq(Nat)

VARIABLES
  chunk_size,              \* this mempool
  remaining_block_space,   \* shared, signed
  total_block_size,        \* shared
  pending,                 \* ranges <<first, last>> that no thread has taken
  range,                   \* worker -> its range; first is the current chunk
  pc,
  chunk_sz,                \* worker -> transactions of the chunk to process
  remaining_space,         \* worker -> what its fetch_sub returned
  confirmed,               \* chunk -> positions flagged for removal
  included,                \* chunk -> positions that went into the block
  over_returned            \* history: space given back that nobody had taken

vars == <<chunk_size, remaining_block_space, total_block_size, pending, range,
          pc, chunk_sz, remaining_space, confirmed, included, over_returned>>

Chunk == DOMAIN chunk_size
NoRange == <<1, 0>>

\* The ways of cutting 1 .. n into ranges, named by where a range ends.
Ranges(n, ends) ==
  {r \in (1 .. n) \X (1 .. n) :
     /\ r[1] <= r[2]
     /\ r[2] \in ends \cup {n}
     /\ \A e \in ends : e < r[1] \/ e >= r[2]
     /\ r[1] = 1 \/ r[1] - 1 \in ends}

Init ==
  /\ chunk_size \in ChunkSizes
  /\ remaining_block_space = max_block_size
  /\ total_block_size = 0
  /\ \E ends \in SUBSET DOMAIN chunk_size :
       pending = Ranges(Cardinality(DOMAIN chunk_size), ends)
  /\ range = [w \in Worker |-> NoRange]
  /\ pc = [w \in Worker |-> "idle"]
  /\ chunk_sz = [w \in Worker |-> 0]
  /\ remaining_space = [w \in Worker |-> 0]
  /\ confirmed = [c \in Chunk |-> {}]
  /\ included = [c \in Chunk |-> {}]
  /\ over_returned = 0

TakeRange(w) ==
  /\ pc[w] = "idle"
  /\ \E r \in pending :
       /\ pending' = pending \ {r}
       /\ range' = [range EXCEPT ![w] = r]
  /\ pc' = [pc EXCEPT ![w] = "reserve"]
  /\ UNCHANGED <<chunk_size, remaining_block_space, total_block_size, chunk_sz,
                 remaining_space, confirmed, included, over_returned>>

\* The chunk that w is at.
At(w) == range[w][1]

\* operator() returns, dropping the rest of the range.
Quit(w) ==
  /\ pc' = [pc EXCEPT ![w] = "idle"]
  /\ range' = [range EXCEPT ![w] = NoRange]

\* Faulty variant: off by one.
TooLarge_OffByOne(old, size) == old + 1 < size

TooLarge(old, size) == old < size

\* fetch_sub of the whole chunk.
Reserve(w) ==
  LET old == remaining_block_space
      size == chunk_size[At(w)]
  IN /\ pc[w] = "reserve"
     /\ remaining_block_space' = old - size
     /\ remaining_space' = [remaining_space EXCEPT ![w] = old]
     /\ chunk_sz' = [chunk_sz EXCEPT ![w] = size]
     /\ pc' = [pc EXCEPT ![w] = IF TooLarge(old, size) THEN "give_back" ELSE "process"]
     /\ UNCHANGED <<chunk_size, total_block_size, pending, range, confirmed,
                    included, over_returned>>

\* The counter had less than the chunk needs: give back the difference.
GiveBackAmount(w) == chunk_sz[w] - remaining_space[w]

\* Then go on with what there was, if that is anything.
GiveBack(w) ==
  /\ pc[w] = "give_back"
  /\ remaining_block_space' = remaining_block_space + GiveBackAmount(w)
  /\ chunk_sz' = [chunk_sz EXCEPT ![w] = remaining_space[w]]
  /\ over_returned' = over_returned + Max({0, - remaining_space[w]})
  /\ IF remaining_space[w] <= 0
     THEN Quit(w)
     ELSE pc' = [pc EXCEPT ![w] = "process"] /\ UNCHANGED range
  /\ UNCHANGED <<chunk_size, total_block_size, pending, remaining_space,
                 confirmed, included>>

\* Faulty variant: a success is not flagged.
Flagged_Failures(success, failed) == failed

\* bitmap: the positions to remove from the mempool.
Flagged(success, failed) == success \cup failed

\* Faulty variant: the space of successful transactions is given back.
Unused_Successes(w, success) == Cardinality(success)

\* What the chunk did not use of its reservation.
Unused(w, success) == chunk_sz[w] - Cardinality(success)

\* The loop's condition.
EndOfRange(w) == range[w][1] = range[w][2]

\* Process the reserved prefix: success in the block, failed for good (for
\* which delete_tx_from_mempool answers true), or to be tried again; flag the
\* first two, return the unused space, and stop if the counter was used up.
\* The other threads read none of this before the last fetch_add.
ProcessChunk(w) ==
  /\ pc[w] = "process"
  /\ \E success \in SUBSET (1 .. chunk_sz[w]) :
     \E failed \in SUBSET ((1 .. chunk_sz[w]) \ success) :
       /\ confirmed' = [confirmed EXCEPT ![At(w)] = Flagged(success, failed)]
       /\ included' = [included EXCEPT ![At(w)] = success]
       /\ remaining_block_space' = remaining_block_space + Unused(w, success)
       /\ total_block_size' = total_block_size + Cardinality(success)
  /\ IF remaining_block_space <= 0 \/ EndOfRange(w)
     THEN Quit(w)
     ELSE /\ range' = [range EXCEPT ![w] = <<@[1] + 1, @[2]>>]
          /\ pc' = [pc EXCEPT ![w] = "reserve"]
  /\ chunk_sz' = [chunk_sz EXCEPT ![w] = 0]
  /\ UNCHANGED <<chunk_size, pending, remaining_space, over_returned>>

Done ==
  /\ pending = {}
  /\ \A w \in Worker : pc[w] = "idle"
  /\ UNCHANGED vars

Next ==
  \/ \E w \in Worker : TakeRange(w) \/ Reserve(w) \/ GiveBack(w) \/ ProcessChunk(w)
  \/ Done

Spec == Init /\ [][Next]_vars

-----------------------------------------------------------------------------
\* Type invariant: counters are integers, a busy worker is inside a range.
TypeOK ==
  /\ chunk_size \in ChunkSizes
  /\ remaining_block_space \in Int
  /\ total_block_size \in Nat
  /\ over_returned \in Nat
  /\ pending \subseteq Chunk \X Chunk
  /\ range \in [Worker -> Nat \X Nat]
  /\ pc \in [Worker -> {"idle", "reserve", "give_back", "process"}]
  /\ \A w \in Worker : pc[w] # "idle" => range[w] \in Chunk \X Chunk
  /\ chunk_sz \in [Worker -> Int]
  /\ remaining_space \in [Worker -> Int]
  /\ confirmed \in [Chunk -> SUBSET Nat]
  /\ included \in [Chunk -> SUBSET Nat]
  /\ \A c \in Chunk : confirmed[c] \cup included[c] \subseteq 1 .. chunk_size[c]

\* The block never holds more than max_block_size transactions.
\* Code: the comment of operator(), "We'll guarantee that we don't exceed a
\* block limit, but we might ignore a few valid txs."
BlockLimit == total_block_size <= max_block_size

\* The units of space that each worker has taken from the counter and neither
\* given back nor used.
Held == [w \in Worker |-> IF pc[w] \in {"give_back", "process"} THEN 1 .. chunk_sz[w] ELSE {}]

\* Every unit of space is free, held by a thread or used by a transaction in
\* the block, except for what over-drawn reservations returned in excess; and
\* the state keeps its types.
\* Code: the three atomic updates of remaining_block_space.
SpaceAccounted ==
  /\ TypeOK
  /\ remaining_block_space + total_block_size + Cardinality(Cells(Held))
       = max_block_size + over_returned

\* The limit holds as long as no reservation met a counter that was already
\* below zero.  Code: operator(), the reservation.
LimitWithoutOverdraw ==
  over_returned = 0 => total_block_size <= max_block_size

\* What is in the block is flagged for removal, so that no later block of this
\* node offers it again, and is counted once.
\* Code: bitmap, set_confirmed_txs and total_block_size.
BlockIsFlagged ==
  /\ \A c \in Chunk : included[c] \subseteq confirmed[c]
  /\ total_block_size = Cardinality(Cells(included))
=============================================================================
