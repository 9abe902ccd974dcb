-------------------------- MODULE SpeedexVM_proof --------------------------
(***************************************************************************)
(* Proofs about SpeedexVM, for any accounts, shards, number of books and   *)
(* blocks and any frequency of persistence.                                *)
(***************************************************************************)
EXTENDS SpeedexVM, Counting_proof, SequenceTheorems

(***************************************************************************)
(* The rounds of the stores.  Whatever writes one has a round in hand that *)
(* is at least that of the stores it will write and at most that of the    *)
(* stores it depends on.                                                   *)
(***************************************************************************)
RoundsTyped ==
  /\ proposal_base \in Nat /\ last_committed \in Nat /\ last_committed <= proposal_base
  /\ pending \in Seq(Nat) /\ \A i \in 1..Len(pending) : pending[i] <= proposal_base
  /\ block_map \in Seq(BOOLEAN) /\ Len(block_map) = proposal_base
  /\ shard_round \in [Shard -> Nat] /\ synced_round \in [Shard -> Nat]
  /\ book_round \in [Book -> Nat] /\ header_round \in Nat
  /\ round \in [Thread -> Nat] /\ todo \in [Thread -> SUBSET (Shard \cup Book)]

\* Where each thread may be.
PlacesInStep ==
  /\ at \in [Thread -> Place]
  /\ at["phase1"] \in {"idle", "collect", "write", "writing", "erase", "handoff"}
  /\ at["phase2"] \in {"idle", "sync", "handoff"}
  /\ at["phase3"] \in {"idle", "books", "headers"}
  /\ at["vm"] # "handoff"

\* A rewind persists the last committed round, and has the stores to itself;
\* log_commitment waits to hand over that round.
RewindAlone ==
  /\ ~Idle("vm") => PersisterIdle /\ waiting = 0 /\ round["vm"] = last_committed
  /\ waiting # 0 => waiting = last_committed

\* Nothing that is not committed is persisted, and the phases are at rounds in
\* reverse order.
RoundsInOrder ==
  /\ \A t \in Thread : round[t] <= last_committed
  /\ \A s \in Shard : synced_round[s] <= shard_round[s] /\ shard_round[s] <= last_committed
  /\ \A b \in Book : book_round[b] <= last_committed
  /\ ~Idle("phase1") /\ ~Idle("phase2") => round["phase2"] <= round["phase1"]
  /\ ~Idle("phase1") /\ ~Idle("phase3") => round["phase3"] <= round["phase1"]
  /\ ~Idle("phase2") /\ ~Idle("phase3") => round["phase3"] <= round["phase2"]

\* Shard s has been written, and synced, by the thread t that is at it.
ShardWritten(t, s) ==
  \/ at[t] = "writing" /\ s \notin todo[t]
  \/ at[t] \in {"erase", "handoff", "sync", "reload", "books", "rollback_books", "headers",
                "rollback_headers"}
ShardSynced(t, s) ==
  \/ at[t] = "sync" /\ s \notin todo[t]
  \/ at[t] \in {"handoff", "reload", "books", "rollback_books", "headers", "rollback_headers"}
BookWritten(t, b) ==
  \/ at[t] = "books" /\ b \notin todo[t]
  \/ at[t] \in {"rollback_books", "headers", "rollback_headers"}

\* Phase 1 and a rewind write the shards, each at its round.
WritersInStep ==
  \A t \in {"phase1", "vm"} : ~Idle(t) =>
    /\ \A s \in Shard : /\ shard_round[s] <= round[t]
                        /\ ShardWritten(t, s) => shard_round[s] = round[t]
    /\ \A b \in Book : book_round[b] <= round[t]

\* Phase 2 and a rewind sync shards that were written at their round or later.
SyncersInStep ==
  /\ ~Idle("phase2") =>
       /\ \A s \in Shard : /\ round["phase2"] <= shard_round[s]
                           /\ ShardSynced("phase2", s) => round["phase2"] <= synced_round[s]
       /\ \A b \in Book : book_round[b] <= round["phase2"]
  /\ ~Idle("vm") =>
       \A s \in Shard : ShardSynced("vm", s) => round["vm"] <= synced_round[s]

\* Phase 3 and a rewind write books behind the shards, and headers behind the
\* books.
BooksInStep ==
  /\ ~Idle("phase3") =>
       /\ \A s \in Shard : round["phase3"] <= synced_round[s]
       /\ \A b \in Book : book_round[b] <= round["phase3"]
  /\ \A t \in {"phase3", "vm"} : ~Idle(t) =>
       \A b \in Book : BookWritten(t, b) => book_round[b] = round[t]

RoundsInv ==
  /\ RoundsTyped /\ PlacesInStep /\ RewindAlone /\ RoundsInOrder
  /\ WritersInStep /\ SyncersInStep /\ BooksInStep

\* After an exception nothing runs any more.
OrderInv == StoresOrdered /\ (NoException => RoundsInv)

-----------------------------------------------------------------------------
(* The start, and blocks in memory.                                        *)

LEMMA OrderStart == Init => OrderInv
<1> SUFFICES ASSUME Init PROVE OrderInv
  OBVIOUS
<1> USE DEF Init
<1>1. StoresOrdered
  BY DEF StoresOrdered
<1>2. RoundsTyped
  BY DEF RoundsTyped, Thread
<1>3. PlacesInStep /\ RewindAlone /\ RoundsInOrder
  BY DEF PlacesInStep, RewindAlone, RoundsInOrder, Thread, Place, Idle
<1>4. WritersInStep /\ SyncersInStep /\ BooksInStep
  BY DEF WritersInStep, SyncersInStep, BooksInStep, Thread, Idle
<1> QED
  BY <1>1, <1>2, <1>3, <1>4 DEF OrderInv, RoundsInv

\* There is a book, so the headers are not ahead of the last committed block.
LEMMA HeadersBehind ==
  ASSUME RoundsInv, StoresOrdered
  PROVE  header_round <= last_committed /\ header_round <= Len(block_map)
<1>1. 1 \in Book
  BY VMAssumption DEF Book
<1>2. header_round <= book_round[1] /\ book_round[1] <= last_committed
  BY <1>1 DEF RoundsInv, RoundsInOrder, StoresOrdered
<1>3. book_round[1] \in Nat
  BY <1>1 DEF RoundsInv, RoundsTyped
<1> QED
  BY <1>2, <1>3 DEF RoundsInv, RoundsTyped

\* What the VM does between rewinds leaves the stores and the threads alone.
LEMMA MemoryStep ==
  ASSUME RoundsInv, StoresOrdered,
         UNCHANGED <<shard_round, synced_round, book_round, header_round, header_rows,
                     at, round, todo>>,
         last_committed' \in Nat, proposal_base' \in Nat,
         last_committed <= last_committed', last_committed' <= proposal_base',
         pending' \in Seq(Nat), \A i \in 1..Len(pending') : pending'[i] <= proposal_base',
         block_map' \in Seq(BOOLEAN), Len(block_map') = proposal_base',
         \A i \in 1..Len(block_map) : block_map'[i] = block_map[i],
         RewindAlone'
  PROVE  StoresOrdered' /\ RoundsInv'
<1>1. StoresOrdered'
  <2>1. \A i \in 1..header_round : block_map'[i] = block_map[i]
    BY HeadersBehind DEF RoundsInv, RoundsTyped
  <2> QED
    BY <2>1 DEF StoresOrdered
<1>2. RoundsTyped' /\ PlacesInStep'
  BY DEF RoundsInv, RoundsTyped, PlacesInStep
<1>3. RoundsInOrder'
  <2>1. /\ \A t \in Thread : round[t] \in Nat
        /\ \A s \in Shard : shard_round[s] \in Nat
        /\ \A b \in Book : book_round[b] \in Nat
        /\ last_committed \in Nat
    BY DEF RoundsInv, RoundsTyped
  <2> QED
    BY <2>1 DEF RoundsInv, RoundsInOrder, Idle
<1>4. WritersInStep' /\ SyncersInStep' /\ BooksInStep'
  BY DEF RoundsInv, WritersInStep, SyncersInStep, BooksInStep, Idle, ShardWritten, ShardSynced,
         BookWritten
<1> QED
  BY <1>1, <1>2, <1>3, <1>4 DEF RoundsInv

\* A thrown exception changes nothing else.
LEMMA ThrowStep ==
  ASSUME StoresOrdered, NEW n, NEW T, BlockThrows(n) \/ HashThrows(n, T)
  PROVE  StoresOrdered' /\ ~NoException'
<1>1. ~NoException'
  BY DEF BlockThrows, HashThrows, Fault, NoException
<1>2. StoresOrdered'
  BY DEF StoresOrdered, BlockThrows, HashThrows, lmdb_vars, book_vars, header_vars
<1> QED
  BY <1>1, <1>2

\* The header map grows by one block.
LEMMA Inserted ==
  ASSUME RoundsInv, NEW ok \in BOOLEAN, insert(ok)
  PROVE  /\ block_map' \in Seq(BOOLEAN) /\ Len(block_map') = proposal_base + 1
         /\ \A i \in 1..Len(block_map) : block_map'[i] = block_map[i]
BY DEF RoundsInv, RoundsTyped, insert

LEMMA ProposeStep ==
  ASSUME RoundsInv, StoresOrdered, NoException, NEW T, Propose(T)
  PROVE  StoresOrdered' /\ (NoException' => RoundsInv')
<1>1. CASE BlockThrows(proposal_base + 1)
  BY <1>1, ThrowStep
<1>2. CASE /\ CommitBlock(proposal_base + 1, T)
           /\ proposal_base' = proposal_base + 1
           /\ pending' = Append(pending, proposal_base + 1)
           /\ UNCHANGED <<last_committed, last_persisted, executed, waiting, lmdb_vars,
                          book_round, header_rows, header_round, thread_vars, fault>>
  <2>1. insert(TRUE)
    BY <1>2 DEF CommitBlock
  <2>2. /\ block_map' \in Seq(BOOLEAN) /\ Len(block_map') = proposal_base'
        /\ \A i \in 1..Len(block_map) : block_map'[i] = block_map[i]
    BY <1>2, <2>1, Inserted
  <2>3. /\ last_committed \in Nat /\ proposal_base \in Nat /\ last_committed <= proposal_base
        /\ pending \in Seq(Nat) /\ \A i \in 1..Len(pending) : pending[i] <= proposal_base
        /\ \A i \in 1..Len(pending) : pending[i] \in Nat
    BY DEF RoundsInv, RoundsTyped
  <2>4. pending' \in Seq(Nat) /\ \A i \in 1..Len(pending') : pending'[i] <= proposal_base'
    BY <1>2, <2>3
  <2>5. UNCHANGED <<shard_round, synced_round, book_round, header_round, header_rows,
                    at, round, todo, last_committed, waiting>>
    BY <1>2 DEF lmdb_vars, thread_vars
  <2>6. RewindAlone'
    BY <2>5 DEF RoundsInv, RewindAlone, Idle, PersisterIdle
  <2> QED
    BY <1>2, <2>2, <2>3, <2>4, <2>5, <2>6, MemoryStep
<1> QED
  BY <1>1, <1>2 DEF Propose

\* A block that is executed, whatever the result.
LEMMA ExecutedStep ==
  ASSUME RoundsInv, StoresOrdered, CanExec, Executed, NEW ok \in BOOLEAN, insert(ok),
         UNCHANGED <<lmdb_vars, book_round, header_rows, header_round, thread_vars>>
  PROVE  StoresOrdered' /\ RoundsInv'
<1>1. /\ block_map' \in Seq(BOOLEAN) /\ Len(block_map') = proposal_base + 1
      /\ \A i \in 1..Len(block_map) : block_map'[i] = block_map[i]
  BY Inserted
<1>2. /\ last_committed \in Nat /\ proposal_base = last_committed
      /\ pending \in Seq(Nat) /\ \A i \in 1..Len(pending) : pending[i] <= proposal_base
      /\ \A i \in 1..Len(pending) : pending[i] \in Nat
  BY DEF RoundsInv, RoundsTyped, CanExec
<1>3. last_committed' = last_committed + 1 /\ proposal_base' = last_committed + 1
      /\ pending' = pending /\ waiting' = waiting
  BY DEF Executed
<1>4. UNCHANGED <<shard_round, synced_round, book_round, header_round, header_rows,
                  at, round, todo>>
  BY DEF lmdb_vars, thread_vars
<1>5. RewindAlone'
  <2>1. Idle("vm")' /\ waiting' = 0
    BY <1>3, <1>4 DEF CanExec, ConfirmationFree, OperationFree, Idle
  <2> QED
    BY <2>1 DEF RewindAlone
<1> QED
  BY <1>1, <1>2, <1>3, <1>4, <1>5, MemoryStep

LEMMA ExecSteps ==
  ASSUME RoundsInv, StoresOrdered, NEW T, ExecBlock(T) \/ RefuseTxs(T) \/ RefuseClearing(T)
  PROVE  StoresOrdered' /\ (NoException' => RoundsInv')
<1>1. CASE BlockThrows(last_committed + 1) \/ HashThrows(last_committed + 1, T)
  BY <1>1, ThrowStep
<1>2. CASE /\ CanExec /\ CommitBlock(last_committed + 1, T) /\ Executed
           /\ UNCHANGED <<lmdb_vars, book_round, header_rows, header_round, thread_vars>>
  BY <1>2, ExecutedStep DEF CommitBlock
<1>3. CASE CanExec /\ RecordRefused(last_committed + 1)
  BY <1>3, ExecutedStep DEF RecordRefused, book_vars
<1> QED
  BY <1>1, <1>2, <1>3 DEF ExecBlock, RefuseTxs, RefuseClearing

\* What log_commitment leaves of the proposed blocks.
LEMMA Popped ==
  ASSUME RoundsInv, NEW n, pending' = PopTo(n)
  PROVE  pending' \in Seq(Nat) /\ \A i \in 1..Len(pending') : pending'[i] <= proposal_base
<1> DEFINE S == {i \in DOMAIN pending : pending[i] = n}
<1>1. pending \in Seq(Nat) /\ \A i \in 1..Len(pending) : pending[i] <= proposal_base
  BY DEF RoundsInv, RoundsTyped
<1>2. CASE Contains(pending, n)
  <2>1. \E i \in DOMAIN pending : pending[i] = n
    BY <1>1, <1>2 DEF Contains
  <2>2. S \subseteq Nat /\ S # {}
    BY <1>1, <2>1
  <2>3. Min(S) \in S
    BY <2>2, LeastElement
  <2>4. S \subseteq 1..Len(pending)
    BY <1>1
  <2>5. Min(S) \in 1..Len(pending)
    BY <2>3, <2>4, Zenon
  <2>6. PICK m \in 1..Len(pending) : m = Min(S)
    BY <2>5, Zenon
  <2>7. pending' = SubSeq(pending, m + 1, Len(pending))
    BY <1>2, <2>6 DEF PopTo
  <2>8. /\ pending' \in Seq(Nat) /\ Len(pending') = Len(pending) - m
        /\ \A i \in 1..Len(pending) - m : pending'[i] = pending[m + i]
    BY <1>1, <2>7
  <2>9. Len(pending) \in Nat /\ m \in 1..Len(pending)
    BY <1>1
  <2>10. \A i \in 1..Len(pending) - m : m + i \in 1..Len(pending)
    BY <2>9
  <2>11. \A i \in 1..Len(pending) - m : pending'[i] <= proposal_base
    BY <1>1, <2>8, <2>10
  <2> QED
    BY <2>8, <2>11
<1>3. CASE ~ Contains(pending, n)
  BY <1>3 DEF PopTo
<1> QED
  BY <1>2, <1>3

LEMMA LogCommitmentStep ==
  ASSUME RoundsInv, StoresOrdered, NEW n \in Nat, LogCommitment(n)
  PROVE  StoresOrdered' /\ RoundsInv'
<1>1. /\ last_committed \in Nat /\ proposal_base \in Nat /\ last_committed <= proposal_base
      /\ \A i \in 1..Len(pending) : pending[i] <= proposal_base
  BY DEF RoundsInv, RoundsTyped
<1>2. last_committed <= n /\ n <= proposal_base
  BY <1>1 DEF LogCommitment, Contains
<1>3. /\ UNCHANGED <<shard_round, synced_round, book_round, header_round, header_rows,
                     at, round, todo, block_map, proposal_base>>
      /\ last_committed' = n
      /\ waiting' \in {0, n}
  BY DEF LogCommitment, lmdb_vars, book_vars, header_vars, thread_vars
<1>4. pending' \in Seq(Nat) /\ \A i \in 1..Len(pending') : pending'[i] <= proposal_base'
  BY <1>3, Popped DEF LogCommitment
<1>5. RewindAlone'
  <2>1. Idle("vm")'
    BY <1>3 DEF LogCommitment, ConfirmationFree, OperationFree, Idle
  <2> QED
    BY <1>3, <2>1 DEF RewindAlone
<1>6. block_map' \in Seq(BOOLEAN) /\ Len(block_map') = proposal_base'
  BY <1>3 DEF RoundsInv, RoundsTyped
<1> QED
  BY <1>1, <1>2, <1>3, <1>4, <1>5, <1>6, MemoryStep

-----------------------------------------------------------------------------
(* Threads.                                                                *)

\* The types of what the threads work with, for the provers.
LEMMA Rounds ==
  ASSUME RoundsInv
  PROVE  /\ \A t \in Thread : round[t] \in Nat
         /\ \A s \in Shard : shard_round[s] \in Nat /\ synced_round[s] \in Nat
         /\ \A b \in Book : book_round[b] \in Nat
         /\ last_committed \in Nat /\ header_round \in Nat
BY DEF RoundsInv, RoundsTyped

\* An action of a thread that writes no store.
LEMMA StoresKept ==
  ASSUME StoresOrdered, UNCHANGED <<synced_round, book_round, header_round, header_rows, block_map>>
  PROVE  StoresOrdered'
BY DEF StoresOrdered

LEMMA BeginRewindStep ==
  ASSUME RoundsInv, StoresOrdered, "rewind_race" \notin Allow, BeginRewind
  PROVE  StoresOrdered' /\ RoundsInv'
<1>1. /\ at' = [at EXCEPT !["vm"] = "collect"]
      /\ round' = [round EXCEPT !["vm"] = last_committed]
      /\ UNCHANGED <<shard_round, synced_round, book_round, header_round, header_rows, todo,
                     pending, block_map, proposal_base, last_committed, waiting>>
  BY DEF BeginRewind, Move, vm_vars, lmdb_vars, book_vars, header_vars
<1>2. PersisterIdle /\ waiting = 0
  BY DEF BeginRewind, ConfirmationFree
<1>3. StoresOrdered'
  BY <1>1, StoresKept
<1>4. RoundsTyped' /\ PlacesInStep'
  BY <1>1 DEF RoundsInv, RoundsTyped, PlacesInStep, Thread, Place
<1>5. RewindAlone'
  BY <1>1, <1>2 DEF RoundsInv, RoundsTyped, PlacesInStep, RewindAlone, PersisterIdle, Idle, Thread
<1>6. RoundsInOrder'
  BY <1>1, <1>2, Rounds DEF RoundsInv, RoundsTyped, PlacesInStep, RoundsInOrder, PersisterIdle, Idle, Thread
<1>7. WritersInStep' /\ SyncersInStep' /\ BooksInStep'
  BY <1>1, <1>2, Rounds
  DEF RoundsInv, RoundsTyped, PlacesInStep, RoundsInOrder, WritersInStep, SyncersInStep, BooksInStep,
      ShardWritten, ShardSynced, BookWritten, PersisterIdle, Idle, Thread
<1> QED
  BY <1>3, <1>4, <1>5, <1>6, <1>7 DEF RoundsInv

LEMMA DoAsyncPersistStep ==
  ASSUME RoundsInv, StoresOrdered, DoAsyncPersist
  PROVE  StoresOrdered' /\ RoundsInv'
<1>1. /\ at' = [at EXCEPT !["phase1"] = "collect"]
      /\ round' = [round EXCEPT !["phase1"] = waiting]
      /\ UNCHANGED <<shard_round, synced_round, book_round, header_round, header_rows, todo,
                     pending, block_map, proposal_base, last_committed>>
      /\ waiting' = 0
  BY DEF DoAsyncPersist, Move, vm_vars, lmdb_vars, book_vars, header_vars
<1>2. Idle("phase1") /\ Idle("vm") /\ waiting = last_committed
  BY DEF DoAsyncPersist, RoundsInv, RewindAlone
<1>3. StoresOrdered'
  BY <1>1, StoresKept
<1>4. RoundsTyped' /\ PlacesInStep'
  BY <1>1, <1>2 DEF RoundsInv, RoundsTyped, PlacesInStep, Thread, Place
<1>5. RewindAlone'
  BY <1>1, <1>2 DEF RoundsInv, RoundsTyped, PlacesInStep, RewindAlone, PersisterIdle, Idle, Thread
<1>6. RoundsInOrder'
  BY <1>1, <1>2, Rounds DEF RoundsInv, RoundsTyped, PlacesInStep, RoundsInOrder, Idle, Thread
<1>7. WritersInStep' /\ SyncersInStep' /\ BooksInStep'
  BY <1>1, <1>2, Rounds
  DEF RoundsInv, RoundsTyped, PlacesInStep, RoundsInOrder, WritersInStep, SyncersInStep, BooksInStep,
      ShardWritten, ShardSynced, BookWritten, Idle, Thread
<1> QED
  BY <1>3, <1>4, <1>5, <1>6, <1>7 DEF RoundsInv

\* A step of phase 1 or of a rewind on its way through the shards that writes
\* no store.
LEMMA WriterMoves ==
  ASSUME RoundsInv, StoresOrdered, NEW t \in {"phase1", "vm"}, NEW place,
         NoException,
         at' = [at EXCEPT ![t] = place],
         UNCHANGED <<shard_round, synced_round, book_round, header_round, header_rows, round,
                     pending, block_map, proposal_base, last_committed, waiting>>,
         \/ /\ at[t] = "collect" /\ place = "write" /\ UNCHANGED todo
         \/ /\ at[t] = "write" /\ place = "writing" /\ todo' = [todo EXCEPT ![t] = Shard]
         \/ /\ at[t] = "writing" /\ todo[t] = {} /\ place = "erase" /\ UNCHANGED todo
         \/ /\ at[t] = "erase" /\ t = "vm" /\ place = "sync" /\ todo' = [todo EXCEPT ![t] = Shard]
         \/ /\ at[t] = "erase" /\ t = "phase1" /\ place = "handoff" /\ UNCHANGED todo
  PROVE  StoresOrdered' /\ RoundsInv'
<1> USE DEF Thread
<1>1. StoresOrdered'
  BY StoresKept
<1>2. RoundsTyped' /\ PlacesInStep'
  BY DEF RoundsInv, RoundsTyped, PlacesInStep, Place
<1>3. RewindAlone' /\ RoundsInOrder'
  BY DEF RoundsInv, RoundsTyped, PlacesInStep, RewindAlone, RoundsInOrder, PersisterIdle, Idle
<1>4. WritersInStep'
  BY Rounds DEF RoundsInv, RoundsTyped, PlacesInStep, WritersInStep, ShardWritten, Idle
<1>5. SyncersInStep' /\ BooksInStep'
  BY Rounds DEF RoundsInv, RoundsTyped, PlacesInStep, SyncersInStep, BooksInStep, ShardSynced,
                BookWritten, Idle
<1> QED
  BY <1>1, <1>2, <1>3, <1>4, <1>5 DEF RoundsInv

LEMMA WriterSteps ==
  ASSUME RoundsInv, StoresOrdered, NEW t \in {"phase1", "vm"},
         \/ CollectThunks(t) \/ StartWrite(t) \/ FinishWrite(t) \/ EraseCreationThunks(t)
  PROVE  StoresOrdered' /\ RoundsInv'
<1> USE DEF At, NoException, Move, vm_vars, lmdb_vars, book_vars, header_vars
<1>1. CASE CollectThunks(t)
  BY <1>1, WriterMoves DEF CollectThunks
<1>2. CASE StartWrite(t)
  BY <1>2, WriterMoves DEF StartWrite
<1>3. CASE FinishWrite(t)
  BY <1>3, WriterMoves DEF FinishWrite
<1>4. CASE EraseCreationThunks(t)
  BY <1>4, WriterMoves DEF EraseCreationThunks
<1> QED
  BY <1>1, <1>2, <1>3, <1>4

LEMMA WriteShardStep ==
  ASSUME RoundsInv, StoresOrdered, NEW t \in {"phase1", "vm"}, NEW s \in Shard, WriteShard(t, s)
  PROVE  StoresOrdered' /\ (NoException' => RoundsInv')
<1> USE DEF Thread
<1>1. /\ at[t] = "writing" /\ s \in todo[t]
      /\ todo' = [todo EXCEPT ![t] = @ \ {s}]
      /\ UNCHANGED <<synced_round, book_round, header_round, header_rows, round, at,
                     pending, block_map, proposal_base, last_committed, waiting>>
  BY DEF WriteShard, At, Done, vm_vars, book_vars, header_vars
<1>2. NoException' => shard_round' = [shard_round EXCEPT ![s] = round[t]]
  BY DEF WriteShard, Fault, NoException
<1>3. StoresOrdered'
  BY <1>1, StoresKept
<1> SUFFICES ASSUME NoException' PROVE RoundsInv'
  BY <1>3
<1>4. shard_round[s] <= round[t] /\ round[t] <= last_committed
  BY <1>1 DEF RoundsInv, WritersInStep, RoundsInOrder, Idle
<1>5. RoundsTyped' /\ PlacesInStep' /\ RewindAlone'
  BY <1>1, <1>2 DEF RoundsInv, RoundsTyped, PlacesInStep, RewindAlone, PersisterIdle, Idle
<1>6. RoundsInOrder'
  <2>1. /\ round[t] \in Nat /\ shard_round[s] \in Nat /\ synced_round[s] \in Nat
        /\ synced_round[s] <= shard_round[s]
    BY Rounds DEF RoundsInv, RoundsInOrder
  <2>2. \A x \in Shard : shard_round'[x] = IF x = s THEN round[t] ELSE shard_round[x]
    BY <1>2 DEF RoundsInv, RoundsTyped
  <2>3. \A x \in Shard : synced_round[x] <= shard_round'[x] /\ shard_round'[x] <= last_committed
    BY <1>4, <2>1, <2>2 DEF RoundsInv, RoundsInOrder
  <2> QED
    BY <1>1, <2>3 DEF RoundsInv, RoundsInOrder, Idle
<1>7. WritersInStep'
  BY <1>1, <1>2, <1>4, Rounds
  DEF RoundsInv, RoundsTyped, PlacesInStep, RewindAlone, PersisterIdle, WritersInStep, ShardWritten, Idle
<1>8. SyncersInStep' /\ BooksInStep'
  <2>1. ~Idle("phase2") => round["phase2"] <= round[t]
    BY <1>1 DEF RoundsInv, RoundsInOrder, RewindAlone, PersisterIdle, Idle
  <2> QED
    BY <1>1, <1>2, <1>4, <2>1, Rounds
    DEF RoundsInv, RoundsTyped, PlacesInStep, SyncersInStep, BooksInStep, ShardSynced, BookWritten, Idle
<1> QED
  BY <1>5, <1>6, <1>7, <1>8 DEF RoundsInv

LEMMA HandOffSteps ==
  ASSUME RoundsInv, StoresOrdered, HandOff1 \/ HandOff2
  PROVE  StoresOrdered' /\ RoundsInv'
<1> USE DEF Thread
<1>1. PICK t \in {"phase1", "phase2"}, u \in {"phase2", "phase3"}, place \in {"sync", "books"} :
        /\ \/ t = "phase1" /\ u = "phase2" /\ place = "sync" /\ todo' = [todo EXCEPT ![u] = Shard]
           \/ t = "phase2" /\ u = "phase3" /\ place = "books" /\ todo' = [todo EXCEPT ![u] = Book]
        /\ at[t] = "handoff" /\ Idle(u)
        /\ at' = [at EXCEPT ![t] = "idle", ![u] = place]
        /\ round' = [round EXCEPT ![u] = round[t]]
        /\ UNCHANGED <<shard_round, synced_round, book_round, header_round, header_rows,
                       pending, block_map, proposal_base, last_committed, waiting>>
  BY DEF HandOff1, HandOff2, HandOff, At, vm_vars, lmdb_vars, book_vars, header_vars
<1>2. StoresOrdered'
  BY <1>1, StoresKept
<1>3. RoundsTyped' /\ PlacesInStep'
  BY <1>1 DEF RoundsInv, RoundsTyped, PlacesInStep, Place
<1>4. RewindAlone'
  BY <1>1 DEF RoundsInv, RoundsTyped, PlacesInStep, RewindAlone, PersisterIdle, Idle
<1>5. RoundsInOrder'
  BY <1>1 DEF RoundsInv, RoundsTyped, PlacesInStep, RoundsInOrder, Idle
<1>6. WritersInStep'
  BY <1>1, Rounds DEF RoundsInv, RoundsTyped, PlacesInStep, WritersInStep, ShardWritten, Idle
<1>7. SyncersInStep'
  BY <1>1, Rounds DEF RoundsInv, RoundsTyped, PlacesInStep, WritersInStep, SyncersInStep, ShardSynced,
                      ShardWritten, Idle
<1>8. BooksInStep'
  BY <1>1, Rounds DEF RoundsInv, RoundsTyped, PlacesInStep, WritersInStep, SyncersInStep, BooksInStep,
                      ShardSynced, BookWritten, Idle
<1> QED
  BY <1>2, <1>3, <1>4, <1>5, <1>6, <1>7, <1>8 DEF RoundsInv

LEMMA SyncShardStep ==
  ASSUME RoundsInv, StoresOrdered, NEW t \in {"phase2", "vm"}, NEW s \in Shard, SyncShard(t, s)
  PROVE  StoresOrdered' /\ RoundsInv'
<1> USE DEF Thread
<1>1. /\ at[t] = "sync" /\ s \in todo[t]
      /\ todo' = [todo EXCEPT ![t] = @ \ {s}]
      /\ synced_round' = [synced_round EXCEPT ![s] = shard_round[s]]
      /\ UNCHANGED <<shard_round, book_round, header_round, header_rows, round,
                     pending, block_map, proposal_base, last_committed, waiting>>
  BY DEF SyncShard, At, Done, DoneThen, vm_vars, book_vars, header_vars
<1>2. PICK place : at' = [at EXCEPT ![t] = place] /\
                     \/ place = "sync"
                     \/ place = "reload" /\ t = "vm" /\ todo[t] = {s}
                     \/ place = "handoff" /\ t = "phase2" /\ todo[t] = {s}
  <2>1. at = [at EXCEPT ![t] = "sync"]
    BY <1>1 DEF RoundsInv, PlacesInStep
  <2> QED
    BY <2>1 DEF SyncShard, DoneThen
<1>3. synced_round[s] <= shard_round[s]
  BY DEF RoundsInv, RoundsInOrder
<1>4. StoresOrdered'
  <2>1. \A x \in Shard : synced_round[x] <= synced_round'[x]
    BY <1>1, <1>3, Rounds DEF RoundsInv, RoundsTyped
  <2>2. \A x \in Shard : synced_round[x] \in Nat /\ synced_round'[x] \in Nat
    BY <1>1, Rounds DEF RoundsInv, RoundsTyped
  <2>3. \A b \in Book, x \in Shard : book_round[b] <= synced_round'[x]
    BY <2>1, <2>2, Rounds DEF StoresOrdered
  <2> QED
    BY <1>1, <2>3 DEF StoresOrdered
<1>5. RoundsTyped' /\ PlacesInStep'
  BY <1>1, <1>2 DEF RoundsInv, RoundsTyped, PlacesInStep, Place
<1>6. RewindAlone'
  BY <1>1, <1>2 DEF RoundsInv, RoundsTyped, PlacesInStep, RewindAlone, PersisterIdle, Idle
<1>7. RoundsInOrder'
  BY <1>1, <1>2, Rounds DEF RoundsInv, RoundsTyped, PlacesInStep, RoundsInOrder, Idle
<1>8. WritersInStep'
  BY <1>1, <1>2 DEF RoundsInv, RoundsTyped, PlacesInStep, WritersInStep, ShardWritten, Idle
<1>9. SyncersInStep'
  <2>1. round[t] <= shard_round[s]
    <3>1. CASE t = "phase2"
      BY <1>1, <3>1 DEF RoundsInv, SyncersInStep, Idle
    <3>2. CASE t = "vm"
      BY <1>1, <3>2, Rounds DEF RoundsInv, WritersInStep, ShardWritten, Idle
    <3> QED
      BY <3>1, <3>2
  <2>2. \A x \in Shard : synced_round'[x] = IF x = s THEN shard_round[s] ELSE synced_round[x]
    BY <1>1 DEF RoundsInv, RoundsTyped
  <2>3. \A x \in Shard : ShardSynced(t, x)' => x = s \/ ShardSynced(t, x)
    BY <1>1, <1>2 DEF RoundsInv, RoundsTyped, PlacesInStep, ShardSynced
  <2>4. \A x \in Shard : ShardSynced(t, x) => round[t] <= synced_round[x]
    BY <1>1 DEF RoundsInv, SyncersInStep, Idle
  <2>5. \A x \in Shard : ShardSynced(t, x)' => round[t] <= synced_round'[x]
    BY <2>1, <2>2, <2>3, <2>4
  <2>6. \A u \in {"phase2", "vm"} : u # t => Idle(u)'
    BY <1>1, <1>2 DEF RoundsInv, PlacesInStep, RewindAlone, PersisterIdle, Idle
  <2>7. ~Idle("phase2")' => t = "phase2"
    BY <2>6
  <2>8. ~Idle("vm")' => t = "vm"
    BY <2>6
  <2>9. ~Idle("phase2")' => ~Idle("phase2")
    BY <1>1, <2>7 DEF Idle
  <2> QED
    BY <1>1, <2>5, <2>7, <2>8, <2>9 DEF RoundsInv, SyncersInStep
<1>10. BooksInStep'
  BY <1>1, <1>2, <1>3, Rounds DEF RoundsInv, RoundsTyped, PlacesInStep, BooksInStep, BookWritten, Idle
<1> QED
  BY <1>4, <1>5, <1>6, <1>7, <1>8, <1>9, <1>10 DEF RoundsInv

\* A rewind goes on after it has reloaded the accounts and undone the books.
LEMMA RewindMoves ==
  ASSUME RoundsInv, StoresOrdered, Reload \/ RollbackBooks
  PROVE  StoresOrdered' /\ (NoException' => RoundsInv')
<1> USE DEF Thread
<1>1. UNCHANGED <<shard_round, synced_round, book_round, header_round, header_rows, round,
                  pending, block_map, proposal_base, last_committed, waiting>>
  BY DEF Reload, RollbackBooks, vm_vars, lmdb_vars, header_vars, book_vars
<1>2. StoresOrdered'
  BY <1>1, StoresKept
<1> SUFFICES ASSUME NoException' PROVE RoundsInv'
  BY <1>2
<1>3. PICK place : at' = [at EXCEPT !["vm"] = place] /\
                     \/ at["vm"] = "reload" /\ place = "books" /\ todo' = [todo EXCEPT !["vm"] = Book]
                     \/ at["vm"] = "rollback_books" /\ place = "headers" /\ UNCHANGED todo
  BY DEF Reload, RollbackBooks, At, Move, Fault, NoException
<1>4. RoundsTyped' /\ PlacesInStep'
  BY <1>1, <1>3 DEF RoundsInv, RoundsTyped, PlacesInStep, Place
<1>5. RewindAlone' /\ RoundsInOrder'
  BY <1>1, <1>3 DEF RoundsInv, RoundsTyped, PlacesInStep, RewindAlone, RoundsInOrder, PersisterIdle, Idle
<1>6. WritersInStep'
  BY <1>1, <1>3 DEF RoundsInv, RoundsTyped, PlacesInStep, WritersInStep, ShardWritten, Idle
<1>7. SyncersInStep' /\ BooksInStep'
  BY <1>1, <1>3 DEF RoundsInv, RoundsTyped, PlacesInStep, SyncersInStep, BooksInStep, ShardSynced,
                    BookWritten, Idle
<1> QED
  BY <1>4, <1>5, <1>6, <1>7 DEF RoundsInv

LEMMA PersistBookStep ==
  ASSUME RoundsInv, StoresOrdered, NEW t \in {"phase3", "vm"}, PersistBook(t)
  PROVE  StoresOrdered' /\ (NoException' => RoundsInv')
<1> USE DEF Thread
<1>1. PICK b : b = Min(todo[t])
  OBVIOUS
<1>2. /\ at[t] = "books"
      /\ todo' = [todo EXCEPT ![t] = @ \ {b}]
      /\ UNCHANGED <<shard_round, synced_round, header_round, header_rows, round,
                     pending, block_map, proposal_base, last_committed, waiting>>
  BY <1>1 DEF PersistBook, At, Done, DoneThen, vm_vars, lmdb_vars, header_vars
<1>3. \/ book_round' = book_round /\ ~NoException'
      \/ book_round' = [book_round EXCEPT ![b] = round[t]]
  BY <1>1 DEF PersistBook, Fault, NoException
<1>4. PICK place : at' = [at EXCEPT ![t] = place] /\
                     \/ place = "books"
                     \/ place = "rollback_books" /\ t = "vm" /\ todo[t] = {b}
                     \/ place = "headers" /\ t = "phase3" /\ todo[t] = {b}
  <2>1. at = [at EXCEPT ![t] = "books"]
    BY <1>2 DEF RoundsInv, PlacesInStep
  <2> QED
    BY <1>1, <2>1 DEF PersistBook, DoneThen
<1>5. /\ \A x \in Book : book_round[x] <= round[t]
      /\ \A s \in Shard : round[t] <= synced_round[s]
      /\ round[t] <= last_committed
  BY <1>2 DEF RoundsInv, WritersInStep, SyncersInStep, BooksInStep, RoundsInOrder, ShardSynced, Idle
<1>6. /\ book_round' \in [Book -> Nat]
      /\ \A x \in Book : book_round'[x] = book_round[x] \/ book_round'[x] = round[t]
  BY <1>3, Rounds DEF RoundsInv, RoundsTyped
<1>7. \A x \in Book : book_round[x] <= book_round'[x] /\ book_round'[x] <= round[t]
  BY <1>5, <1>6, Rounds
<1>8. StoresOrdered'
  <2>1. \A x \in Book, s \in Shard : book_round'[x] <= synced_round[s]
    BY <1>5, <1>6 DEF StoresOrdered
  <2>2. \A x \in Book : header_round <= book_round'[x]
    BY <1>6, <1>7, Rounds DEF StoresOrdered
  <2> QED
    BY <1>2, <2>1, <2>2 DEF StoresOrdered
<1> SUFFICES ASSUME NoException' PROVE RoundsInv'
  BY <1>8
<1>9. RoundsTyped' /\ PlacesInStep'
  BY <1>2, <1>4, <1>6 DEF RoundsInv, RoundsTyped, PlacesInStep, Place
<1>10. RewindAlone'
  BY <1>2, <1>4 DEF RoundsInv, RoundsTyped, PlacesInStep, RewindAlone, PersisterIdle, Idle
<1>11. RoundsInOrder'
  <2>1. \A x \in Book : book_round'[x] <= last_committed
    BY <1>5, <1>6 DEF RoundsInv, RoundsInOrder
  <2> QED
    BY <1>2, <1>4, <2>1 DEF RoundsInv, RoundsTyped, PlacesInStep, RoundsInOrder, Idle
<1>12. WritersInStep'
  <2>1. \A u \in {"phase1", "vm"} : ~Idle(u) => \A x \in Book : book_round'[x] <= round[u]
    <3>1. ~Idle("phase1") => t = "phase3" /\ round[t] <= round["phase1"]
      BY <1>2 DEF RoundsInv, RewindAlone, RoundsInOrder, PersisterIdle, Idle
    <3>2. ~Idle("vm") => round[t] <= round["vm"]
      BY <1>2, Rounds DEF RoundsInv, RewindAlone, PersisterIdle, Idle
    <3> QED
      BY <1>6, <3>1, <3>2 DEF RoundsInv, WritersInStep
  <2> QED
    BY <1>2, <1>4, <2>1 DEF RoundsInv, RoundsTyped, PlacesInStep, WritersInStep, ShardWritten, Idle
<1>13. SyncersInStep'
  <2>1. ~Idle("phase2") => \A x \in Book : book_round'[x] <= round["phase2"]
    <3>1. ~Idle("phase2") => t = "phase3" /\ round[t] <= round["phase2"]
      BY <1>2 DEF RoundsInv, RewindAlone, RoundsInOrder, PersisterIdle, Idle
    <3> QED
      BY <1>6, <3>1 DEF RoundsInv, SyncersInStep
  <2> QED
    BY <1>2, <1>4, <2>1 DEF RoundsInv, RoundsTyped, PlacesInStep, SyncersInStep, ShardSynced, Idle
<1>14. BooksInStep'
  <2>1. ~Idle("phase3") => \A x \in Book : book_round'[x] <= round["phase3"]
    <3>1. ~Idle("phase3") => t = "phase3"
      BY <1>2 DEF RoundsInv, RewindAlone, PersisterIdle, Idle
    <3> QED
      BY <1>7, <3>1
  <2>2. \A x \in Book : BookWritten(t, x)' => book_round'[x] = round[t]
    <3>1. \A x \in Book : BookWritten(t, x)' => x \notin todo[t] \/ x = b
      BY <1>2, <1>4 DEF RoundsInv, RoundsTyped, PlacesInStep, BookWritten
    <3>2. \A x \in Book : x \notin todo[t] => book_round[x] = round[t]
      BY <1>2 DEF RoundsInv, BooksInStep, BookWritten, Idle
    <3>3. b \in Book => book_round'[b] = round[t]
      BY <1>3 DEF RoundsInv, RoundsTyped
    <3> QED
      BY <1>6, <3>1, <3>2, <3>3
  <2>3. \A u \in {"phase3", "vm"} : u # t => ~(~Idle(u))'
    BY <1>2, <1>4 DEF RoundsInv, PlacesInStep, RewindAlone, PersisterIdle, Idle
  <2> QED
    BY <1>2, <1>4, <2>1, <2>2, <2>3 DEF RoundsInv, RoundsTyped, PlacesInStep, BooksInStep, Idle
<1> QED
  BY <1>9, <1>10, <1>11, <1>12, <1>13, <1>14 DEF RoundsInv

LEMMA PersistHeadersStep ==
  ASSUME RoundsInv, StoresOrdered, NEW t \in {"phase3", "vm"}, PersistHeaders(t)
  PROVE  StoresOrdered' /\ (NoException' => RoundsInv')
<1> USE DEF Thread
<1>1. /\ at[t] = "headers"
      /\ UNCHANGED <<shard_round, synced_round, book_round, round, todo,
                     pending, block_map, proposal_base, last_committed, waiting>>
  BY DEF PersistHeaders, At, vm_vars, lmdb_vars, book_vars
<1>2. PICK place : /\ at' = [at EXCEPT ![t] = place]
                   /\ place = IF t = "vm" THEN "rollback_headers" ELSE "idle"
  BY DEF PersistHeaders, Move
<1>3. \A b \in Book : book_round[b] = round[t]
  BY <1>1 DEF RoundsInv, BooksInStep, BookWritten, Idle
<1>4. header_round <= round[t] /\ header_round \in Nat /\ round[t] \in Nat
  <2>1. 1 \in Book
    BY VMAssumption DEF Book
  <2> QED
    BY <1>3, <2>1, Rounds DEF StoresOrdered
<1>5. StoresOrdered' /\ header_round' \in Nat
  <2>1. CASE header_round' = header_round /\ header_rows' = header_rows
    BY <1>1, <1>4, <2>1 DEF StoresOrdered
  <2>2. CASE /\ header_rows' =
                  [i \in DOMAIN header_rows \cup RowsWritten(round[t]) |->
                     IF i \in RowsWritten(round[t]) THEN block_map[i] ELSE header_rows[i]]
             /\ header_round' = round[t]
    <3>1. DOMAIN header_rows = 1..header_round
      BY DEF StoresOrdered
    <3>2. (1..header_round) \cup ((header_round..round[t]) \ {0}) = 1..round[t]
      BY <1>4
    <3>3. DOMAIN header_rows' = 1..round[t]
      BY <2>2, <3>1, <3>2 DEF RowsWritten
    <3>4. \A i \in 1..round[t] : header_rows'[i] = block_map[i]
      BY <2>2, <3>1, <3>2 DEF StoresOrdered, RowsWritten
    <3>5. \A b \in Book : round[t] <= book_round[b]
      BY <1>3, <1>4
    <3> QED
      BY <1>1, <1>4, <2>2, <3>3, <3>4, <3>5 DEF StoresOrdered
  <2> QED
    BY <2>1, <2>2 DEF PersistHeaders
<1> SUFFICES ASSUME NoException' PROVE RoundsInv'
  BY <1>5
<1>6. RoundsTyped' /\ PlacesInStep'
  BY <1>1, <1>2, <1>5 DEF RoundsInv, RoundsTyped, PlacesInStep, Place
<1>7. RewindAlone' /\ RoundsInOrder'
  BY <1>1, <1>2 DEF RoundsInv, RoundsTyped, PlacesInStep, RewindAlone, RoundsInOrder, PersisterIdle, Idle
<1>8. WritersInStep'
  BY <1>1, <1>2 DEF RoundsInv, RoundsTyped, PlacesInStep, WritersInStep, ShardWritten, Idle
<1>9. SyncersInStep' /\ BooksInStep'
  BY <1>1, <1>2 DEF RoundsInv, RoundsTyped, PlacesInStep, SyncersInStep, BooksInStep, ShardSynced,
                    BookWritten, Idle
<1> QED
  BY <1>6, <1>7, <1>8, <1>9 DEF RoundsInv

LEMMA RollbackHeadersStep ==
  ASSUME RoundsInv, StoresOrdered, RollbackHeaders
  PROVE  StoresOrdered' /\ (NoException' => RoundsInv')
<1> USE DEF Thread
<1>1. /\ at["vm"] = "rollback_headers" /\ at' = [at EXCEPT !["vm"] = "idle"]
      /\ proposal_base' = last_committed /\ pending' = <<>>
      /\ UNCHANGED <<shard_round, synced_round, book_round, header_round, header_rows, round, todo,
                     last_committed, waiting>>
  BY DEF RollbackHeaders, At, Move, lmdb_vars, book_vars
<1>2. /\ round["vm"] = last_committed /\ waiting = 0 /\ PersisterIdle
      /\ last_committed \in Nat /\ last_committed <= Len(block_map) /\ block_map \in Seq(BOOLEAN)
  BY <1>1 DEF RoundsInv, RewindAlone, RoundsTyped, Idle
<1>3. \/ block_map' = block_map /\ ~NoException'
      \/ block_map' = SubSeq(block_map, 1, last_committed)
  BY <1>2 DEF RollbackHeaders, Fault, NoException
<1>4. \A i \in 1..header_round : block_map'[i] = block_map[i]
  BY <1>2, <1>3, HeadersBehind, Rounds
<1>5. StoresOrdered'
  BY <1>1, <1>4 DEF StoresOrdered
<1> SUFFICES ASSUME NoException' PROVE RoundsInv'
  BY <1>5
<1>6. block_map' \in Seq(BOOLEAN) /\ Len(block_map') = proposal_base'
  BY <1>1, <1>2, <1>3
<1>7. RoundsTyped' /\ PlacesInStep'
  BY <1>1, <1>2, <1>6 DEF RoundsInv, RoundsTyped, PlacesInStep, Place
<1>8. RewindAlone' /\ RoundsInOrder'
  BY <1>1, <1>2 DEF RoundsInv, RoundsTyped, PlacesInStep, RewindAlone, RoundsInOrder, PersisterIdle, Idle
<1>9. WritersInStep' /\ SyncersInStep' /\ BooksInStep'
  BY <1>1, <1>2 DEF RoundsInv, RoundsTyped, PlacesInStep, WritersInStep, SyncersInStep, BooksInStep,
                    PersisterIdle, Idle
<1> QED
  BY <1>7, <1>8, <1>9 DEF RoundsInv

-----------------------------------------------------------------------------
LEMMA OrderInductive ==
  ASSUME "rewind_race" \notin Allow
  PROVE  OrderInv /\ [Next]_vars => OrderInv'
<1> SUFFICES ASSUME OrderInv, [Next]_vars PROVE OrderInv'
  OBVIOUS
<1>1. CASE UNCHANGED vars
  <2>1. UNCHANGED <<shard_round, synced_round, book_round, header_round, header_rows, at, round, todo,
                    pending, block_map, proposal_base, last_committed, waiting, fault>>
    BY <1>1 DEF vars, vm_vars, lmdb_vars, book_vars, header_vars, thread_vars
  <2> QED
    BY <2>1, SMTT(30)
    DEF OrderInv, NoException, StoresOrdered, RoundsInv, RoundsTyped, PlacesInStep, RewindAlone,
        RoundsInOrder, WritersInStep, SyncersInStep, BooksInStep, ShardWritten, ShardSynced,
        BookWritten, PersisterIdle, Idle
<1>2. CASE Next
  <2>1. NoException
    BY <1>2
    DEF Next, Consensus, Persister, Rewind, NoException, Propose, ExecBlock, RefuseTxs, RefuseClearing,
        CanExec, ConfirmationFree, OperationFree, LogCommitment, BeginRewind, DoAsyncPersist, At,
        CollectThunks, StartWrite, WriteShard, FinishWrite, EraseCreationThunks, HandOff1, HandOff2,
        HandOff, SyncShard, PersistBook, PersistHeaders, Reload, RollbackBooks, RollbackHeaders
  <2>2. RoundsInv /\ StoresOrdered
    BY <2>1 DEF OrderInv
  <2>3. CASE Consensus
    <3>1. ASSUME NEW n \in 1..MaxBlock, LogCommitment(n) PROVE OrderInv'
      <4>1. n \in Nat
        BY VMAssumption
      <4> QED
        BY <2>2, <3>1, <4>1, LogCommitmentStep DEF OrderInv
    <3> QED
      BY <2>1, <2>2, <2>3, <3>1, ProposeStep, ExecSteps, BeginRewindStep DEF Consensus, OrderInv
  <2>4. CASE Persister
    BY <2>2, <2>4, DoAsyncPersistStep, WriterSteps, WriteShardStep, HandOffSteps, SyncShardStep,
       PersistBookStep, PersistHeadersStep DEF Persister, OrderInv
  <2>5. CASE Rewind
    BY <2>2, <2>5, WriterSteps, WriteShardStep, SyncShardStep, RewindMoves, PersistBookStep,
       PersistHeadersStep, RollbackHeadersStep DEF Rewind, OrderInv
  <2> QED
    BY <1>2, <2>3, <2>4, <2>5 DEF Next
<1> QED
  BY <1>1, <1>2

\* Whenever the power fails, the stores are in the order that reloading relies
\* on: no book ahead of a synced shard, no header ahead of a book, and exactly
\* the headers up to the persisted round (speedex_persistence.cc, the order of
\* the three phases and of rewind_structs_to_committed_height).  It needs that
\* no rewind starts while the persister is at work.
THEOREM StoresOrderedCorrect ==
  ASSUME "rewind_race" \notin Allow
  PROVE  Spec => []StoresOrdered
<1>1. OrderInv => StoresOrdered
  BY DEF OrderInv
<1> QED
  BY OrderStart, OrderInductive, <1>1, PTL DEF Spec

-----------------------------------------------------------------------------
(***************************************************************************)
(* What the stores hold, without the delicate inputs: Allow = {}.  The     *)
(* ledger is the reference.  Memory holds the ledger's last block or, once *)
(* a rewind has reloaded the accounts, the last committed one.             *)
(***************************************************************************)
Reloaded == at["vm"] \in {"books", "rollback_books", "headers", "rollback_headers"}
Base == IF Reloaded THEN last_committed ELSE proposal_base

\* An account that exists stays, and its value counts blocks.
LedgerTyped ==
  /\ ledger \in Seq([Account -> Value]) /\ Len(ledger) = proposal_base + 1
  /\ \A i \in 1..Len(ledger), a \in Account : ledger[i][a] < i
  /\ \A i, j \in 1..Len(ledger), a \in Account :
       i <= j /\ ledger[i][a] # Absent => ledger[j][a] # Absent

VMTyped ==
  /\ proposal_base <= MaxBlock /\ last_persisted \in 0..last_committed
  /\ executed \in BOOLEAN /\ lmdb_mtx \in {"none", "phase1", "vm"}
  /\ trie \in [Account -> Value] /\ stale \subseteq Account
  /\ shard_data \in [Account -> Value]

MemoryExact ==
  /\ committed = ledger[Base + 1] /\ available = ledger[Base + 1] /\ uncommitted_db = {}
  /\ ids = {a \in Account : ledger[Base + 1][a] # Absent}
  /\ \A a \in Account \ stale : trie[a] = committed[a]

\* The thunks ts are those of the blocks of the ledger L above lo up to hi:
\* they are in order, each has the values its block gave to the accounts it
\* changed, and a block without a thunk changed nothing.
DbThunk == [block : Round, kvs : UNION {[T -> Value] : T \in SUBSET Account}]
Ascending(ts) == \A i, j \in 1..Len(ts) : i < j => ts[i].block < ts[j].block
Values(L, th) ==
  \A a \in Account :
    L[th.block + 1][a] = IF a \in Keys(th) THEN th.kvs[a] ELSE L[th.block][a]
Log(L, ts, lo, hi) ==
  /\ Ascending(ts)
  /\ \A i \in 1..Len(ts) : ts[i].block \in (lo + 1)..hi /\ Values(L, ts[i])
  /\ \A m \in (lo + 1)..hi : \/ \E i \in 1..Len(ts) : ts[i].block = m
                             \/ L[m + 1] = L[m]

\* The thunks that shard s still needs are in persistence_thunks, except for
\* those that a writer has gathered.
Gathered(t) == at[t] \in {"write", "writing"}
Floor(s) == IF Gathered("phase1") THEN round["phase1"]
            ELSE IF Gathered("vm") THEN round["vm"] ELSE shard_round[s]
ThunksTyped == persistence_thunks \in Seq(DbThunk) /\ batch \in [Thread -> Seq(DbThunk)]
ThunksExact == \A s \in Shard : Log(ledger, persistence_thunks, Floor(s), Base)
BatchExact ==
  \A t \in {"phase1", "vm"}, s \in Shard :
    Gathered(t) /\ ~ShardWritten(t, s) => Log(ledger, batch[t], shard_round[s], round[t])

\* The published round follows the writers.
DbInStep ==
  /\ db_round \in Nat /\ db_round <= last_committed
  /\ \A t \in {"phase1", "vm"} :
       /\ ~Idle(t) => db_round <= round[t]
       /\ at[t] \in {"erase", "sync", "reload"} => db_round = round[t]

\* The thunks ts of accounts created in blocks of L up to hi; those above lo
\* have all the accounts created.
Creations(L, ts, hi) ==
  /\ Ascending(ts)
  /\ \A i \in 1..Len(ts) :
       /\ ts[i].block \in 1..hi
       /\ \A a \in ts[i].accounts : L[ts[i].block][a] = Absent
AllCreated(L, ts, lo, hi) ==
  \A m \in (lo + 1)..hi, a \in Account :
    L[m][a] = Absent /\ L[m + 1][a] # Absent =>
      \E i \in 1..Len(ts) : ts[i].block = m /\ a \in ts[i].accounts

\* The next block finds the creation thunk it expects, and there is one for
\* every account created and not committed.
Follows(ts, r, n) == IF ts = <<>> THEN r + 1 = n ELSE Last(ts).block + 1 = n
CreationExact ==
  /\ creation_thunks \in Seq(CreationThunk) /\ Creations(ledger, creation_thunks, Base)
  /\ AllCreated(ledger, creation_thunks, last_committed, Base)
  /\ Base = 0 \/ block_map[Base] => Follows(creation_thunks, db_round, Base + 1)
  /\ at["vm"] \in {"sync", "reload"} =>
       \A i \in 1..Len(creation_thunks) : creation_thunks[i].block > last_committed

\* A book has thunks only of blocks that it has not persisted, and whoever
\* persists the books has one to do.
BooksBehind ==
  /\ \A t \in {"phase3", "vm"} : at[t] = "books" => todo[t] # {} /\ todo[t] \subseteq Book
  /\ book_thunks \in [Book -> Seq([block : Nat])]
  /\ \A b \in Book : \A i \in 1..Len(book_thunks[b]) : book_thunks[b][i].block > book_round[b]

DataInv ==
  /\ VMTyped /\ LedgerTyped /\ MemoryExact /\ ThunksTyped /\ ThunksExact /\ BatchExact
  /\ ShardsExact /\ DbInStep /\ CreationExact /\ BooksBehind

VMInv == NoException /\ OrderInv /\ DataInv

-----------------------------------------------------------------------------
(* Thunks and the ledger.                                                  *)

\* A subsequence has the chosen thunks and no other, and keeps their order.
AreSelected(F, ts, I) ==
  /\ \A k \in 1..Len(F) : \E i \in I : F[k] = ts[i]
  /\ \A i \in I : \E k \in 1..Len(F) : F[k] = ts[i]
  /\ Ascending(ts) => Ascending(F)
  /\ Len(ts) \in I => F # <<>> /\ Last(F) = Last(ts)
LEMMA Filtered ==
  ASSUME NEW S, NEW ts \in Seq(S), NEW I \in SUBSET (1..Len(ts))
  PROVE  Selected(ts, I) \in Seq(S) /\ AreSelected(Selected(ts, I), ts, I)
<1>0. PICK F : F = Selected(ts, I)
  OBVIOUS
<1>1. /\ F \in Seq(S) /\ Cardinality(I) \in Nat /\ Len(F) = Cardinality(I)
      /\ \E e : Picks(e, I) /\ \A k \in 1..Cardinality(I) : F[k] = ts[e[k]]
  BY <1>0, SelectedElements
<1>2. PICK e : Picks(e, I) /\ \A k \in 1..Cardinality(I) : F[k] = ts[e[k]]
  BY <1>1
<1>3. /\ \A k \in 1..Len(F) : e[k] \in I /\ F[k] = ts[e[k]]
      /\ \A k, l \in 1..Len(F) : k < l => e[k] < e[l]
      /\ \A i \in I : \E k \in 1..Len(F) : e[k] = i
  BY <1>1, <1>2 DEF Picks
<1>4. \A k \in 1..Len(F) : \E i \in I : F[k] = ts[i]
  BY <1>3
<1>5. \A i \in I : \E k \in 1..Len(F) : F[k] = ts[i]
  BY <1>3
<1>6. ASSUME Ascending(ts) PROVE Ascending(F)
  <2>1. SUFFICES ASSUME NEW k \in 1..Len(F), NEW l \in 1..Len(F), k < l
                 PROVE  F[k].block < F[l].block
    BY DEF Ascending
  <2>2. e[k] \in 1..Len(ts) /\ e[l] \in 1..Len(ts)
    BY <1>3
  <2>3. e[k] < e[l]
    BY <1>3, <2>1
  <2>4. ts[e[k]].block < ts[e[l]].block
    BY <1>6, <2>2, <2>3 DEF Ascending
  <2>5. F[k] = ts[e[k]] /\ F[l] = ts[e[l]]
    BY <1>3
  <2> QED
    BY <2>4, <2>5
<1>7. ASSUME Len(ts) \in I PROVE F # <<>> /\ Last(F) = Last(ts)
  <2>1. PICK k \in 1..Len(F) : e[k] = Len(ts)
    BY <1>3, <1>7
  <2>2. Len(F) \in Nat /\ Len(F) \in 1..Len(F) /\ k <= Len(F)
    BY <1>1
  <2>3. e[Len(F)] \in 1..Len(ts)
    BY <1>3, <2>2
  <2>4. k = Len(F)
    <3>1. ~(k < Len(F))
      BY <1>3, <2>1, <2>2, <2>3
    <3> QED
      BY <2>2, <3>1
  <2>5. F[Len(F)] = ts[Len(ts)]
    BY <1>3, <2>1, <2>2, <2>4
  <2>6. F # <<>>
    BY <1>1, <2>2
  <2> QED
    BY <2>5, <2>6 DEF Last
<1>8. AreSelected(F, ts, I)
  BY <1>4, <1>5, <1>6, <1>7 DEF AreSelected
<1> QED
  BY <1>0, <1>1, <1>8

\* The thunks up to n, and those above it.
AreUpTo(F, ts, n) ==
  /\ \A k \in 1..Len(F) : \E i \in 1..Len(ts) : F[k] = ts[i] /\ ts[i].block <= n
  /\ \A i \in 1..Len(ts) : ts[i].block <= n => \E k \in 1..Len(F) : F[k] = ts[i]
  /\ Ascending(ts) => Ascending(F)
AreAbove(F, ts, n) ==
  /\ \A k \in 1..Len(F) : \E i \in 1..Len(ts) : F[k] = ts[i] /\ ts[i].block > n
  /\ \A i \in 1..Len(ts) : ts[i].block > n => \E k \in 1..Len(F) : F[k] = ts[i]
  /\ Ascending(ts) => Ascending(F)
  /\ ts # <<>> /\ Last(ts).block > n => F # <<>> /\ Last(F) = Last(ts)

LEMMA UpToThunks ==
  ASSUME NEW S, NEW ts \in Seq(S), NEW n
  PROVE  UpTo(ts, n) \in Seq(S) /\ AreUpTo(UpTo(ts, n), ts, n)
<1> DEFINE I == {i \in 1..Len(ts) : ts[i].block <= n}
<1>1. PICK F : F = UpTo(ts, n)
  OBVIOUS
<1>2. DOMAIN ts = 1..Len(ts)
  OBVIOUS
<1>3. F = Selected(ts, I)
  BY <1>1, <1>2 DEF UpTo
<1>4. I \in SUBSET (1..Len(ts))
  OBVIOUS
<1>5. F \in Seq(S) /\ AreSelected(F, ts, I)
  BY <1>3, <1>4, Filtered
<1>6. AreUpTo(F, ts, n)
  BY <1>5 DEF AreUpTo, AreSelected
<1> QED
  BY <1>1, <1>5, <1>6

LEMMA AboveThunks ==
  ASSUME NEW S, NEW ts \in Seq(S), NEW n
  PROVE  Above(ts, n) \in Seq(S) /\ AreAbove(Above(ts, n), ts, n)
<1> DEFINE I == {i \in 1..Len(ts) : ts[i].block > n}
<1>1. PICK F : F = Above(ts, n)
  OBVIOUS
<1>2. DOMAIN ts = 1..Len(ts)
  OBVIOUS
<1>3. F = Selected(ts, I)
  BY <1>1, <1>2 DEF Above
<1>4. I \in SUBSET (1..Len(ts))
  OBVIOUS
<1>5. F \in Seq(S) /\ AreSelected(F, ts, I)
  BY <1>3, <1>4, Filtered
<1>6. ts # <<>> /\ Last(ts).block > n => Len(ts) \in I
  BY DEF Last
<1>7. AreAbove(F, ts, n)
  BY <1>5, <1>6 DEF AreAbove, AreSelected
<1> QED
  BY <1>1, <1>5, <1>7

\* An account that no block changes keeps its value.
LEMMA NoChange ==
  ASSUME NEW L, NEW a \in Account, NEW lo \in Nat, NEW hi \in Nat, lo <= hi,
         \A m \in (lo + 1)..hi : L[m + 1][a] = L[m][a]
  PROVE  L[hi + 1][a] = L[lo + 1][a]
<1> DEFINE X == {m \in lo..hi : L[m + 1][a] # L[lo + 1][a]}
<1> SUFFICES ASSUME L[hi + 1][a] # L[lo + 1][a] PROVE FALSE
  OBVIOUS
<1>1. lo \notin X /\ hi \in X
  OBVIOUS
<1>2. PICK m \in (lo + 1)..hi : m \in X /\ m - 1 \notin X
  <2> HIDE DEF X
  <2> QED
    BY <1>1, FirstInside
<1>3. m - 1 \in lo..hi /\ (m - 1) + 1 = m
  OBVIOUS
<1>4. L[m][a] = L[lo + 1][a]
  BY <1>2, <1>3
<1> QED
  BY <1>2, <1>4

\* An account that did not exist and does was created by a block.
LEMMA WasCreated ==
  ASSUME NEW L, NEW a \in Account, NEW lo \in Nat, NEW hi \in Nat, lo <= hi,
         L[lo + 1][a] = Absent, L[hi + 1][a] # Absent
  PROVE  \E m \in (lo + 1)..hi : L[m][a] = Absent /\ L[m + 1][a] # Absent
<1> DEFINE X == {m \in lo..hi : L[m + 1][a] # Absent}
<1>1. lo \notin X /\ hi \in X
  OBVIOUS
<1>2. PICK m \in (lo + 1)..hi : m \in X /\ m - 1 \notin X
  <2> HIDE DEF X
  <2> QED
    BY <1>1, FirstInside
<1>3. m - 1 \in lo..hi /\ (m - 1) + 1 = m
  OBVIOUS
<1> QED
  BY <1>2, <1>3

\* The value of an account after the blocks of a log is that of the last thunk
\* that has the account.
LastValue(ts, a, old) ==
  LET with == {i \in DOMAIN ts : a \in Keys(ts[i])}
  IN  IF with = {} THEN old ELSE ts[Max(with)].kvs[a]
LEMMA LogValue ==
  ASSUME NEW L, NEW ts \in Seq(DbThunk), NEW lo \in Nat, NEW hi \in Nat, lo <= hi,
         Log(L, ts, lo, hi), NEW a \in Account
  PROVE  L[hi + 1][a] = LastValue(ts, a, L[lo + 1][a])
<1>a. PICK W : W = {i \in DOMAIN ts : a \in Keys(ts[i])}
  OBVIOUS
<1> SUFFICES L[hi + 1][a] = IF W = {} THEN L[lo + 1][a] ELSE ts[Max(W)].kvs[a]
  BY <1>a DEF LastValue
<1>0. W = {i \in 1..Len(ts) : a \in Keys(ts[i])}
  BY <1>a
<1>1. /\ \A i \in 1..Len(ts) : ts[i].block \in (lo + 1)..hi /\ Values(L, ts[i])
      /\ \A m \in (lo + 1)..hi : \/ \E i \in 1..Len(ts) : ts[i].block = m
                                 \/ L[m + 1] = L[m]
      /\ \A i, j \in 1..Len(ts) : i < j => ts[i].block < ts[j].block
  BY DEF Log, Ascending
<1>2. \A i \in 1..Len(ts) : /\ i \in W => L[ts[i].block + 1][a] = ts[i].kvs[a]
                            /\ i \notin W => L[ts[i].block + 1][a] = L[ts[i].block][a]
  BY <1>0, <1>1 DEF Values
<1>3. CASE W = {}
  <2>1. \A m \in (lo + 1)..hi : L[m + 1][a] = L[m][a]
    BY <1>1, <1>2, <1>3
  <2>2. L[hi + 1][a] = L[lo + 1][a]
    BY <2>1, NoChange
  <2> QED
    BY <1>3, <2>2
<1>4. CASE W # {}
  <2>1. Len(ts) \in Nat /\ W \in SUBSET (0..Len(ts))
    BY <1>0
  <2>2. Max(W) \in W /\ \A x \in W : x <= Max(W)
    BY <1>4, <2>1, GreatestElement
  <2>3. PICK k \in 1..Len(ts) : k = Max(W)
    BY <1>0, <2>2
  <2>4. PICK b \in (lo + 1)..hi : b = ts[k].block
    BY <1>1
  <2>5. ASSUME NEW m \in (b + 1)..hi PROVE L[m + 1][a] = L[m][a]
    <3>1. CASE L[m + 1] = L[m]
      BY <3>1
    <3>2. CASE \E i \in 1..Len(ts) : ts[i].block = m
      <4>1. PICK i \in 1..Len(ts) : ts[i].block = m
        BY <3>2
      <4>2. ~(i <= k)
        BY <1>1, <2>4, <4>1
      <4>3. i \notin W
        BY <2>2, <2>3, <4>2
      <4> QED
        BY <1>2, <4>1, <4>3
    <3>3. m \in (lo + 1)..hi
      OBVIOUS
    <3> QED
      BY <1>1, <3>1, <3>2, <3>3
  <2>6. L[hi + 1][a] = L[b + 1][a]
    <3>1. b \in Nat /\ b <= hi
      OBVIOUS
    <3> QED
      BY <2>5, <3>1, NoChange
  <2>7. L[b + 1][a] = ts[k].kvs[a]
    BY <1>2, <2>2, <2>3, <2>4
  <2> QED
    BY <1>4, <2>3, <2>6, <2>7
<1> QED
  BY <1>3, <1>4

\* A log is about the blocks up to hi only.
LEMMA LogAgree ==
  ASSUME NEW L, NEW M, NEW ts, NEW lo \in Nat, NEW hi \in Nat, Log(L, ts, lo, hi),
         \A i \in 1..hi + 1 : M[i] = L[i]
  PROVE  Log(M, ts, lo, hi)
<1>1. ASSUME NEW i \in 1..Len(ts) PROVE Values(M, ts[i])
  <2>1. ts[i].block \in (lo + 1)..hi /\ Values(L, ts[i])
    BY DEF Log
  <2>2. M[ts[i].block] = L[ts[i].block] /\ M[ts[i].block + 1] = L[ts[i].block + 1]
    BY <2>1
  <2> QED
    BY <2>1, <2>2 DEF Values
<1>2. \A m \in (lo + 1)..hi : M[m + 1] = L[m + 1] /\ M[m] = L[m]
  OBVIOUS
<1> QED
  BY <1>1, <1>2 DEF Log

\* A block more, without a thunk and with one.
LEMMA LogSame ==
  ASSUME NEW L, NEW ts, NEW lo \in Nat, NEW hi \in Nat, Log(L, ts, lo, hi),
         L[hi + 2] = L[hi + 1]
  PROVE  Log(L, ts, lo, hi + 1)
<1>1. \A m \in (lo + 1)..(hi + 1) : m \in (lo + 1)..hi \/ m = hi + 1
  OBVIOUS
<1>2. (hi + 1) + 1 = hi + 2
  OBVIOUS
<1>3. \A i \in 1..Len(ts) : ts[i].block \in (lo + 1)..(hi + 1) /\ Values(L, ts[i])
  BY DEF Log
<1>4. \A m \in (lo + 1)..(hi + 1) : \/ \E i \in 1..Len(ts) : ts[i].block = m
                                    \/ L[m + 1] = L[m]
  BY <1>1, <1>2 DEF Log
<1> QED
  BY <1>3, <1>4 DEF Log

LEMMA LogAppend ==
  ASSUME NEW L, NEW S, NEW ts \in Seq(S), NEW lo \in Nat, NEW hi \in Nat, lo <= hi, Log(L, ts, lo, hi),
         NEW th, th.block = hi + 1, Values(L, th)
  PROVE  Log(L, Append(ts, th), lo, hi + 1)
<1> DEFINE us == Append(ts, th)
<1>1. /\ Len(us) = Len(ts) + 1 /\ Len(ts) \in Nat /\ us[Len(ts) + 1] = th
      /\ \A i \in 1..Len(ts) : us[i] = ts[i]
  OBVIOUS
<1> HIDE DEF us
<1>2. \A i \in 1..Len(us) : i \in 1..Len(ts) \/ i = Len(ts) + 1
  BY <1>1
<1>3. \A i \in 1..Len(ts) : ts[i].block \in (lo + 1)..hi /\ Values(L, ts[i])
  BY DEF Log
<1>4. \A i \in 1..Len(us) : us[i].block \in (lo + 1)..(hi + 1) /\ Values(L, us[i])
  BY <1>1, <1>2, <1>3
<1>5. Ascending(us)
  <2>1. SUFFICES ASSUME NEW i \in 1..Len(us), NEW j \in 1..Len(us), i < j
                 PROVE  us[i].block < us[j].block
    BY DEF Ascending
  <2>2. i \in 1..Len(ts)
    BY <1>1, <2>1
  <2>3. CASE j \in 1..Len(ts)
    BY <1>1, <2>1, <2>2, <2>3 DEF Log, Ascending
  <2>4. CASE j = Len(ts) + 1
    BY <1>1, <1>3, <2>2, <2>4
  <2> QED
    BY <1>2, <2>3, <2>4
<1>6. \A m \in (lo + 1)..(hi + 1) : \/ \E i \in 1..Len(us) : us[i].block = m
                                    \/ L[m + 1] = L[m]
  <2>1. \A m \in (lo + 1)..hi : \/ \E i \in 1..Len(ts) : ts[i].block = m
                                \/ L[m + 1] = L[m]
    BY DEF Log
  <2>2. \A i \in 1..Len(ts) : i \in 1..Len(us)
    BY <1>1
  <2>3. Len(ts) + 1 \in 1..Len(us) /\ us[Len(ts) + 1].block = hi + 1
    BY <1>1
  <2>4. ASSUME NEW m \in (lo + 1)..(hi + 1)
        PROVE  \/ \E i \in 1..Len(us) : us[i].block = m
               \/ L[m + 1] = L[m]
    <3>1. CASE m = hi + 1
      BY <2>3, <3>1
    <3>2. CASE m \in (lo + 1)..hi
      BY <1>1, <2>1, <2>2, <3>2
    <3> QED
      BY <3>1, <3>2
  <2> QED
    BY <2>4
<1>7. Log(L, us, lo, hi + 1)
  BY <1>4, <1>5, <1>6 DEF Log
<1> QED
  BY <1>7 DEF us

\* A log is cut in two.
LEMMA LogCut ==
  ASSUME NEW L, NEW ts \in Seq(DbThunk), NEW lo \in Nat, NEW n \in Nat, NEW hi \in Nat,
         lo <= n, n <= hi, Log(L, ts, lo, hi)
  PROVE  Log(L, UpTo(ts, n), lo, n) /\ Log(L, Above(ts, n), n, hi)
<1>1. PICK F : F = UpTo(ts, n)
  OBVIOUS
<1>2. PICK G : G = Above(ts, n)
  OBVIOUS
<1>3. AreUpTo(F, ts, n)
  BY <1>1, UpToThunks
<1>4. AreAbove(G, ts, n)
  BY <1>2, AboveThunks
<1>5. /\ Ascending(ts)
      /\ \A i \in 1..Len(ts) : ts[i].block \in (lo + 1)..hi /\ Values(L, ts[i])
      /\ \A m \in (lo + 1)..hi : \/ \E i \in 1..Len(ts) : ts[i].block = m
                                 \/ L[m + 1] = L[m]
  BY DEF Log
<1>6. Log(L, F, lo, n)
  <2>1. ASSUME NEW k \in 1..Len(F) PROVE F[k].block \in (lo + 1)..n /\ Values(L, F[k])
    <3>1. PICK i \in 1..Len(ts) : F[k] = ts[i] /\ ts[i].block <= n
      BY <1>3 DEF AreUpTo
    <3> QED
      BY <1>5, <3>1
  <2>2. ASSUME NEW m \in (lo + 1)..n, L[m + 1] # L[m]
        PROVE  \E k \in 1..Len(F) : F[k].block = m
    <3>1. m \in (lo + 1)..hi /\ m <= n
      OBVIOUS
    <3>2. PICK i \in 1..Len(ts) : ts[i].block = m
      BY <1>5, <2>2, <3>1
    <3>3. PICK k \in 1..Len(F) : F[k] = ts[i]
      BY <1>3, <3>1, <3>2 DEF AreUpTo
    <3> QED
      BY <3>2, <3>3
  <2> QED
    BY <1>3, <1>5, <2>1, <2>2 DEF Log, AreUpTo
<1>7. Log(L, G, n, hi)
  <2>1. ASSUME NEW k \in 1..Len(G) PROVE G[k].block \in (n + 1)..hi /\ Values(L, G[k])
    <3>1. PICK i \in 1..Len(ts) : G[k] = ts[i] /\ ts[i].block > n
      BY <1>4 DEF AreAbove
    <3> QED
      BY <1>5, <3>1
  <2>2. ASSUME NEW m \in (n + 1)..hi, L[m + 1] # L[m]
        PROVE  \E k \in 1..Len(G) : G[k].block = m
    <3>1. m \in (lo + 1)..hi /\ m > n
      OBVIOUS
    <3>2. PICK i \in 1..Len(ts) : ts[i].block = m
      BY <1>5, <2>2, <3>1
    <3>3. PICK k \in 1..Len(G) : G[k] = ts[i]
      BY <1>4, <3>1, <3>2 DEF AreAbove
    <3> QED
      BY <3>2, <3>3
  <2> QED
    BY <1>4, <1>5, <2>1, <2>2 DEF Log, AreAbove
<1> QED
  BY <1>1, <1>2, <1>6, <1>7

\* Creation thunks are about the blocks up to hi only.
LEMMA CreationsAgree ==
  ASSUME NEW L, NEW M, NEW ts, NEW lo \in Nat, NEW hi \in Nat, NEW top \in Nat, hi <= top,
         \A i \in 1..hi + 1 : M[i] = L[i], Creations(L, ts, hi), AllCreated(L, ts, lo, hi),
         NEW low \in Nat, lo <= low
  PROVE  Creations(M, ts, top) /\ AllCreated(M, ts, low, hi)
<1>1. \A m \in 1..hi : M[m] = L[m] /\ M[m + 1] = L[m + 1]
  OBVIOUS
<1>2. Creations(M, ts, top)
  <2>1. /\ Ascending(ts)
        /\ \A i \in 1..Len(ts) : ts[i].block \in 1..hi /\ \A a \in ts[i].accounts : L[ts[i].block][a] = Absent
    BY DEF Creations
  <2>2. \A m \in 1..hi : m \in 1..top
    OBVIOUS
  <2>3. \A i \in 1..Len(ts) : ts[i].block \in 1..top /\ \A a \in ts[i].accounts : M[ts[i].block][a] = Absent
    BY <1>1, <2>1, <2>2
  <2> QED
    BY <2>1, <2>3 DEF Creations
<1>3. \A m \in (low + 1)..hi : m \in (lo + 1)..hi /\ m \in 1..hi
  OBVIOUS
<1>4. AllCreated(M, ts, low, hi)
  <2>1. SUFFICES ASSUME NEW m \in (low + 1)..hi, NEW a \in Account,
                        M[m][a] = Absent, M[m + 1][a] # Absent
                 PROVE  \E i \in 1..Len(ts) : ts[i].block = m /\ a \in ts[i].accounts
    BY DEF AllCreated
  <2>2. L[m][a] = Absent /\ L[m + 1][a] # Absent
    BY <1>1, <1>3, <2>1
  <2>3. m \in (lo + 1)..hi
    BY <1>3
  <2> QED
    BY <2>2, <2>3 DEF AllCreated
<1> QED
  BY <1>2, <1>4

\* The thunk of a block more.
LEMMA CreationsAppend ==
  ASSUME NEW L, NEW S, NEW ts \in Seq(S), NEW lo \in Nat, NEW hi \in Nat,
         Creations(L, ts, hi), AllCreated(L, ts, lo, hi),
         NEW th, th.block = hi + 1, \A a \in th.accounts : L[hi + 1][a] = Absent
  PROVE  /\ Creations(L, Append(ts, th), hi + 1)
         /\ (\A a \in Account : L[hi + 1][a] = Absent /\ L[hi + 2][a] # Absent => a \in th.accounts)
              => AllCreated(L, Append(ts, th), lo, hi + 1)
<1> DEFINE us == Append(ts, th)
<1>1. /\ Len(us) = Len(ts) + 1 /\ Len(ts) \in Nat /\ us[Len(ts) + 1] = th
      /\ \A i \in 1..Len(ts) : us[i] = ts[i]
  OBVIOUS
<1> HIDE DEF us
<1>2. \A i \in 1..Len(us) : i \in 1..Len(ts) \/ i = Len(ts) + 1
  BY <1>1
<1>3. \A i \in 1..Len(ts) : ts[i].block \in 1..hi /\ \A a \in ts[i].accounts : L[ts[i].block][a] = Absent
  BY DEF Creations
<1>4. \A i \in 1..Len(us) : us[i].block \in 1..hi + 1 /\ \A a \in us[i].accounts : L[us[i].block][a] = Absent
  <2>1. TAKE i \in 1..Len(us)
  <2>2. CASE i \in 1..Len(ts)
    BY <1>1, <1>3, <2>2
  <2>3. CASE i = Len(ts) + 1
    BY <1>1, <2>3
  <2> QED
    BY <1>2, <2>2, <2>3
<1>5. Ascending(us)
  <2>1. SUFFICES ASSUME NEW i \in 1..Len(us), NEW j \in 1..Len(us), i < j
                 PROVE  us[i].block < us[j].block
    BY DEF Ascending
  <2>2. i \in 1..Len(ts)
    BY <1>1, <2>1
  <2>3. CASE j \in 1..Len(ts)
    BY <1>1, <2>1, <2>2, <2>3 DEF Creations, Ascending
  <2>4. CASE j = Len(ts) + 1
    BY <1>1, <1>3, <2>2, <2>4
  <2> QED
    BY <1>2, <2>3, <2>4
<1>6. ASSUME \A a \in Account : L[hi + 1][a] = Absent /\ L[hi + 2][a] # Absent => a \in th.accounts
      PROVE  AllCreated(L, us, lo, hi + 1)
  <2>1. SUFFICES ASSUME NEW m \in (lo + 1)..(hi + 1), NEW a \in Account,
                        L[m][a] = Absent, L[m + 1][a] # Absent
                 PROVE  \E i \in 1..Len(us) : us[i].block = m /\ a \in us[i].accounts
    BY DEF AllCreated
  <2>2. CASE m = hi + 1
    <3>1. m + 1 = hi + 2
      BY <2>2
    <3>2. a \in th.accounts
      BY <1>6, <2>1, <2>2, <3>1
    <3>3. Len(ts) + 1 \in 1..Len(us)
      BY <1>1
    <3> QED
      BY <1>1, <2>2, <3>2, <3>3
  <2>3. CASE m \in (lo + 1)..hi
    <3>1. PICK i \in 1..Len(ts) : ts[i].block = m /\ a \in ts[i].accounts
      BY <2>1, <2>3 DEF AllCreated
    <3>2. i \in 1..Len(us)
      BY <1>1
    <3> QED
      BY <1>1, <3>1, <3>2
  <2> QED
    BY <2>2, <2>3
<1>7. Creations(L, us, hi + 1)
  BY <1>4, <1>5 DEF Creations
<1> QED
  BY <1>6, <1>7 DEF us

-----------------------------------------------------------------------------
(* The start.                                                              *)
LEMMA DataStart == Init => DataInv
<1> SUFFICES ASSUME Init PROVE DataInv
  OBVIOUS
<1> DEFINE first == [a \in Account |-> IF a \in Genesis THEN 0 ELSE Absent]
<1>1. MaxBlock \in Nat /\ Genesis \subseteq Account
  BY VMAssumption
<1>2. /\ first \in [Account -> Value] /\ Absent = -1
      /\ \A a \in Account : first[a] \in {0, -1} /\ (first[a] # Absent <=> a \in Genesis)
  BY <1>1 DEF Absent, Value
<1>3. /\ available = first /\ committed = first /\ trie = first /\ shard_data = first
      /\ ledger = <<first>> /\ ids = Genesis /\ uncommitted_db = {} /\ stale = {}
      /\ proposal_base = 0 /\ last_committed = 0 /\ last_persisted = 0 /\ executed = FALSE
      /\ lmdb_mtx = "none" /\ db_round = 0 /\ at = [t \in Thread |-> "idle"]
      /\ round = [t \in Thread |-> 0] /\ shard_round = [s \in Shard |-> 0]
      /\ creation_thunks = <<>> /\ persistence_thunks = <<>> /\ batch = [t \in Thread |-> <<>>]
      /\ book_thunks = [b \in Book |-> <<>>]
  BY DEF Init
<1> HIDE DEF first
<1>4. ledger[1] = first /\ Len(ledger) = 1 /\ Base = 0
  BY <1>3 DEF Base
<1>5. VMTyped
  <2>1. proposal_base <= MaxBlock /\ last_persisted \in 0..last_committed
    BY <1>1, <1>3
  <2>2. trie \in [Account -> Value] /\ shard_data \in [Account -> Value]
    BY <1>2, <1>3
  <2> QED
    BY <1>3, <2>1, <2>2 DEF VMTyped
<1>6. LedgerTyped
  BY <1>2, <1>3, <1>4 DEF LedgerTyped
<1>7. MemoryExact
  BY <1>1, <1>2, <1>3, <1>4 DEF MemoryExact
<1>8. ThunksTyped
  BY <1>3 DEF ThunksTyped
<1>9. ThunksExact /\ BatchExact
  <2>1. \A t \in {"phase1", "vm"} : ~Gathered(t)
    BY <1>3 DEF Gathered, Thread
  <2>2. \A s \in Shard : Floor(s) = 0
    BY <1>3, <2>1 DEF Floor
  <2> QED
    BY <1>3, <1>4, <2>1, <2>2 DEF ThunksExact, BatchExact, Log, Ascending
<1>10. ShardsExact
  BY <1>3, <1>4 DEF ShardsExact
<1>11. DbInStep
  BY <1>3 DEF DbInStep, Idle, Thread
<1>12. CreationExact
  BY <1>3, <1>4 DEF CreationExact, Creations, AllCreated, Ascending, Follows, Thread
<1>13. BooksBehind
  BY <1>3 DEF BooksBehind, Thread
<1> QED
  BY <1>5, <1>6, <1>7, <1>8, <1>9, <1>10, <1>11, <1>12, <1>13 DEF DataInv

-----------------------------------------------------------------------------
(* Blocks in memory.                                                       *)

\* What every step finds.
LEMMA Facts ==
  ASSUME VMInv
  PROVE  /\ RoundsInv /\ StoresOrdered /\ NoException
         /\ last_committed \in Nat /\ proposal_base \in Nat /\ MaxBlock \in Nat
         /\ last_committed <= proposal_base /\ proposal_base <= MaxBlock
         /\ block_map \in Seq(BOOLEAN) /\ Len(block_map) = proposal_base
         /\ ledger \in Seq([Account -> Value]) /\ Len(ledger) = proposal_base + 1
         /\ \A t \in Thread : round[t] \in Nat /\ round[t] <= last_committed
         /\ \A s \in Shard : shard_round[s] \in Nat /\ shard_round[s] <= last_committed
         /\ \A b \in Book : book_round[b] \in Nat /\ book_round[b] <= last_committed
BY VMAssumption DEF VMInv, OrderInv, RoundsInv, RoundsTyped, RoundsInOrder, DataInv, VMTyped, LedgerTyped

\* The block that is not after a refused one finds the thunk it expects, and
\* no block throws.
LEMMA NoThrow ==
  ASSUME VMInv, Allow = {}, Idle("vm"), CanCommitAccounts(proposal_base + 1)
  PROVE  ~BlockThrows(proposal_base + 1)
<1>1. Base = proposal_base
  BY DEF Idle, Base, Reloaded
<1>2. HeaderFollows(proposal_base + 1)
  BY Facts DEF HeaderFollows
<1>3. ThunkFollows(proposal_base + 1)
  <2>1. CASE AfterRefused(proposal_base + 1)
    BY <2>1 DEF CanCommitAccounts
  <2>2. CASE ~AfterRefused(proposal_base + 1)
    <3>1. (proposal_base + 1) - 1 = proposal_base /\ DOMAIN block_map = 1..proposal_base
      BY Facts
    <3>2. proposal_base = 0 \/ block_map[proposal_base]
      BY <2>2, <3>1, Facts DEF AfterRefused
    <3> QED
      BY <1>1, <3>2 DEF VMInv, DataInv, CreationExact, Follows, ThunkFollows
  <2> QED
    BY <2>1, <2>2
<1> QED
  BY <1>2, <1>3 DEF BlockThrows

\* The ledger grows by a block.
LEMMA LedgerGrows ==
  ASSUME VMInv, NEW new \in [Account -> Value], ledger' = Append(ledger, new),
         proposal_base' = proposal_base + 1,
         \A a \in Account : /\ new[a] < proposal_base + 2
                            /\ ledger[proposal_base + 1][a] # Absent => new[a] # Absent
  PROVE  /\ LedgerTyped' /\ ledger'[proposal_base + 2] = new
         /\ \A i \in 1..proposal_base + 1 : ledger'[i] = ledger[i]
<1>1. /\ ledger \in Seq([Account -> Value]) /\ Len(ledger) = proposal_base + 1 /\ proposal_base \in Nat
      /\ \A i \in 1..proposal_base + 1, a \in Account : ledger[i][a] < i
      /\ \A i, j \in 1..proposal_base + 1, a \in Account :
           i <= j /\ ledger[i][a] # Absent => ledger[j][a] # Absent
  BY Facts DEF VMInv, DataInv, LedgerTyped
<1>2. /\ ledger' \in Seq([Account -> Value]) /\ Len(ledger') = proposal_base + 2
      /\ ledger'[proposal_base + 2] = new
      /\ \A i \in 1..proposal_base + 1 : ledger'[i] = ledger[i]
  BY <1>1
<1>3. \A i \in 1..proposal_base + 2 : i \in 1..proposal_base + 1 \/ i = proposal_base + 2
  BY <1>1
<1>4. \A i \in 1..proposal_base + 2, a \in Account : ledger'[i][a] < i
  BY <1>1, <1>2, <1>3
<1>5. ASSUME NEW i \in 1..proposal_base + 2, NEW j \in 1..proposal_base + 2, NEW a \in Account,
             i <= j, ledger'[i][a] # Absent
      PROVE  ledger'[j][a] # Absent
  <2>1. CASE i = proposal_base + 2
    BY <1>1, <1>5, <2>1
  <2>2. CASE i \in 1..proposal_base + 1 /\ j \in 1..proposal_base + 1
    BY <1>1, <1>2, <1>5, <2>2
  <2>3. CASE i \in 1..proposal_base + 1 /\ j = proposal_base + 2
    <3>1. ledger[i][a] # Absent /\ proposal_base + 1 \in 1..proposal_base + 1 /\ i <= proposal_base + 1
      BY <1>1, <1>2, <1>5, <2>3
    <3>2. ledger[proposal_base + 1][a] # Absent
      BY <1>1, <2>3, <3>1
    <3> QED
      BY <1>2, <2>3, <3>2
  <2> QED
    BY <1>3, <2>1, <2>2, <2>3
<1> QED
  BY <1>1, <1>2, <1>4, <1>5 DEF LedgerTyped

\* What the persister has in hand and on disk is about earlier blocks.
LEMMA LaterBlock ==
  ASSUME VMInv, UNCHANGED <<shard_data, shard_round, db_round, at, round, todo, batch>>,
         last_committed' \in Nat, last_committed <= last_committed',
         \A i \in 1..proposal_base + 1 : ledger'[i] = ledger[i]
  PROVE  ShardsExact' /\ DbInStep' /\ BatchExact'
<1>1. ShardsExact'
  <2>1. \A s \in Shard : /\ shard_round[s] <= last_committed'
                         /\ shard_round[s] + 1 \in 1..proposal_base + 1
    BY Facts
  <2>2. \A s \in Shard : ledger'[shard_round[s] + 1] = ledger[shard_round[s] + 1]
    BY <2>1
  <2> QED
    BY <2>1, <2>2 DEF VMInv, DataInv, ShardsExact
<1>2. DbInStep'
  <2>1. db_round \in Nat /\ db_round <= last_committed /\ last_committed \in Nat
    BY Facts DEF VMInv, DataInv, DbInStep
  <2>2. db_round <= last_committed'
    BY <2>1
  <2> QED
    BY <2>1, <2>2 DEF VMInv, DataInv, DbInStep, Idle
<1>3. BatchExact'
  <2>1. SUFFICES ASSUME NEW t \in {"phase1", "vm"}, NEW s \in Shard, Gathered(t), ~ShardWritten(t, s)
                 PROVE  Log(ledger', batch[t], shard_round[s], round[t])
    BY DEF BatchExact, Gathered, ShardWritten
  <2>2. Log(ledger, batch[t], shard_round[s], round[t])
    BY <2>1 DEF VMInv, DataInv, BatchExact
  <2>3. round[t] \in Nat /\ shard_round[s] \in Nat /\ \A i \in 1..round[t] + 1 : i \in 1..proposal_base + 1
    BY Facts DEF Thread
  <2> QED
    BY <2>2, <2>3, LogAgree
<1> QED
  BY <1>1, <1>2, <1>3

\* The value of the accounts after a block.
LEMMA NewValues ==
  ASSUME VMInv, proposal_base < MaxBlock, NEW T \in SUBSET Account, NEW new,
         new = Changed(Lead, T)
  PROVE  /\ new \in [Account -> Value]
         /\ \A a \in Account :
              /\ a \notin T => new[a] = Lead[a]
              /\ new[a] < proposal_base + 2
              /\ new[a] # Absent <=> (a \in T \/ Lead[a] # Absent)
<1>1. /\ Lead \in [Account -> Value] /\ proposal_base \in Nat /\ MaxBlock \in Nat
      /\ \A a \in Account : Lead[a] < proposal_base + 1
  BY Facts DEF Lead, VMInv, DataInv, LedgerTyped
<1>2. ASSUME NEW a \in Account
      PROVE  /\ new[a] \in Value
             /\ a \notin T => new[a] = Lead[a]
             /\ new[a] < proposal_base + 2
             /\ new[a] # Absent <=> (a \in T \/ Lead[a] # Absent)
  <2>1. new[a] = IF a \notin T THEN Lead[a] ELSE IF Lead[a] = Absent THEN 1 ELSE Lead[a] + 1
    BY DEF Changed
  <2>2. Lead[a] \in {-1} \cup 0..MaxBlock /\ Lead[a] < proposal_base + 1
    BY <1>1 DEF Value, Absent
  <2> QED
    BY <1>1, <2>1, <2>2 DEF Value, Absent
<1>3. new = [a \in Account |-> new[a]]
  BY DEF Changed
<1> QED
  BY <1>2, <1>3

\* A block is accepted.
LEMMA AcceptedStep ==
  ASSUME VMInv, Idle("vm"), NEW T \in SUBSET Account, proposal_base < MaxBlock,
         CommitBlock(proposal_base + 1, T),
         proposal_base' = proposal_base + 1, last_committed' \in {last_committed, proposal_base + 1},
         last_persisted' = last_persisted, executed' \in BOOLEAN,
         UNCHANGED <<lmdb_vars, book_round, thread_vars>>
  PROVE  DataInv'
<1> DEFINE n == proposal_base + 1
           created == T \ ids
           new == Changed(Lead, T)
           thunk == [block |-> n, kvs |-> [a \in T |-> new[a]]]
<1>1. Base = proposal_base /\ Lead = ledger[Base + 1] /\ ~Reloaded
  BY DEF Idle, Base, Reloaded, Lead
<1>2. /\ committed = Lead /\ available = Lead /\ uncommitted_db = {}
      /\ ids = {a \in Account : Lead[a] # Absent}
      /\ \A a \in Account \ stale : trie[a] = committed[a]
  BY <1>1 DEF VMInv, DataInv, MemoryExact
<1>3. /\ available' = new /\ uncommitted_db' = {} /\ ids' = ids \cup created
      /\ committed' = [a \in Account |-> IF a \in T \cup created THEN new[a] ELSE committed[a]]
      /\ trie' = [a \in Account |-> IF a \in T \cup created THEN new[a] ELSE trie[a]]
      /\ creation_thunks' = Append(creation_thunks, [block |-> n, accounts |-> created])
      /\ persistence_thunks' = Append(persistence_thunks, thunk)
      /\ book_thunks' = [b \in Book |-> Append(book_thunks[b], [block |-> n])]
      /\ block_map' = Append(block_map, TRUE)
      /\ ledger' = Append(ledger, new)
      /\ stale' = stale \ T
  BY <1>2 DEF CommitBlock, TrieAfter, Rehashed, persist_critical_round_data, insert
<1>4. /\ UNCHANGED <<lmdb_mtx, db_round, shard_data, shard_round, at, round, todo, batch>>
      /\ Base' = n /\ ~Reloaded'
  BY <1>1 DEF lmdb_vars, thread_vars, Base, Reloaded
<1>5. /\ last_committed \in Nat /\ proposal_base \in Nat /\ MaxBlock \in Nat /\ last_committed <= proposal_base
      /\ block_map \in Seq(BOOLEAN) /\ Len(block_map) = proposal_base
  BY Facts
<1>6. /\ new \in [Account -> Value]
      /\ \A a \in Account : /\ a \notin T => new[a] = Lead[a]
                            /\ new[a] < proposal_base + 2
                            /\ new[a] # Absent <=> (a \in T \/ Lead[a] # Absent)
  BY NewValues
<1> HIDE DEF new
<1>7. /\ LedgerTyped' /\ ledger'[n + 1] = new
      /\ \A i \in 1..n : ledger'[i] = ledger[i]
  <2>1. n + 1 = proposal_base + 2
    BY <1>5
  <2>2. \A a \in Account : ledger[proposal_base + 1][a] # Absent => new[a] # Absent
    BY <1>6 DEF Lead
  <2> QED
    BY <1>3, <1>6, <2>1, <2>2, LedgerGrows
<1>8. VMTyped'
  <2>1. /\ last_persisted \in 0..last_committed /\ lmdb_mtx \in {"none", "phase1", "vm"}
        /\ trie \in [Account -> Value] /\ stale \subseteq Account /\ shard_data \in [Account -> Value]
    BY DEF VMInv, DataInv, VMTyped
  <2>2. trie' \in [Account -> Value] /\ stale' \subseteq Account
    BY <1>3, <1>6, <2>1
  <2>3. n <= MaxBlock /\ last_persisted \in 0..last_committed'
    BY <1>5, <2>1
  <2> QED
    BY <1>4, <2>1, <2>2, <2>3 DEF VMTyped
<1>9. MemoryExact'
  <2>1. committed' = new
    <3>1. \A a \in Account : committed'[a] = new[a]
      BY <1>2, <1>3, <1>6
    <3>2. committed' = [a \in Account |-> committed'[a]] /\ new = [a \in Account |-> new[a]]
      BY <1>3, <1>6
    <3> QED
      BY <3>1, <3>2
  <2>2. ids' = {a \in Account : new[a] # Absent}
    BY <1>2, <1>3, <1>6
  <2>3. ASSUME NEW a \in Account \ stale' PROVE trie'[a] = new[a]
    BY <1>2, <1>3, <1>6
  <2> QED
    BY <1>3, <1>4, <1>7, <2>1, <2>2, <2>3 DEF MemoryExact
<1>10. thunk \in DbThunk /\ Values(ledger', thunk)
  <2>1. [a \in T |-> new[a]] \in [T -> Value]
    BY <1>6
  <2>2. [a \in T |-> new[a]] \in UNION {[U -> Value] : U \in SUBSET Account}
    BY <2>1
  <2>3. n \in Round
    BY <1>5 DEF Round
  <2>4. thunk \in DbThunk
    BY <2>2, <2>3 DEF DbThunk
  <2>5. ledger'[n] = Lead /\ ledger'[n + 1] = new
    BY <1>5, <1>7 DEF Lead
  <2>6. Keys(thunk) = T /\ thunk.block = n /\ \A a \in T : thunk.kvs[a] = new[a]
    BY DEF Keys
  <2> HIDE DEF thunk
  <2>7. Values(ledger', thunk)
    BY <1>6, <2>5, <2>6 DEF Values
  <2> QED
    BY <2>4, <2>7
<1>11. ThunksTyped'
  BY <1>3, <1>4, <1>10 DEF VMInv, DataInv, ThunksTyped
<1>12. ThunksExact'
  <2>1. SUFFICES ASSUME NEW s \in Shard PROVE Log(ledger', persistence_thunks', Floor(s), n)
    BY <1>4 DEF ThunksExact, Floor, Gathered
  <2>2. Log(ledger, persistence_thunks, Floor(s), proposal_base)
    BY <1>1 DEF VMInv, DataInv, ThunksExact
  <2>3. Floor(s) \in Nat /\ Floor(s) <= proposal_base
    BY Facts DEF Floor, Thread
  <2>4. Log(ledger', persistence_thunks, Floor(s), proposal_base)
    BY <1>5, <1>7, <2>2, <2>3, LogAgree
  <2>5. persistence_thunks \in Seq(DbThunk) /\ thunk.block = n
    BY DEF VMInv, DataInv, ThunksTyped
  <2> HIDE DEF thunk
  <2> QED
    BY <1>3, <1>5, <1>10, <2>3, <2>4, <2>5, LogAppend
<1>13. ShardsExact' /\ DbInStep' /\ BatchExact'
  <2>1. last_committed' \in Nat /\ last_committed <= last_committed'
    BY <1>5
  <2> QED
    BY <1>4, <1>7, <2>1, LaterBlock
<1>14. CreationExact'
  <2> DEFINE th == [block |-> n, accounts |-> created]
  <2>1. /\ creation_thunks \in Seq(CreationThunk) /\ Creations(ledger, creation_thunks, proposal_base)
        /\ AllCreated(ledger, creation_thunks, last_committed, proposal_base)
    BY <1>1 DEF VMInv, DataInv, CreationExact
  <2>2. th \in CreationThunk
    BY <1>5 DEF CreationThunk, Round
  <2>3. /\ Creations(ledger', creation_thunks, proposal_base)
        /\ AllCreated(ledger', creation_thunks, last_committed, proposal_base)
    <3>1. last_committed <= last_committed /\ proposal_base <= proposal_base
      BY <1>5
    <3> QED
      BY <1>5, <1>7, <2>1, <3>1, CreationsAgree, Zenon
  <2>4. ledger'[n] = Lead /\ ledger'[proposal_base + 2] = new
    <3>1. n + 1 = proposal_base + 2 /\ n \in 1..n
      BY <1>5
    <3> QED
      BY <1>7, <3>1 DEF Lead
  <2>5. /\ \A a \in th.accounts : ledger'[proposal_base + 1][a] = Absent
        /\ \A a \in Account : ledger'[proposal_base + 1][a] = Absent
                              /\ ledger'[proposal_base + 2][a] # Absent => a \in th.accounts
    BY <1>2, <1>6, <2>4
  <2>6. th.block = proposal_base + 1
    OBVIOUS
  <2>7. creation_thunks' = Append(creation_thunks, th)
    BY <1>3
  <2> HIDE DEF th
  <2>8. Creations(ledger', creation_thunks', n) /\ AllCreated(ledger', creation_thunks', last_committed, n)
    BY <1>5, <2>1, <2>3, <2>5, <2>6, <2>7, CreationsAppend
  <2>9. AllCreated(ledger', creation_thunks', last_committed', n)
    BY <1>5, <2>8 DEF AllCreated
  <2>10. creation_thunks' \in Seq(CreationThunk) /\ creation_thunks' # <<>> /\ Last(creation_thunks').block = n
    BY <2>1, <2>2, <2>6, <2>7 DEF Last
  <2>11. Follows(creation_thunks', db_round', n + 1)
    BY <1>5, <2>10 DEF Follows
  <2>12. at'["vm"] = "idle"
    BY <1>4 DEF Idle
  <2> QED
    BY <1>4, <2>8, <2>9, <2>10, <2>11, <2>12 DEF CreationExact
<1>15. BooksBehind'
  <2>1. SUFFICES ASSUME NEW b \in Book
                 PROVE  /\ book_thunks'[b] \in Seq([block : Nat])
                        /\ \A i \in 1..Len(book_thunks'[b]) : book_thunks'[b][i].block > book_round[b]
    BY <1>3, <1>4 DEF VMInv, DataInv, BooksBehind
  <2>2. PICK ts : ts = book_thunks[b]
    OBVIOUS
  <2>3. ts \in Seq([block : Nat]) /\ \A i \in 1..Len(ts) : ts[i].block > book_round[b]
    BY <2>2 DEF VMInv, DataInv, BooksBehind
  <2>4. book_thunks'[b] = Append(ts, [block |-> n])
    BY <1>3, <2>2
  <2>5. book_round[b] < n /\ n \in Nat
    BY Facts
  <2> HIDE DEF n
  <2>6. [block |-> n] \in [block : Nat] /\ [block |-> n].block = n
    BY <2>5
  <2> QED
    BY <2>3, <2>4, <2>5, <2>6
<1> QED
  BY <1>7, <1>8, <1>9, <1>11, <1>12, <1>13, <1>14, <1>15 DEF DataInv

\* A block is refused: it changes nothing.
LEMMA RefusedStep ==
  ASSUME VMInv, Idle("vm"), proposal_base < MaxBlock, ledger' = Append(ledger, Lead),
         proposal_base' = proposal_base + 1, last_committed' = proposal_base + 1,
         last_persisted' = last_persisted, executed' \in BOOLEAN,
         block_map' = Append(block_map, FALSE),
         \/ creation_thunks' = creation_thunks
         \/ creation_thunks' = Append(creation_thunks, [block |-> proposal_base + 1, accounts |-> {}]),
         UNCHANGED <<value_vars, persistence_thunks, lmdb_vars, book_vars, thread_vars, stale>>
  PROVE  DataInv'
<1> DEFINE n == proposal_base + 1
<1>1. Base = proposal_base /\ Lead = ledger[Base + 1] /\ ~Reloaded
  BY DEF Idle, Base, Reloaded, Lead
<1>2. /\ UNCHANGED <<lmdb_mtx, db_round, shard_data, shard_round, at, round, todo, batch,
                     ids, available, committed, trie, uncommitted_db, book_thunks, book_round>>
      /\ Base' = n /\ ~Reloaded'
  BY <1>1 DEF lmdb_vars, thread_vars, book_vars, value_vars, Base, Reloaded
<1>3. /\ last_committed \in Nat /\ proposal_base \in Nat /\ MaxBlock \in Nat /\ last_committed <= proposal_base
      /\ block_map \in Seq(BOOLEAN) /\ Len(block_map) = proposal_base
      /\ ledger \in Seq([Account -> Value]) /\ Len(ledger) = n
  BY Facts
<1>4. Lead \in [Account -> Value] /\ \A a \in Account : Lead[a] < proposal_base + 2
  <2>1. /\ Lead \in [Account -> Value]
        /\ \A a \in Account : Lead[a] < proposal_base + 1
    BY <1>3 DEF Lead, VMInv, DataInv, LedgerTyped
  <2>2. \A a \in Account : Lead[a] \in Int
    BY <1>3, <2>1 DEF Value, Absent
  <2> QED
    BY <1>3, <2>1, <2>2
<1>5. /\ LedgerTyped' /\ ledger'[n + 1] = Lead
      /\ \A i \in 1..n : ledger'[i] = ledger[i]
  <2>1. n + 1 = proposal_base + 2
    BY <1>3
  <2>2. \A a \in Account : ledger[proposal_base + 1][a] # Absent => Lead[a] # Absent
    BY DEF Lead
  <2> QED
    BY <1>4, <2>1, <2>2, LedgerGrows
<1>6. VMTyped'
  <2>1. /\ last_persisted \in 0..last_committed /\ lmdb_mtx \in {"none", "phase1", "vm"}
        /\ trie \in [Account -> Value] /\ stale \subseteq Account /\ shard_data \in [Account -> Value]
    BY DEF VMInv, DataInv, VMTyped
  <2>2. n <= MaxBlock /\ last_persisted \in 0..n
    BY <1>3, <2>1
  <2> QED
    BY <1>2, <2>1, <2>2 DEF VMTyped
<1>7. MemoryExact'
  BY <1>1, <1>2, <1>5 DEF VMInv, DataInv, MemoryExact
<1>8. ThunksTyped'
  BY <1>2 DEF VMInv, DataInv, ThunksTyped
<1>9. ThunksExact'
  <2>1. SUFFICES ASSUME NEW s \in Shard PROVE Log(ledger', persistence_thunks, Floor(s), n)
    BY <1>2 DEF ThunksExact, Floor, Gathered
  <2>2. Log(ledger, persistence_thunks, Floor(s), proposal_base)
    BY <1>1 DEF VMInv, DataInv, ThunksExact
  <2>3. Floor(s) \in Nat
    BY Facts DEF Floor, Thread
  <2>4. Log(ledger', persistence_thunks, Floor(s), proposal_base)
    BY <1>3, <1>5, <2>2, <2>3, LogAgree
  <2>5. ledger'[proposal_base + 2] = ledger'[proposal_base + 1]
    <3>1. n + 1 = proposal_base + 2 /\ n \in 1..n
      BY <1>3
    <3> QED
      BY <1>5, <3>1 DEF Lead
  <2> QED
    BY <1>3, <2>3, <2>4, <2>5, LogSame
<1>10. ShardsExact' /\ DbInStep' /\ BatchExact'
  <2>1. last_committed' \in Nat /\ last_committed <= last_committed'
    BY <1>3
  <2> QED
    BY <1>2, <1>5, <2>1, LaterBlock
<1>11. CreationExact'
  <2>1. /\ creation_thunks \in Seq(CreationThunk) /\ Creations(ledger, creation_thunks, proposal_base)
        /\ AllCreated(ledger, creation_thunks, last_committed, proposal_base)
    BY <1>1 DEF VMInv, DataInv, CreationExact
  <2>2. /\ n \in Nat /\ proposal_base <= n /\ proposal_base <= proposal_base
        /\ last_committed <= last_committed
    BY <1>3
  <2>3. /\ Creations(ledger', creation_thunks, n)
        /\ Creations(ledger', creation_thunks, proposal_base)
        /\ AllCreated(ledger', creation_thunks, last_committed, proposal_base)
    <3> HIDE DEF n
    <3>1. \A i \in 1..proposal_base + 1 : ledger'[i] = ledger[i]
      BY <1>5 DEF n
    <3> QED
      BY <1>3, <2>1, <2>2, <3>1, CreationsAgree, Zenon
  <2>4. creation_thunks' \in Seq(CreationThunk) /\ Creations(ledger', creation_thunks', n)
    <3>1. CASE creation_thunks' = creation_thunks
      BY <2>1, <2>3, <3>1
    <3>2. CASE creation_thunks' = Append(creation_thunks, [block |-> n, accounts |-> {}])
      <4> DEFINE th == [block |-> n, accounts |-> {}]
      <4>1. th \in CreationThunk /\ th.block = proposal_base + 1 /\ th.accounts = {}
        BY <1>3 DEF CreationThunk, Round
      <4>2. creation_thunks' = Append(creation_thunks, th)
        BY <3>2
      <4> HIDE DEF th
      <4>3. Creations(ledger', creation_thunks', n)
        BY <1>3, <2>1, <2>3, <4>1, <4>2, CreationsAppend
      <4> QED
        BY <2>1, <4>1, <4>2, <4>3
    <3> QED
      BY <3>1, <3>2
  <2>5. AllCreated(ledger', creation_thunks', n, n)
    BY <1>3 DEF AllCreated
  <2>6. n # 0 /\ ~block_map'[n]
    BY <1>3
  <2>7. at'["vm"] = "idle"
    BY <1>2 DEF Idle
  <2> QED
    BY <1>2, <2>4, <2>5, <2>6, <2>7 DEF CreationExact
<1>12. BooksBehind'
  BY <1>2 DEF VMInv, DataInv, BooksBehind
<1> QED
  BY <1>5, <1>6, <1>7, <1>8, <1>9, <1>10, <1>11, <1>12 DEF DataInv

\* Proposals and executed blocks.
LEMMA ProposeData ==
  ASSUME VMInv, Allow = {}, NEW T \in SUBSET Account, Propose(T)
  PROVE  NoException' /\ DataInv'
<1>1. Idle("vm") /\ NoException /\ proposal_base + 1 <= MaxBlock /\ CanCommitAccounts(proposal_base + 1)
  BY DEF Propose, OperationFree, NoException
<1>2. ~BlockThrows(proposal_base + 1)
  BY <1>1, NoThrow
<1>3. /\ CommitBlock(proposal_base + 1, T) /\ proposal_base' = proposal_base + 1
      /\ UNCHANGED <<last_committed, last_persisted, executed, lmdb_vars, book_round, thread_vars, fault>>
  BY <1>2 DEF Propose
<1>4. proposal_base < MaxBlock /\ executed \in BOOLEAN
  BY <1>1, Facts DEF VMInv, DataInv, VMTyped
<1>5. DataInv'
  BY <1>1, <1>3, <1>4, AcceptedStep
<1> QED
  BY <1>1, <1>3, <1>5 DEF NoException

LEMMA ExecData ==
  ASSUME VMInv, Allow = {}, NEW T \in SUBSET Account,
         ExecBlock(T) \/ RefuseTxs(T) \/ RefuseClearing(T)
  PROVE  NoException' /\ DataInv'
<1>1. /\ Idle("vm") /\ NoException /\ proposal_base = last_committed /\ proposal_base < MaxBlock
  BY DEF ExecBlock, RefuseTxs, RefuseClearing, CanExec, ConfirmationFree, OperationFree, NoException
<1>2. CanCommitAccounts(proposal_base + 1) => ~BlockThrows(proposal_base + 1)
  BY <1>1, NoThrow
<1>3. CASE ExecBlock(T)
  <2>1. CommitBlock(proposal_base + 1, T) /\ Executed
        /\ UNCHANGED <<lmdb_vars, book_round, thread_vars, fault>>
    BY <1>1, <1>2, <1>3 DEF ExecBlock, HashThrows
  <2>2. /\ proposal_base' = proposal_base + 1 /\ last_committed' = proposal_base + 1
        /\ last_persisted' = last_persisted /\ executed' \in BOOLEAN
    BY <1>1, <2>1 DEF Executed
  <2>3. DataInv'
    BY <1>1, <2>1, <2>2, AcceptedStep
  <2> QED
    BY <1>1, <2>1, <2>3 DEF NoException
<1>4. ASSUME RecordRefused(last_committed + 1),
             UNCHANGED <<value_vars, persistence_thunks>>,
             \/ creation_thunks' = creation_thunks
             \/ creation_thunks' = Append(creation_thunks, [block |-> proposal_base + 1, accounts |-> {}])
      PROVE  NoException' /\ DataInv'
  <2>1. /\ proposal_base' = proposal_base + 1 /\ last_committed' = proposal_base + 1
        /\ last_persisted' = last_persisted /\ executed' \in BOOLEAN
        /\ ledger' = Append(ledger, Lead) /\ block_map' = Append(block_map, FALSE)
        /\ UNCHANGED <<lmdb_vars, book_vars, thread_vars, stale, fault>>
    BY <1>1, <1>4 DEF RecordRefused, Executed, insert
  <2>2. DataInv'
    BY <1>1, <1>4, <2>1, RefusedStep
  <2> QED
    BY <1>1, <2>1, <2>2 DEF NoException
<1>5. /\ committed = available /\ available = Lead /\ uncommitted_db = {}
      /\ trie \in [Account -> Value] /\ Lead \in [Account -> Value]
  <2>1. Base = proposal_base
    BY <1>1 DEF Idle, Base, Reloaded
  <2>2. Lead \in [Account -> Value]
    BY Facts DEF Lead
  <2> QED
    BY <2>1, <2>2 DEF VMInv, DataInv, MemoryExact, VMTyped, Lead
<1>6. CASE RefuseTxs(T)
  <2>1. T = {}
    BY <1>6 DEF RefuseTxs
  <2>2. Changed(available, T) = available
    BY <1>5, <2>1 DEF Changed
  <2>3. UNCHANGED <<value_vars, persistence_thunks, creation_thunks>>
    BY <1>5, <1>6, <2>1, <2>2 DEF RefuseTxs, value_vars, thunk_vars
  <2> QED
    BY <1>4, <1>6, <2>3 DEF RefuseTxs
<1>7. CASE RefuseClearing(T)
  <2> DEFINE created == (T \ ids) \cup uncommitted_db
             now     == Changed(available, T)
             values  == [a \in Account |-> IF a \in created THEN now[a] ELSE committed[a]]
  <2>1. created = {}
    BY <1>7 DEF RefuseClearing
  <2>2. /\ committed' = values /\ available' = values
        /\ trie' = [a \in Account |-> IF a \in created THEN now[a] ELSE trie[a]]
        /\ ids' = ids \cup created /\ uncommitted_db' = {}
        /\ creation_thunks' =
             Append(creation_thunks, [block |-> last_committed + 1, accounts |-> created])
        /\ RecordRefused(last_committed + 1)
        /\ persistence_thunks' = persistence_thunks
    BY <1>1, <1>2, <1>7 DEF RefuseClearing
  <2>3. values = committed
    BY <1>5, <2>1
  <2>4. trie' = trie
    BY <1>5, <2>1, <2>2
  <2>5. UNCHANGED <<value_vars, persistence_thunks>>
    BY <1>5, <2>1, <2>2, <2>3, <2>4 DEF value_vars
  <2> HIDE DEF created
  <2> QED
    BY <1>1, <1>4, <2>1, <2>2, <2>5
<1> QED
  BY <1>3, <1>6, <1>7

LEMMA LogCommitmentData ==
  ASSUME VMInv, NEW n \in Nat, LogCommitment(n)
  PROVE  NoException' /\ DataInv'
<1>1. /\ last_committed \in Nat /\ proposal_base \in Nat /\ last_committed <= proposal_base
      /\ \A i \in 1..Len(pending) : pending[i] <= proposal_base
  BY Facts DEF VMInv, RoundsInv, RoundsTyped
<1>2. last_committed <= n
  BY <1>1 DEF LogCommitment, Contains
<1>3. /\ UNCHANGED <<shard_data, shard_round, db_round, at, round, todo, batch, ledger, proposal_base,
                     last_persisted, persistence_thunks, creation_thunks, committed, available, ids,
                     uncommitted_db, trie, stale, lmdb_mtx, book_thunks, book_round, block_map, fault>>
      /\ last_committed' = n /\ executed' \in BOOLEAN
  BY DEF LogCommitment, value_vars, thunk_vars, lmdb_vars, book_vars, header_vars, thread_vars,
         history_vars
<1>4. at["vm"] = "idle" /\ fault = "none"
  BY DEF LogCommitment, ConfirmationFree, OperationFree, Idle
<1>5. Base = proposal_base /\ Base' = Base
  BY <1>3, <1>4 DEF Base, Reloaded
<1>6. ShardsExact' /\ DbInStep' /\ BatchExact'
  BY <1>2, <1>3, LaterBlock
<1>7. VMTyped'
  <2>1. last_persisted \in 0..last_committed
    BY DEF VMInv, DataInv, VMTyped
  <2>2. last_persisted \in 0..n
    BY <1>1, <1>2, <2>1
  <2> QED
    BY <1>3, <2>2 DEF VMInv, DataInv, VMTyped
<1>8. LedgerTyped' /\ MemoryExact' /\ ThunksTyped'
  BY <1>3, <1>5 DEF VMInv, DataInv, LedgerTyped, MemoryExact, ThunksTyped
<1>9. ThunksExact'
  BY <1>3, <1>5 DEF VMInv, DataInv, ThunksExact, Floor, Gathered
<1>10. CreationExact'
  <2>1. AllCreated(ledger, creation_thunks, last_committed, Base)
    BY DEF VMInv, DataInv, CreationExact
  <2>2. AllCreated(ledger, creation_thunks, n, Base)
    BY <1>1, <1>2, <1>5, <2>1 DEF AllCreated
  <2> QED
    BY <1>3, <1>4, <1>5, <2>2 DEF VMInv, DataInv, CreationExact
<1>11. BooksBehind'
  BY <1>3 DEF VMInv, DataInv, BooksBehind
<1> QED
  BY <1>3, <1>4, <1>6, <1>7, <1>8, <1>9, <1>10, <1>11 DEF DataInv, NoException

-----------------------------------------------------------------------------
(* Threads.                                                                *)

\* A step of a thread leaves what the VM works with alone.
LEMMA MemoryKept ==
  ASSUME VMInv, UNCHANGED <<value_vars, ledger, stale, proposal_base, last_committed, executed>>,
         Reloaded' = Reloaded, last_persisted' \in 0..last_committed,
         lmdb_mtx' \in {"none", "phase1", "vm"}, shard_data' \in [Account -> Value]
  PROVE  VMTyped' /\ LedgerTyped' /\ MemoryExact' /\ Base' = Base
<1>1. Base' = Base
  BY DEF Base
<1>2. VMTyped' /\ LedgerTyped'
  BY DEF VMInv, DataInv, VMTyped, LedgerTyped, value_vars
<1>3. MemoryExact'
  BY <1>1 DEF VMInv, DataInv, MemoryExact, value_vars
<1> QED
  BY <1>1, <1>2, <1>3

\* Who has gathered thunks.
LEMMA OneWriter ==
  ASSUME VMInv, NEW t \in {"phase1", "vm"}, ~Idle(t)
  PROVE  /\ \A u \in {"phase1", "vm"} : u # t => Idle(u) /\ ~Gathered(u)
         /\ \A s \in Shard : Floor(s) = IF Gathered(t) THEN round[t] ELSE shard_round[s]
         /\ Base \in Nat /\ round[t] \in Nat /\ round[t] <= last_committed
         /\ last_committed \in Nat /\ last_committed <= Base
<1>1. \A u \in {"phase1", "vm"} : u # t => Idle(u)
  BY Facts DEF RoundsInv, RewindAlone, PersisterIdle
<1>2. \A u \in {"phase1", "vm"} : u # t => Idle(u) /\ ~Gathered(u)
  BY <1>1 DEF Gathered, Idle
<1>3. \A s \in Shard : Floor(s) = IF Gathered(t) THEN round[t] ELSE shard_round[s]
  BY <1>2 DEF Floor
<1>4. /\ round[t] \in Nat /\ round[t] <= last_committed
      /\ last_committed \in Nat /\ proposal_base \in Nat /\ last_committed <= proposal_base
  BY Facts DEF Thread
<1> QED
  BY <1>2, <1>3, <1>4 DEF Base

\* A step that writes no shard and takes no thunk.
LEMMA QuietStep ==
  ASSUME VMInv, UNCHANGED <<value_vars, persistence_thunks, batch, shard_data, shard_round, ledger,
                            stale, proposal_base, last_committed, executed>>,
         Reloaded' = Reloaded, last_persisted' \in 0..last_committed,
         lmdb_mtx' \in {"none", "phase1", "vm"},
         \A t \in {"phase1", "vm"} :
           /\ Gathered(t)' = Gathered(t)
           /\ Gathered(t) => /\ round'[t] = round[t]
                             /\ \A s \in Shard : ShardWritten(t, s) => ShardWritten(t, s)',
         DbInStep', CreationExact', BooksBehind'
  PROVE  DataInv'
<1>1. shard_data' \in [Account -> Value]
  BY DEF VMInv, DataInv, VMTyped
<1>2. VMTyped' /\ LedgerTyped' /\ MemoryExact' /\ Base' = Base
  BY <1>1, MemoryKept
<1>3. ThunksTyped' /\ ShardsExact'
  BY DEF VMInv, DataInv, ThunksTyped, ShardsExact
<1>4. \A s \in Shard : Floor(s)' = Floor(s)
  BY DEF Floor
<1>5. ThunksExact'
  BY <1>2, <1>4 DEF VMInv, DataInv, ThunksExact
<1>6. BatchExact'
  BY DEF VMInv, DataInv, BatchExact
<1> QED
  BY <1>2, <1>3, <1>5, <1>6 DEF DataInv

LEMMA CreationKept ==
  ASSUME VMInv, UNCHANGED <<creation_thunks, ledger, block_map, db_round, last_committed, proposal_base>>,
         Reloaded' = Reloaded, at'["vm"] \in {"sync", "reload"} => at["vm"] \in {"sync", "reload"}
  PROVE  CreationExact'
<1>1. Base' = Base
  BY DEF Base
<1> QED
  BY <1>1 DEF VMInv, DataInv, CreationExact

\* The persister is given a round, and a rewind begins.
LEMMA StartData ==
  ASSUME VMInv, Allow = {}, DoAsyncPersist \/ BeginRewind
  PROVE  NoException' /\ DataInv'
<1> USE DEF Thread
<1>1. PICK t \in {"phase1", "vm"} :
        /\ Idle(t) /\ fault = "none" /\ fault' = fault /\ Idle("vm")
        /\ at' = [at EXCEPT ![t] = "collect"] /\ round' = [round EXCEPT ![t] = last_committed]
        /\ t = "vm" => Idle("phase1")
        /\ last_persisted' \in {last_persisted, last_committed}
        /\ UNCHANGED <<value_vars, thunk_vars, lmdb_vars, book_vars, header_vars, todo, batch, ledger,
                       stale, proposal_base, last_committed, executed>>
  <2>1. CASE DoAsyncPersist
    <3>1. waiting = last_committed /\ Idle("vm")
      BY <2>1, Facts DEF DoAsyncPersist, RoundsInv, RewindAlone
    <3> QED
      BY <2>1, <3>1 DEF DoAsyncPersist, Move, history_vars
  <2>2. CASE BeginRewind
    BY <2>2 DEF BeginRewind, Move, vm_vars, history_vars, ConfirmationFree, OperationFree, PersisterIdle
  <2> QED
    BY <2>1, <2>2
<1>2. at \in [Thread -> Place] /\ round \in [Thread -> Nat] /\ todo \in [Thread -> SUBSET (Shard \cup Book)]
  BY Facts DEF RoundsInv, RoundsTyped, PlacesInStep
<1>3. /\ at'[t] = "collect" /\ round'[t] = last_committed /\ at[t] = "idle" /\ at["vm"] = "idle"
      /\ \A u \in Thread : u # t => at'[u] = at[u] /\ round'[u] = round[u]
  BY <1>1, <1>2 DEF Idle
<1>4. Reloaded' = Reloaded /\ ~(at'["vm"] \in {"sync", "reload"})
  BY <1>1, <1>3 DEF Reloaded
<1>5. \A u \in {"phase1", "vm"} :
           /\ Gathered(u)' = Gathered(u)
           /\ Gathered(u) => /\ round'[u] = round[u]
                             /\ \A s \in Shard : ShardWritten(u, s) => ShardWritten(u, s)'
  BY <1>1, <1>3 DEF Gathered, ShardWritten
<1>6. DbInStep'
  <2>1. db_round \in Nat /\ db_round <= last_committed /\ db_round' = db_round
    BY <1>1 DEF VMInv, DataInv, DbInStep, lmdb_vars
  <2>2. ASSUME NEW u \in {"phase1", "vm"}
        PROVE  /\ at'[u] # "idle" => db_round <= round'[u]
               /\ at'[u] \in {"erase", "sync", "reload"} => db_round = round'[u]
    <3>1. CASE u = t
      BY <1>3, <2>1, <3>1
    <3>2. CASE u # t
      BY <1>3, <3>2 DEF VMInv, DataInv, DbInStep, Idle
    <3> QED
      BY <3>1, <3>2
  <2> QED
    BY <1>1, <2>1, <2>2 DEF DbInStep, Idle
<1>7. CreationExact'
  BY <1>1, <1>4, CreationKept DEF thunk_vars, header_vars, lmdb_vars
<1>8. BooksBehind'
  BY <1>1, <1>3 DEF VMInv, DataInv, BooksBehind, book_vars
<1>9. last_persisted' \in 0..last_committed
  BY <1>1, Facts DEF VMInv, DataInv, VMTyped
<1>10. lmdb_mtx' \in {"none", "phase1", "vm"}
  BY <1>1 DEF VMInv, DataInv, VMTyped, lmdb_vars
<1>11. DataInv'
  BY <1>1, <1>4, <1>5, <1>6, <1>7, <1>8, <1>9, <1>10, QuietStep DEF thunk_vars, lmdb_vars
<1> QED
  BY <1>1, <1>11 DEF NoException

\* A writer gathers its thunks.
LEMMA CollectData ==
  ASSUME VMInv, NEW t \in {"phase1", "vm"}, CollectThunks(t)
  PROVE  NoException' /\ DataInv'
<1> USE DEF Thread
<1>1. /\ at[t] = "collect" /\ fault = "none"
      /\ batch' = [batch EXCEPT ![t] = UpTo(persistence_thunks, round[t])]
      /\ persistence_thunks' = Above(persistence_thunks, round[t])
      /\ at' = [at EXCEPT ![t] = "write"]
      /\ UNCHANGED <<vm_vars, value_vars, creation_thunks, lmdb_vars, book_vars,
                     header_vars, round, todo, fault, history_vars>>
  BY DEF CollectThunks, At, Move
<1>2. at \in [Thread -> Place] /\ batch \in [Thread -> Seq(DbThunk)] /\ persistence_thunks \in Seq(DbThunk)
  BY Facts DEF RoundsInv, PlacesInStep, VMInv, DataInv, ThunksTyped
<1>3. /\ at'[t] = "write" /\ \A u \in Thread : u # t => at'[u] = at[u]
      /\ batch'[t] = UpTo(persistence_thunks, round[t]) /\ ~Idle(t) /\ ~Gathered(t)
  BY <1>1, <1>2 DEF Idle, Gathered
<1>4. /\ \A u \in {"phase1", "vm"} : u # t => Idle(u) /\ ~Gathered(u)
      /\ \A s \in Shard : Floor(s) = shard_round[s]
      /\ Base \in Nat /\ round[t] \in Nat /\ round[t] <= last_committed
      /\ last_committed \in Nat /\ last_committed <= Base
  BY <1>3, OneWriter
<1>5. UNCHANGED <<value_vars, shard_data, shard_round, db_round, lmdb_mtx, ledger, stale, proposal_base,
                  last_committed, last_persisted, executed, creation_thunks, book_thunks, book_round,
                  block_map, round, todo>>
  BY <1>1 DEF vm_vars, lmdb_vars, book_vars, header_vars, history_vars
<1>6. Reloaded' = Reloaded /\ ~(at'["vm"] \in {"sync", "reload", "books"})
  BY <1>1, <1>3, <1>4 DEF Reloaded, Idle
<1>7. VMTyped' /\ LedgerTyped' /\ MemoryExact' /\ Base' = Base
  <2>1. /\ last_persisted' \in 0..last_committed /\ lmdb_mtx' \in {"none", "phase1", "vm"}
        /\ shard_data' \in [Account -> Value]
    BY <1>5 DEF VMInv, DataInv, VMTyped
  <2> QED
    BY <1>5, <1>6, <2>1, MemoryKept
<1>8. Gathered(t)' /\ \A u \in {"phase1", "vm"} : u # t => ~Gathered(u)'
  BY <1>3, <1>4 DEF Gathered
<1>9. ThunksTyped'
  <2>1. UpTo(persistence_thunks, round[t]) \in Seq(DbThunk) /\ Above(persistence_thunks, round[t]) \in Seq(DbThunk)
    BY <1>2, UpToThunks, AboveThunks
  <2> QED
    BY <1>1, <1>2, <2>1 DEF ThunksTyped
<1>10. ASSUME NEW s \in Shard
       PROVE  /\ Log(ledger, UpTo(persistence_thunks, round[t]), shard_round[s], round[t])
              /\ Log(ledger, Above(persistence_thunks, round[t]), round[t], Base)
  <2>1. Log(ledger, persistence_thunks, shard_round[s], Base)
    BY <1>4 DEF VMInv, DataInv, ThunksExact
  <2>2. shard_round[s] \in Nat /\ shard_round[s] <= round[t]
    BY <1>3, Facts DEF RoundsInv, WritersInStep
  <2>3. round[t] <= Base
    BY <1>4
  <2> QED
    BY <1>2, <1>4, <2>1, <2>2, <2>3, LogCut
<1>11. \A s \in Shard : Floor(s)' = round[t]
  BY <1>5, <1>8 DEF Floor
<1>12. ThunksExact'
  BY <1>1, <1>5, <1>7, <1>10, <1>11 DEF ThunksExact
<1>13. BatchExact'
  BY <1>3, <1>5, <1>8, <1>10 DEF BatchExact
<1>14. ShardsExact'
  BY <1>5 DEF VMInv, DataInv, ShardsExact
<1>15. DbInStep'
  <2>1. \A u \in {"phase1", "vm"} : /\ at'[u] # "idle" => at[u] # "idle"
                                    /\ at'[u] \in {"erase", "sync", "reload"} => at[u] = at'[u]
    BY <1>1, <1>3
  <2> QED
    BY <1>5, <2>1 DEF VMInv, DataInv, DbInStep, Idle
<1>16. CreationExact'
  BY <1>5, <1>6, CreationKept
<1>17. BooksBehind'
  BY <1>3, <1>5 DEF VMInv, DataInv, BooksBehind
<1> QED
  BY <1>1, <1>7, <1>9, <1>12, <1>13, <1>14, <1>15, <1>16, <1>17 DEF DataInv, NoException

LEMMA StartWriteData ==
  ASSUME VMInv, NEW t \in {"phase1", "vm"}, StartWrite(t)
  PROVE  NoException' /\ DataInv'
<1> USE DEF Thread
<1>1. /\ at[t] = "write" /\ fault = "none" /\ lmdb_mtx' = t
      /\ todo' = [todo EXCEPT ![t] = Shard] /\ at' = [at EXCEPT ![t] = "writing"]
      /\ UNCHANGED <<vm_vars, value_vars, thunk_vars, db_round, shard_data, shard_round, book_vars,
                     header_vars, round, batch, fault, history_vars>>
  BY DEF StartWrite, At, Move
<1>2. at \in [Thread -> Place] /\ todo \in [Thread -> SUBSET (Shard \cup Book)]
  BY Facts DEF RoundsInv, RoundsTyped, PlacesInStep
<1>3. /\ at'[t] = "writing" /\ todo'[t] = Shard
      /\ \A u \in Thread : u # t => at'[u] = at[u] /\ todo'[u] = todo[u]
  BY <1>1, <1>2
<1>4. UNCHANGED <<value_vars, persistence_thunks, creation_thunks, batch, shard_data, shard_round, ledger, stale,
                  proposal_base, last_committed, last_persisted, executed, db_round, round, block_map,
                  book_thunks, book_round>>
  BY <1>1 DEF vm_vars, thunk_vars, book_vars, header_vars, history_vars
<1>5. Reloaded' = Reloaded /\ (at'["vm"] \in {"sync", "reload"} => at["vm"] \in {"sync", "reload"})
  BY <1>1, <1>3 DEF Reloaded
<1>6. \A u \in {"phase1", "vm"} :
           /\ Gathered(u)' = Gathered(u)
           /\ Gathered(u) => /\ round'[u] = round[u]
                             /\ \A s \in Shard : ShardWritten(u, s) => ShardWritten(u, s)'
  BY <1>1, <1>3, <1>4 DEF Gathered, ShardWritten
<1>7. DbInStep'
  <2>1. \A u \in {"phase1", "vm"} : /\ at'[u] # "idle" => at[u] # "idle"
                                    /\ at'[u] \in {"erase", "sync", "reload"} => at[u] = at'[u]
    BY <1>1, <1>3
  <2> QED
    BY <1>4, <2>1 DEF VMInv, DataInv, DbInStep, Idle
<1>8. CreationExact'
  BY <1>4, <1>5, CreationKept
<1>9. BooksBehind'
  BY <1>1, <1>3, <1>4 DEF VMInv, DataInv, BooksBehind
<1>10. last_persisted' \in 0..last_committed /\ lmdb_mtx' \in {"none", "phase1", "vm"}
  BY <1>1, <1>4 DEF VMInv, DataInv, VMTyped
<1>11. DataInv'
  BY <1>4, <1>5, <1>6, <1>7, <1>8, <1>9, <1>10, QuietStep
<1> QED
  BY <1>1, <1>11 DEF NoException

\* A shard is written.
LEMMA WriteShardData ==
  ASSUME VMInv, NEW t \in {"phase1", "vm"}, NEW s \in Shard, WriteShard(t, s)
  PROVE  NoException' /\ DataInv'
<1> USE DEF Thread
<1>1. /\ at[t] = "writing" /\ s \in todo[t] /\ fault = "none"
      /\ todo' = [todo EXCEPT ![t] = @ \ {s}]
      /\ UNCHANGED <<value_vars, persistence_thunks, creation_thunks, lmdb_mtx, db_round, book_thunks,
                     book_round, block_map, at, round, batch, ledger, stale, proposal_base,
                     last_committed, last_persisted, executed>>
  BY DEF WriteShard, At, Done, vm_vars, thunk_vars, book_vars, header_vars, history_vars
<1>2. PICK ts \in Seq(DbThunk) : ts = batch[t]
  BY DEF VMInv, DataInv, ThunksTyped
<1>3. PICK r \in Nat : r = round[t]
  BY Facts
<1>4. PICK q \in Nat : q = shard_round[s] /\ q <= r
  BY <1>1, <1>3, Facts DEF RoundsInv, WritersInStep, Idle
<1>5. Log(ledger, ts, q, r)
  BY <1>1, <1>2, <1>3, <1>4 DEF VMInv, DataInv, BatchExact, Gathered, ShardWritten
<1>6. /\ \A i \in 1..Len(ts) : ts[i].block \in (q + 1)..r
      /\ \A i, j \in 1..Len(ts) : i < j => ts[i].block < ts[j].block
      /\ DOMAIN ts = 1..Len(ts) /\ Len(ts) \in Nat
  BY <1>5 DEF Log, Ascending
<1>7. InOrder(ts, q)
  <2>1. SUFFICES ASSUME NEW i \in 1..Len(ts)
                 PROVE  ts[i].block > IF i = 1 THEN q ELSE ts[i - 1].block
    BY <1>6 DEF InOrder
  <2>2. CASE i = 1
    BY <1>6, <2>2
  <2>3. CASE i # 1
    <3>1. i - 1 \in 1..Len(ts) /\ i - 1 < i
      BY <1>6, <2>3
    <3>2. ts[i - 1].block < ts[i].block /\ ts[i - 1].block \in Int /\ ts[i].block \in Int
      BY <1>6, <3>1
    <3> QED
      BY <2>3, <3>2
  <2> QED
    BY <2>2, <2>3
<1>8. LastRound(ts, q) <= r
  <2>1. CASE ts = <<>>
    BY <1>4, <2>1 DEF LastRound
  <2>2. CASE ts # <<>>
    <3>1. Len(ts) \in 1..Len(ts)
      BY <2>2
    <3>2. ts[Len(ts)].block \in (q + 1)..r
      BY <1>6, <3>1
    <3> QED
      BY <2>2, <3>2 DEF LastRound, Last
  <2> QED
    BY <2>1, <2>2
<1>9. /\ shard_data' = [a \in Account |-> IF ShardOf[a] = s THEN ValueAfter(ts, a) ELSE shard_data[a]]
      /\ shard_round' = [shard_round EXCEPT ![s] = r]
      /\ fault' = fault
  BY <1>2, <1>3, <1>4, <1>7, <1>8 DEF WriteShard
<1>10. /\ at \in [Thread -> Place] /\ todo \in [Thread -> SUBSET (Shard \cup Book)]
       /\ shard_round \in [Shard -> Nat]
  BY Facts DEF RoundsInv, RoundsTyped, PlacesInStep
<1>11. /\ \A x \in Shard : shard_round'[x] = IF x = s THEN r ELSE shard_round[x]
       /\ todo'[t] = todo[t] \ {s} /\ \A u \in Thread : u # t => todo'[u] = todo[u]
  BY <1>1, <1>9, <1>10
<1>12. \A a \in Account : ShardOf[a] = s => shard_data'[a] = ledger[r + 1][a]
  <2>1. TAKE a \in Account
  <2>2. HAVE ShardOf[a] = s
  <2>3. shard_data[a] = ledger[q + 1][a]
    BY <1>4, <2>2 DEF VMInv, DataInv, ShardsExact
  <2>4. shard_data'[a] = ValueAfter(ts, a)
    BY <1>9, <2>2
  <2>5. ValueAfter(ts, a) = ledger[r + 1][a]
    <3>1. ledger[r + 1][a] = LastValue(ts, a, shard_data[a])
      BY <1>2, <1>4, <1>5, <2>1, <2>3, LogValue
    <3> QED
      BY <3>1 DEF ValueAfter, LastValue
  <2> QED
    BY <2>4, <2>5
<1>13. r <= last_committed /\ r + 1 \in 1..Len(ledger)
  BY <1>3, Facts
<1>14. shard_data' \in [Account -> Value]
  <2>1. ledger[r + 1] \in [Account -> Value] /\ shard_data \in [Account -> Value]
    BY <1>13, Facts DEF VMInv, DataInv, VMTyped
  <2>2. \A a \in Account : shard_data'[a] \in Value
    BY <1>9, <1>12, <2>1
  <2>3. shard_data' = [a \in Account |-> shard_data'[a]]
    BY <1>9
  <2> QED
    BY <2>2, <2>3
<1>15. VMTyped' /\ LedgerTyped' /\ MemoryExact' /\ Base' = Base
  <2>1. /\ last_persisted' \in 0..last_committed /\ lmdb_mtx' \in {"none", "phase1", "vm"}
        /\ Reloaded' = Reloaded
    BY <1>1 DEF VMInv, DataInv, VMTyped, Reloaded
  <2> QED
    BY <1>1, <1>14, <2>1, MemoryKept
<1>16. ShardsExact'
  <2>1. ASSUME NEW x \in Shard, NEW a \in Account, ShardOf[a] = x, x # s
        PROVE  shard_data'[a] = ledger[shard_round'[x] + 1][a]
    BY <1>9, <1>11, <2>1 DEF VMInv, DataInv, ShardsExact
  <2>2. \A x \in Shard : shard_round'[x] <= last_committed
    BY <1>11, <1>13, Facts
  <2> QED
    BY <1>1, <1>11, <1>12, <2>1, <2>2 DEF ShardsExact
<1>17. ~Idle(t) /\ Gathered(t) /\ Gathered(t)'
  BY <1>1 DEF Idle, Gathered
<1>18. ThunksTyped' /\ ThunksExact'
  <2>1. \A u \in {"phase1", "vm"} : u # t => ~Gathered(u)
    BY <1>17, OneWriter
  <2>2. \A x \in Shard : Floor(x) = r /\ Floor(x)' = r
    BY <1>1, <1>3, <1>17, <2>1 DEF Floor, Gathered
  <2> QED
    BY <1>1, <1>15, <2>2 DEF VMInv, DataInv, ThunksTyped, ThunksExact
<1>19. BatchExact'
  <2>1. SUFFICES ASSUME NEW u \in {"phase1", "vm"}, NEW x \in Shard, Gathered(u)', ~ShardWritten(u, x)'
                 PROVE  Log(ledger, batch[u], shard_round'[x], round[u])
    BY <1>1 DEF BatchExact
  <2>2. u = t
    <3>1. Gathered(u)
      BY <1>1, <2>1 DEF Gathered
    <3> QED
      BY <1>17, <3>1, OneWriter
  <2>3. x # s /\ ~ShardWritten(t, x)
    BY <1>1, <1>11, <2>1, <2>2 DEF ShardWritten
  <2> QED
    BY <1>11, <1>17, <2>2, <2>3 DEF VMInv, DataInv, BatchExact
<1>20. DbInStep'
  BY <1>1 DEF VMInv, DataInv, DbInStep, Idle
<1>21. CreationExact'
  BY <1>1, CreationKept DEF Reloaded
<1>22. BooksBehind'
  BY <1>1, <1>11 DEF VMInv, DataInv, BooksBehind
<1> QED
  BY <1>1, <1>9, <1>15, <1>16, <1>18, <1>19, <1>20, <1>21, <1>22 DEF DataInv, NoException

\* The persisted round is published.
LEMMA FinishWriteData ==
  ASSUME VMInv, NEW t \in {"phase1", "vm"}, FinishWrite(t)
  PROVE  NoException' /\ DataInv'
<1> USE DEF Thread
<1>1. /\ at[t] = "writing" /\ todo[t] = {} /\ fault = "none" /\ fault' = fault
      /\ db_round' = Published(round[t]) /\ lmdb_mtx' = "none"
      /\ batch' = [batch EXCEPT ![t] = <<>>] /\ at' = [at EXCEPT ![t] = "erase"]
      /\ UNCHANGED <<value_vars, persistence_thunks, creation_thunks, shard_data, shard_round, book_thunks,
                     book_round, block_map, round, todo, ledger, stale, proposal_base,
                     last_committed, last_persisted, executed>>
  BY DEF FinishWrite, At, Move, vm_vars, thunk_vars, book_vars, header_vars, history_vars
<1>2. at \in [Thread -> Place] /\ batch \in [Thread -> Seq(DbThunk)]
  BY Facts DEF RoundsInv, PlacesInStep, VMInv, DataInv, ThunksTyped
<1>3. /\ at'[t] = "erase" /\ \A u \in Thread : u # t => at'[u] = at[u]
      /\ ~Idle(t) /\ Gathered(t) /\ ~Gathered(t)'
  BY <1>1, <1>2 DEF Idle, Gathered
<1>4. /\ \A u \in {"phase1", "vm"} : u # t => Idle(u) /\ ~Gathered(u)
      /\ \A s \in Shard : Floor(s) = round[t]
      /\ Base \in Nat /\ round[t] \in Nat /\ round[t] <= last_committed
      /\ last_committed \in Nat /\ last_committed <= Base
  BY <1>3, OneWriter
<1>5. db_round \in Nat /\ db_round <= round[t] /\ db_round <= last_committed
  BY <1>3 DEF VMInv, DataInv, DbInStep
<1>6. db_round' = round[t]
  <2> DEFINE S == {db_round, round[t]}
  <2>1. S \in SUBSET (0..round[t]) /\ S # {}
    BY <1>4, <1>5
  <2>2. Max(S) \in S /\ \A x \in S : x <= Max(S)
    <3> HIDE DEF S
    <3> QED
      BY <1>4, <2>1, GreatestElement
  <2>3. Max(S) = round[t]
    BY <1>4, <1>5, <2>2
  <2> QED
    BY <1>1, <2>3 DEF Published
<1>7. Reloaded' = Reloaded /\ ~(at'["vm"] \in {"sync", "reload", "books"})
  BY <1>1, <1>3, <1>4 DEF Reloaded, Idle
<1>8. VMTyped' /\ LedgerTyped' /\ MemoryExact' /\ Base' = Base
  <2>1. /\ last_persisted' \in 0..last_committed /\ lmdb_mtx' \in {"none", "phase1", "vm"}
        /\ shard_data' \in [Account -> Value]
    BY <1>1 DEF VMInv, DataInv, VMTyped
  <2> QED
    BY <1>1, <1>7, <2>1, MemoryKept
<1>9. \A u \in {"phase1", "vm"} : ~Gathered(u)'
  BY <1>3, <1>4 DEF Gathered
<1>10. \A s \in Shard : Floor(s)' = Floor(s)
  <2>1. \A s \in Shard : shard_round[s] = round[t]
    BY <1>1, <1>3, Facts DEF RoundsInv, WritersInStep, ShardWritten
  <2> QED
    BY <1>1, <1>4, <1>9, <2>1 DEF Floor
<1>11. ThunksTyped' /\ ThunksExact' /\ BatchExact'
  BY <1>1, <1>2, <1>8, <1>9, <1>10 DEF VMInv, DataInv, ThunksTyped, ThunksExact, BatchExact
<1>12. ShardsExact'
  BY <1>1 DEF VMInv, DataInv, ShardsExact
<1>13. DbInStep'
  BY <1>1, <1>3, <1>4, <1>6 DEF DbInStep, Idle
<1>14. CreationExact'
  <2>1. Follows(creation_thunks, db_round, Base + 1) => Follows(creation_thunks, round[t], Base + 1)
    BY <1>4, <1>5 DEF Follows
  <2> QED
    BY <1>1, <1>6, <1>7, <1>8, <2>1 DEF VMInv, DataInv, CreationExact
<1>15. BooksBehind'
  BY <1>1, <1>3 DEF VMInv, DataInv, BooksBehind
<1> QED
  BY <1>1, <1>8, <1>11, <1>12, <1>13, <1>14, <1>15 DEF DataInv, NoException

\* The creation thunks of persisted blocks go.
LEMMA EraseData ==
  ASSUME VMInv, NEW t \in {"phase1", "vm"}, EraseCreationThunks(t)
  PROVE  NoException' /\ DataInv'
<1> USE DEF Thread
<1>1. /\ at[t] = "erase" /\ fault = "none" /\ fault' = fault
      /\ creation_thunks' = Above(creation_thunks, round[t])
      /\ UNCHANGED <<value_vars, persistence_thunks, shard_data, shard_round, book_thunks, db_round, lmdb_mtx,
                     book_round, block_map, round, ledger, stale, proposal_base, batch,
                     last_committed, last_persisted, executed>>
  BY DEF EraseCreationThunks, At, vm_vars, lmdb_vars, book_vars, header_vars, history_vars
<1>2. PICK place \in {"sync", "handoff"} : at' = [at EXCEPT ![t] = place] /\ (place = "sync" <=> t = "vm")
  BY DEF EraseCreationThunks, Move
<1>3. at \in [Thread -> Place] /\ todo \in [Thread -> SUBSET (Shard \cup Book)]
  BY Facts DEF RoundsInv, RoundsTyped, PlacesInStep
<1>4. /\ at'[t] = place /\ \A u \in Thread : u # t => at'[u] = at[u] /\ todo'[u] = todo[u]
      /\ ~Idle(t) /\ ~Gathered(t)
  BY <1>1, <1>2, <1>3 DEF Idle, Gathered, EraseCreationThunks
<1>5. /\ \A u \in {"phase1", "vm"} : u # t => Idle(u) /\ ~Gathered(u)
      /\ Base \in Nat /\ round[t] \in Nat /\ round[t] <= last_committed
      /\ last_committed \in Nat /\ last_committed <= Base
  BY <1>4, OneWriter
<1>6. Reloaded' = Reloaded /\ Base' = Base
  BY <1>1, <1>2, <1>4 DEF Reloaded, Base
<1>7. \A u \in {"phase1", "vm"} : ~Gathered(u) /\ ~Gathered(u)'
  BY <1>1, <1>2, <1>4, <1>5 DEF Gathered
<1>8. db_round = round[t]
  BY <1>1 DEF VMInv, DataInv, DbInStep
<1>9. DbInStep'
  <2>1. \A u \in {"phase1", "vm"} : u # t => at'[u] = "idle"
    BY <1>4, <1>5 DEF Idle
  <2> QED
    BY <1>1, <1>5, <1>8, <2>1 DEF DbInStep, Idle
<1>10. CreationExact'
  <2>1. PICK ts \in Seq(CreationThunk) : ts = creation_thunks
    BY DEF VMInv, DataInv, CreationExact
  <2>2. PICK F : F = Above(ts, round[t])
    OBVIOUS
  <2>3. F \in Seq(CreationThunk) /\ AreAbove(F, ts, round[t])
    BY <2>2, AboveThunks
  <2>4. Creations(ledger, ts, Base) /\ AllCreated(ledger, ts, last_committed, Base)
    BY <2>1 DEF VMInv, DataInv, CreationExact
  <2>5. Creations(ledger, F, Base)
    <3>1. Ascending(F)
      BY <2>3, <2>4 DEF Creations, AreAbove
    <3>2. ASSUME NEW k \in 1..Len(F)
          PROVE  F[k].block \in 1..Base /\ \A a \in F[k].accounts : ledger[F[k].block][a] = Absent
      <4>1. PICK i \in 1..Len(ts) : F[k] = ts[i]
        BY <2>3 DEF AreAbove
      <4> QED
        BY <2>4, <4>1 DEF Creations
    <3> QED
      BY <3>1, <3>2 DEF Creations
  <2>6. AllCreated(ledger, F, last_committed, Base)
    <3>1. SUFFICES ASSUME NEW m \in (last_committed + 1)..Base, NEW a \in Account,
                          ledger[m][a] = Absent, ledger[m + 1][a] # Absent
                   PROVE  \E k \in 1..Len(F) : F[k].block = m /\ a \in F[k].accounts
      BY DEF AllCreated
    <3>2. PICK i \in 1..Len(ts) : ts[i].block = m /\ a \in ts[i].accounts
      BY <2>4, <3>1 DEF AllCreated
    <3>3. ts[i].block > round[t]
      BY <1>5, <3>2
    <3> QED
      BY <2>3, <3>2, <3>3 DEF AreAbove
  <2>7. Follows(ts, db_round, Base + 1) => Follows(F, db_round, Base + 1)
    <3>1. CASE ts = <<>>
      <4>1. F = <<>>
        BY <2>3, <3>1 DEF AreAbove
      <4> QED
        BY <3>1, <4>1
    <3>2. CASE ts # <<>> /\ Last(ts).block + 1 = Base + 1
      <4>1. Len(ts) \in 1..Len(ts) /\ Last(ts) = ts[Len(ts)]
        BY <3>2 DEF Last
      <4>2. Last(ts).block = Base
        BY <1>5, <2>4, <3>2, <4>1 DEF Creations
      <4>3. CASE Base > round[t]
        <5>1. F # <<>> /\ Last(F) = Last(ts)
          BY <2>3, <3>2, <4>2, <4>3 DEF AreAbove
        <5> QED
          BY <3>2, <5>1 DEF Follows
      <4>4. CASE Base = round[t]
        <5>1. ~(1 \in 1..Len(F))
          <6> SUFFICES ASSUME 1 \in 1..Len(F) PROVE FALSE
            OBVIOUS
          <6>1. PICK i \in 1..Len(ts) : ts[i].block > round[t]
            BY <2>3 DEF AreAbove
          <6>2. ts[i].block \in 1..Base
            BY <2>4 DEF Creations
          <6> QED
            BY <1>5, <4>4, <6>1, <6>2
        <5>2. F = <<>>
          BY <2>3, <5>1
        <5> QED
          BY <1>5, <1>8, <4>4, <5>2 DEF Follows
      <4> QED
        BY <1>5, <4>3, <4>4
    <3> QED
      BY <3>1, <3>2 DEF Follows
  <2>8. t = "vm" => \A k \in 1..Len(F) : F[k].block > last_committed
    <3>1. t = "vm" => round[t] = last_committed
      BY <1>4, Facts DEF RoundsInv, RewindAlone
    <3> QED
      BY <2>3, <3>1 DEF AreAbove
  <2>9. at'["vm"] \in {"sync", "reload"} => t = "vm"
    BY <1>4, <1>5 DEF Idle
  <2>10. creation_thunks' = F
    BY <1>1, <2>1, <2>2
  <2> QED
    BY <1>1, <1>6, <2>1, <2>3, <2>5, <2>6, <2>7, <2>8, <2>9, <2>10 DEF VMInv, DataInv, CreationExact
<1>11. BooksBehind'
  BY <1>1, <1>2, <1>4 DEF VMInv, DataInv, BooksBehind
<1>12. last_persisted' \in 0..last_committed /\ lmdb_mtx' \in {"none", "phase1", "vm"}
  BY <1>1 DEF VMInv, DataInv, VMTyped
<1>13. DataInv'
  <2>1. \A u \in {"phase1", "vm"} :
           /\ Gathered(u)' = Gathered(u)
           /\ Gathered(u) => /\ round'[u] = round[u]
                             /\ \A s \in Shard : ShardWritten(u, s) => ShardWritten(u, s)'
    BY <1>7 DEF Gathered
  <2> QED
    BY <1>1, <1>6, <1>9, <1>10, <1>11, <1>12, <2>1, QuietStep
<1> QED
  BY <1>1, <1>13 DEF NoException

\* Later phases, and a rewind behind the writes: they leave the thunks alone.
LEMMA LaterPlaces ==
  ASSUME VMInv, UNCHANGED <<value_vars, thunk_vars, batch, shard_data, shard_round, db_round, lmdb_mtx,
                            ledger, stale, block_map, proposal_base, last_committed, last_persisted,
                            executed>>,
         Reloaded' = Reloaded, BooksBehind',
         \A t \in {"phase1", "vm"} :
           \/ at'[t] = at[t] /\ round'[t] = round[t] /\ todo'[t] = todo[t]
           \/ ~Gathered(t) /\ at'[t] \in {"idle", "books", "rollback_books", "headers", "rollback_headers"}
              /\ at[t] # "idle" /\ round'[t] = round[t]
           \/ ~Gathered(t) /\ at[t] = "sync" /\ at'[t] \in {"sync", "reload"} /\ round'[t] = round[t]
  PROVE  DataInv'
<1>1. \A t \in {"phase1", "vm"} :
           /\ Gathered(t)' = Gathered(t)
           /\ Gathered(t) => /\ round'[t] = round[t]
                             /\ \A s \in Shard : ShardWritten(t, s) => ShardWritten(t, s)'
  BY DEF Gathered, ShardWritten
<1>2. DbInStep'
  <2>1. \A t \in {"phase1", "vm"} :
          /\ at'[t] # "idle" => at[t] # "idle"
          /\ at'[t] \in {"erase", "sync", "reload"} => at[t] \in {"erase", "sync", "reload"}
          /\ round'[t] = round[t]
    OBVIOUS
  <2> QED
    BY <2>1 DEF VMInv, DataInv, DbInStep, Idle
<1>3. CreationExact'
  <2>1. at'["vm"] \in {"sync", "reload"} => at["vm"] \in {"sync", "reload"}
    OBVIOUS
  <2> QED
    BY <2>1, CreationKept DEF thunk_vars
<1>4. last_persisted' \in 0..last_committed /\ lmdb_mtx' \in {"none", "phase1", "vm"}
  BY DEF VMInv, DataInv, VMTyped
<1> QED
  BY <1>1, <1>2, <1>3, <1>4, QuietStep DEF thunk_vars

LEMMA HandOffData ==
  ASSUME VMInv, HandOff1 \/ HandOff2
  PROVE  NoException' /\ DataInv'
<1> USE DEF Thread
<1>1. PICK t \in {"phase1", "phase2"}, u \in {"phase2", "phase3"}, place \in {"sync", "books"} :
        /\ \/ t = "phase1" /\ u = "phase2" /\ place = "sync" /\ todo' = [todo EXCEPT ![u] = Shard]
           \/ t = "phase2" /\ u = "phase3" /\ place = "books" /\ todo' = [todo EXCEPT ![u] = Book]
        /\ at[t] = "handoff" /\ Idle(u) /\ fault = "none"
        /\ at' = [at EXCEPT ![t] = "idle", ![u] = place]
        /\ round' = [round EXCEPT ![u] = round[t]]
        /\ UNCHANGED <<vm_vars, value_vars, thunk_vars, lmdb_vars, book_vars, header_vars, batch, fault,
                       history_vars>>
  BY DEF HandOff1, HandOff2, HandOff, At
<1>2. /\ at \in [Thread -> Place] /\ todo \in [Thread -> SUBSET (Shard \cup Book)]
      /\ round \in [Thread -> Nat]
  BY Facts DEF RoundsInv, RoundsTyped, PlacesInStep
<1>3. /\ at'["vm"] = at["vm"] /\ todo'["vm"] = todo["vm"] /\ round'["vm"] = round["vm"]
      /\ todo'["phase1"] = todo["phase1"] /\ round'["phase1"] = round["phase1"]
      /\ at'["phase1"] = IF t = "phase1" THEN "idle" ELSE at["phase1"]
      /\ IF u = "phase3" THEN at'["phase3"] = "books" /\ todo'["phase3"] = Book
         ELSE at'["phase3"] = at["phase3"] /\ todo'["phase3"] = todo["phase3"]
  BY <1>1, <1>2
<1>4. Reloaded' = Reloaded
  BY <1>3 DEF Reloaded
<1>5. Book # {}
  BY VMAssumption DEF Book
<1>6. BooksBehind'
  BY <1>1, <1>3, <1>5 DEF VMInv, DataInv, BooksBehind, book_vars
<1>7. t = "phase1" => ~Gathered("phase1")
  BY <1>1 DEF Gathered
<1>8. DataInv'
  BY <1>1, <1>3, <1>4, <1>6, <1>7, LaterPlaces DEF vm_vars, lmdb_vars, header_vars, history_vars
<1> QED
  BY <1>1, <1>8 DEF NoException

LEMMA SyncShardData ==
  ASSUME VMInv, NEW t \in {"phase2", "vm"}, NEW s \in Shard, SyncShard(t, s)
  PROVE  NoException' /\ DataInv'
<1> USE DEF Thread
<1>1. /\ at[t] = "sync" /\ fault = "none" /\ fault' = fault
      /\ todo' = [todo EXCEPT ![t] = @ \ {s}]
      /\ UNCHANGED <<vm_vars, value_vars, thunk_vars, lmdb_mtx, db_round, shard_data, shard_round,
                     book_vars, header_vars, round, batch, history_vars>>
  BY DEF SyncShard, At, Done, DoneThen
<1>2. PICK place \in {"sync", "reload", "handoff"} :
        at' = [at EXCEPT ![t] = place] /\ (t = "vm" => place # "handoff")
  <2>1. at = [at EXCEPT ![t] = "sync"]
    BY <1>1, Facts DEF RoundsInv, PlacesInStep
  <2> QED
    BY <2>1 DEF SyncShard, DoneThen
<1>3. at \in [Thread -> Place] /\ todo \in [Thread -> SUBSET (Shard \cup Book)]
  BY Facts DEF RoundsInv, RoundsTyped, PlacesInStep
<1>4. at'[t] = place /\ \A u \in Thread : u # t => at'[u] = at[u] /\ todo'[u] = todo[u]
  BY <1>1, <1>2, <1>3
<1>5. Reloaded' = Reloaded /\ (t = "vm" => ~Gathered("vm"))
  BY <1>1, <1>2, <1>4 DEF Reloaded, Gathered
<1>6. BooksBehind'
  BY <1>1, <1>2, <1>4 DEF VMInv, DataInv, BooksBehind, book_vars
<1>7. \A u \in {"phase1", "vm"} :
           \/ at'[u] = at[u] /\ round'[u] = round[u] /\ todo'[u] = todo[u]
           \/ ~Gathered(u) /\ at[u] = "sync" /\ at'[u] \in {"sync", "reload"} /\ round'[u] = round[u]
  BY <1>1, <1>2, <1>4, <1>5
<1>8. DataInv'
  BY <1>1, <1>5, <1>6, <1>7, LaterPlaces DEF vm_vars, header_vars, history_vars
<1> QED
  BY <1>1, <1>8 DEF NoException

\* A book is persisted: it has no thunk of a block persisted before.
LEMMA PersistBookData ==
  ASSUME VMInv, NEW t \in {"phase3", "vm"}, PersistBook(t)
  PROVE  NoException' /\ DataInv'
<1> USE DEF Thread
<1>1. PICK b : b = Min(todo[t])
  OBVIOUS
<1>2. /\ at[t] = "books" /\ fault = "none"
      /\ todo' = [todo EXCEPT ![t] = @ \ {b}]
      /\ book_thunks' = [book_thunks EXCEPT ![b] = Above(@, round[t])]
      /\ UNCHANGED <<vm_vars, value_vars, thunk_vars, lmdb_vars, header_vars, round, batch, history_vars>>
  BY <1>1 DEF PersistBook, At, Done, DoneThen
<1>3. b \in Book /\ todo[t] # {} /\ todo[t] \subseteq Book
  <2>1. todo[t] # {} /\ todo[t] \subseteq Book
    BY <1>2 DEF VMInv, DataInv, BooksBehind
  <2>2. todo[t] \subseteq Nat
    BY <2>1, VMAssumption DEF Book
  <2> QED
    BY <1>1, <2>1, <2>2, LeastElement
<1>4. PICK ts \in Seq([block : Nat]) : ts = book_thunks[b] /\ \A i \in 1..Len(ts) : ts[i].block > book_round[b]
  BY <1>3 DEF VMInv, DataInv, BooksBehind
<1>5. PICK F : F = UpTo(ts, round[t])
  OBVIOUS
<1>6. PICK G : G = Above(ts, round[t])
  OBVIOUS
<1>7. F \in Seq([block : Nat]) /\ AreUpTo(F, ts, round[t])
  BY <1>5, UpToThunks
<1>8. G \in Seq([block : Nat]) /\ AreAbove(G, ts, round[t])
  BY <1>6, AboveThunks
<1>9. ~(F # <<>> /\ F[1].block <= book_round[b])
  <2> SUFFICES ASSUME F # <<>>, F[1].block <= book_round[b] PROVE FALSE
    OBVIOUS
  <2>1. 1 \in 1..Len(F)
    BY <1>7
  <2>2. PICK i \in 1..Len(ts) : F[1] = ts[i]
    BY <1>7, <2>1 DEF AreUpTo
  <2>3. ts[i].block > book_round[b] /\ ts[i].block \in Nat /\ book_round[b] \in Nat
    <3>1. ts[i] \in [block : Nat]
      <4>1. ts \in Seq([block : Nat]) /\ i \in 1..Len(ts)
        BY <1>4, <2>2
      <4> QED
        BY <4>1, ElementOfSeq, Zenon
    <3>2. ts[i].block \in Nat /\ book_round[b] \in Nat
      BY <1>3, <3>1, Facts
    <3> QED
      BY <1>4, <2>2, <3>2
  <2> QED
    BY <2>2, <2>3
<1>10. book_round' = [book_round EXCEPT ![b] = round[t]] /\ fault' = fault
  BY <1>1, <1>4, <1>5, <1>9 DEF PersistBook
<1>11. PICK place \in {"books", "rollback_books", "headers"} :
         /\ at' = [at EXCEPT ![t] = place] /\ (place = "books" => todo[t] # {b})
  <2>1. at = [at EXCEPT ![t] = "books"]
    BY <1>2, Facts DEF RoundsInv, PlacesInStep
  <2> QED
    BY <1>1, <2>1 DEF PersistBook, DoneThen
<1>12. /\ at \in [Thread -> Place] /\ todo \in [Thread -> SUBSET (Shard \cup Book)]
       /\ book_round \in [Book -> Nat] /\ book_thunks \in [Book -> Seq([block : Nat])]
  BY Facts DEF RoundsInv, RoundsTyped, PlacesInStep, VMInv, DataInv, BooksBehind
<1>13. /\ at'[t] = place /\ todo'[t] = todo[t] \ {b}
       /\ \A u \in Thread : u # t => at'[u] = at[u] /\ todo'[u] = todo[u]
       /\ book_thunks' \in [Book -> Seq([block : Nat])]
       /\ \A x \in Book : /\ book_thunks'[x] = IF x = b THEN G ELSE book_thunks[x]
                          /\ book_round'[x] = IF x = b THEN round[t] ELSE book_round[x]
  BY <1>2, <1>3, <1>4, <1>6, <1>8, <1>10, <1>11, <1>12
<1>14. BooksBehind'
  <2>1. ASSUME NEW u \in {"phase3", "vm"}, at'[u] = "books" PROVE todo'[u] # {} /\ todo'[u] \subseteq Book
    <3>1. CASE u = t
      BY <1>3, <1>11, <1>13, <2>1, <3>1
    <3>2. CASE u # t
      BY <1>13, <2>1, <3>2 DEF VMInv, DataInv, BooksBehind
    <3> QED
      BY <3>1, <3>2
  <2>2. \A k \in 1..Len(G) : G[k].block > round[t]
    BY <1>8 DEF AreAbove
  <2>3. ASSUME NEW x \in Book, NEW i \in 1..Len(book_thunks'[x])
        PROVE  book_thunks'[x][i].block > book_round'[x]
    <3>1. CASE x = b
      BY <1>13, <2>2, <3>1
    <3>2. CASE x # b
      BY <1>13, <3>2 DEF VMInv, DataInv, BooksBehind
    <3> QED
      BY <3>1, <3>2
  <2> QED
    BY <1>13, <2>1, <2>3 DEF BooksBehind
<1>15. Reloaded' = Reloaded
  BY <1>2, <1>11, <1>13 DEF Reloaded
<1>16. \A u \in {"phase1", "vm"} :
           \/ at'[u] = at[u] /\ round'[u] = round[u] /\ todo'[u] = todo[u]
           \/ ~Gathered(u) /\ at'[u] \in {"idle", "books", "rollback_books", "headers", "rollback_headers"}
              /\ at[u] # "idle" /\ round'[u] = round[u]
  BY <1>2, <1>11, <1>13 DEF Gathered
<1>17. DataInv'
  BY <1>2, <1>14, <1>15, <1>16, LaterPlaces DEF vm_vars, lmdb_vars, header_vars, history_vars
<1> QED
  BY <1>2, <1>10, <1>17 DEF NoException

LEMMA PersistHeadersData ==
  ASSUME VMInv, NEW t \in {"phase3", "vm"}, PersistHeaders(t)
  PROVE  NoException' /\ DataInv'
<1> USE DEF Thread
<1>1. /\ at[t] = "headers" /\ fault = "none"
      /\ UNCHANGED <<vm_vars, value_vars, thunk_vars, lmdb_vars, book_vars, block_map, round, todo, batch,
                     history_vars>>
  BY DEF PersistHeaders, At
<1>2. PICK place \in {"rollback_headers", "idle"} :
        at' = [at EXCEPT ![t] = place] /\ (place = "idle" <=> t = "phase3")
  BY DEF PersistHeaders, Move
<1>3. RowsWritten(round[t]) \subseteq DOMAIN block_map
  <2>1. DOMAIN block_map = 1..proposal_base /\ proposal_base \in Nat
    BY Facts
  <2>2. /\ round[t] \in Nat /\ round[t] <= last_committed /\ last_committed \in Nat
        /\ last_committed <= proposal_base
    BY Facts
  <2>3. header_round \in Nat
    BY Facts, Rounds
  <2> QED
    BY <2>1, <2>2, <2>3 DEF RowsWritten
<1>4. fault' = fault
  BY <1>3 DEF PersistHeaders
<1>5. at \in [Thread -> Place]
  BY Facts DEF RoundsInv, PlacesInStep
<1>6. at'[t] = place /\ \A u \in Thread : u # t => at'[u] = at[u]
  BY <1>2, <1>5
<1>7. Reloaded' = Reloaded
  BY <1>1, <1>2, <1>6 DEF Reloaded
<1>8. BooksBehind'
  BY <1>1, <1>2, <1>6 DEF VMInv, DataInv, BooksBehind, book_vars
<1>9. \A u \in {"phase1", "vm"} :
           \/ at'[u] = at[u] /\ round'[u] = round[u] /\ todo'[u] = todo[u]
           \/ ~Gathered(u) /\ at'[u] \in {"idle", "books", "rollback_books", "headers", "rollback_headers"}
              /\ at[u] # "idle" /\ round'[u] = round[u]
  BY <1>1, <1>2, <1>6 DEF Gathered
<1>10. DataInv'
  BY <1>1, <1>7, <1>8, <1>9, LaterPlaces DEF vm_vars, lmdb_vars, history_vars
<1> QED
  BY <1>1, <1>4, <1>10 DEF NoException

\* A rewind finds no book persisted beyond its round.
LEMMA RollbackBooksData ==
  ASSUME VMInv, RollbackBooks
  PROVE  NoException' /\ DataInv'
<1> USE DEF Thread
<1>1. /\ at["vm"] = "rollback_books" /\ fault = "none" /\ at' = [at EXCEPT !["vm"] = "headers"]
      /\ UNCHANGED <<vm_vars, value_vars, thunk_vars, lmdb_vars, book_round, header_vars, round, todo, batch,
                     history_vars>>
  BY DEF RollbackBooks, At, Move
<1>2. \A b \in Book : ~(round["vm"] < book_round[b])
  <2>1. round["vm"] = last_committed
    BY <1>1, Facts DEF RoundsInv, RewindAlone, Idle
  <2> QED
    BY <2>1, Facts
<1>3. book_thunks' = [b \in Book |-> UpTo(book_thunks[b], round["vm"])] /\ fault' = fault
  BY <1>2 DEF RollbackBooks
<1>4. at \in [Thread -> Place]
  BY Facts DEF RoundsInv, PlacesInStep
<1>5. at'["vm"] = "headers" /\ \A u \in Thread : u # "vm" => at'[u] = at[u]
  BY <1>1, <1>4
<1>6. Reloaded' = Reloaded
  BY <1>1, <1>5 DEF Reloaded
<1>7. BooksBehind'
  <2>1. ASSUME NEW b \in Book
        PROVE  /\ book_thunks'[b] \in Seq([block : Nat])
               /\ \A i \in 1..Len(book_thunks'[b]) : book_thunks'[b][i].block > book_round[b]
    <3>1. PICK ts \in Seq([block : Nat]) : ts = book_thunks[b] /\ \A i \in 1..Len(ts) : ts[i].block > book_round[b]
      BY DEF VMInv, DataInv, BooksBehind
    <3>2. PICK F : F = UpTo(ts, round["vm"])
      OBVIOUS
    <3>3. F \in Seq([block : Nat]) /\ AreUpTo(F, ts, round["vm"])
      BY <3>2, UpToThunks
    <3>4. book_thunks'[b] = F
      BY <1>3, <3>1, <3>2
    <3>5. \A k \in 1..Len(F) : F[k].block > book_round[b]
      BY <3>1, <3>3 DEF AreUpTo
    <3> QED
      BY <3>3, <3>4, <3>5
  <2>2. \A u \in {"phase3", "vm"} : at'[u] = "books" => todo'[u] # {} /\ todo'[u] \subseteq Book
    BY <1>1, <1>5 DEF VMInv, DataInv, BooksBehind
  <2>3. book_thunks' \in [Book -> Seq([block : Nat])]
    BY <1>3, <2>1
  <2> QED
    BY <1>1, <2>1, <2>2, <2>3 DEF BooksBehind
<1>8. \A u \in {"phase1", "vm"} :
           \/ at'[u] = at[u] /\ round'[u] = round[u] /\ todo'[u] = todo[u]
           \/ ~Gathered(u) /\ at'[u] \in {"idle", "books", "rollback_books", "headers", "rollback_headers"}
              /\ at[u] # "idle" /\ round'[u] = round[u]
  BY <1>1, <1>5 DEF Gathered
<1>9. DataInv'
  BY <1>1, <1>6, <1>7, <1>8, LaterPlaces DEF vm_vars, lmdb_vars, header_vars, history_vars
<1> QED
  BY <1>1, <1>3, <1>9 DEF NoException

\* A rewind reloads the accounts of abandoned blocks: memory is then as after
\* the last committed block.
LEMMA ReloadData ==
  ASSUME VMInv, Reload
  PROVE  NoException' /\ DataInv'
<1> USE DEF Thread
<1> DEFINE n == last_committed
           onDisk == {a \in Abandoned(n) : shard_data[a] # Absent}
           old == ledger[n + 1]
<1>1. /\ at["vm"] = "reload" /\ fault = "none"
      /\ UNCHANGED <<vm_vars, lmdb_vars, book_vars, header_vars, round, batch, ledger>>
  BY DEF Reload, At
<1>2. /\ round["vm"] = n /\ Idle("phase1") /\ Idle("phase3") /\ ~Idle("vm") /\ ~Reloaded /\ Base = proposal_base
      /\ db_round = n
  <2>1. ~Idle("vm")
    BY <1>1 DEF Idle
  <2>2. round["vm"] = n /\ PersisterIdle
    BY <2>1, Facts DEF RoundsInv, RewindAlone
  <2> QED
    BY <1>1, <2>1, <2>2 DEF PersisterIdle, VMInv, DataInv, DbInStep, Reloaded, Base
<1>3. n \in Nat /\ proposal_base \in Nat /\ n <= proposal_base /\ Len(ledger) = proposal_base + 1
      /\ ledger \in Seq([Account -> Value]) /\ old \in [Account -> Value]
  BY Facts
<1>4. \A s \in Shard : shard_round[s] = n /\ Floor(s) = n
  <2>1. \A s \in Shard : shard_round[s] = n
    BY <1>1, <1>2, Facts DEF RoundsInv, WritersInStep, ShardWritten
  <2> QED
    BY <1>1, <1>2, <2>1 DEF Floor, Gathered, Idle
<1>5. \A a \in Account : ShardOf[a] \in Shard
  BY DEF Shard
<1>6. \A a \in Account : shard_data[a] = old[a]
  BY <1>4, <1>5 DEF VMInv, DataInv, ShardsExact
<1>7. /\ committed = ledger[proposal_base + 1] /\ available = ledger[proposal_base + 1]
      /\ ids = {a \in Account : ledger[proposal_base + 1][a] # Absent}
      /\ \A a \in Account \ stale : trie[a] = committed[a]
  BY <1>2 DEF VMInv, DataInv, MemoryExact
<1> HIDE DEF old
\* An account of no abandoned thunk has kept its value.
<1>8. ASSUME NEW a \in Account, a \notin Abandoned(n)
      PROVE  ledger[proposal_base + 1][a] = old[a]
  <2>1. PICK ts \in Seq(DbThunk) : ts = persistence_thunks
    BY DEF VMInv, DataInv, ThunksTyped
  <2>2. Log(ledger, ts, n, proposal_base)
    BY <1>2, <1>4, <1>5, <2>1 DEF VMInv, DataInv, ThunksExact
  <2>3. PICK F : F = Above(ts, n)
    OBVIOUS
  <2>4. F \in Seq(DbThunk) /\ AreAbove(F, ts, n)
    BY <2>3, AboveThunks
  <2>5. \A k \in 1..Len(F) : a \notin Keys(F[k])
    BY <1>8, <2>1, <2>3, <2>4 DEF Abandoned
  <2>6. ASSUME NEW m \in (n + 1)..proposal_base PROVE ledger[m + 1][a] = ledger[m][a]
    <3>1. CASE ledger[m + 1] = ledger[m]
      BY <3>1
    <3>2. CASE \E i \in 1..Len(ts) : ts[i].block = m
      <4>1. PICK i \in 1..Len(ts) : ts[i].block = m
        BY <3>2
      <4>2. ts[i].block > n /\ Values(ledger, ts[i])
        BY <1>3, <2>2, <4>1 DEF Log
      <4>3. a \notin Keys(ts[i])
        BY <2>4, <2>5, <4>2 DEF AreAbove
      <4> QED
        BY <4>1, <4>2, <4>3 DEF Values
    <3> QED
      BY <2>2, <3>1, <3>2 DEF Log
  <2> QED
    BY <1>3, <2>6, NoChange DEF old
<1>9. Abandoned(n) \subseteq Account
  <2>1. PICK ts \in Seq(DbThunk) : ts = persistence_thunks
    BY DEF VMInv, DataInv, ThunksTyped
  <2>2. PICK F : F = Above(ts, n)
    OBVIOUS
  <2>3. F \in Seq(DbThunk)
    BY <2>2, AboveThunks
  <2>4. ASSUME NEW k \in DOMAIN F PROVE Keys(F[k]) \subseteq Account
    <3>1. F[k] \in DbThunk
      BY <2>3, <2>4
    <3>2. F[k].kvs \in UNION {[T -> Value] : T \in SUBSET Account}
      BY <3>1 DEF DbThunk
    <3>3. PICK T \in SUBSET Account : F[k].kvs \in [T -> Value]
      BY <3>2
    <3> QED
      BY <3>3 DEF Keys
  <2> QED
    BY <2>1, <2>2, <2>4 DEF Abandoned
\* The accounts that stay are those of the last committed block.
<1>10. /\ KeptIds(n) = {a \in Account : old[a] # Absent}
       /\ UpTo(creation_thunks, n) = <<>>
  <2>1. PICK ts \in Seq(CreationThunk) : ts = creation_thunks
    BY DEF VMInv, DataInv, CreationExact
  <2>2. /\ Creations(ledger, ts, proposal_base) /\ AllCreated(ledger, ts, n, proposal_base)
        /\ \A i \in 1..Len(ts) : ts[i].block > n
    BY <1>1, <1>2, <2>1 DEF VMInv, DataInv, CreationExact
  <2>3. \A i \in 1..Len(ts) : ts[i].block \in 1..proposal_base
                              /\ \A a \in ts[i].accounts : ledger[ts[i].block][a] = Absent
    BY <2>2 DEF Creations
  <2>4. PICK F : F = UpTo(ts, n)
    OBVIOUS
  <2>5. F \in Seq(CreationThunk) /\ AreUpTo(F, ts, n)
    BY <2>4, UpToThunks
  <2>6. F = <<>>
    <3>1. ~(1 \in 1..Len(F))
      <4> SUFFICES ASSUME 1 \in 1..Len(F) PROVE FALSE
        OBVIOUS
      <4>1. PICK i \in 1..Len(ts) : ts[i].block <= n
        BY <2>5 DEF AreUpTo
      <4>2. ts[i].block \in Nat /\ ts[i].block > n
        BY <2>2, <2>3
      <4> QED
        BY <1>3, <4>1, <4>2
    <3> QED
      BY <2>5, <3>1
  <2>7. PICK G : G = Above(ts, n)
    OBVIOUS
  <2>8. G \in Seq(CreationThunk) /\ AreAbove(G, ts, n)
    BY <2>7, AboveThunks
  <2>9. PICK Gone : Gone = UNION {G[i].accounts : i \in DOMAIN G}
    OBVIOUS
  <2>10. KeptIds(n) = ids \ Gone
    BY <2>1, <2>7, <2>9 DEF KeptIds
  <2>11. \A a : a \in Gone <=> \E i \in 1..Len(ts) : a \in ts[i].accounts
    <3>1. \A a : a \in Gone <=> \E k \in 1..Len(G) : a \in G[k].accounts
      BY <2>8, <2>9
    <3>2. \A k \in 1..Len(G) : \E i \in 1..Len(ts) : G[k] = ts[i]
      BY <2>8 DEF AreAbove
    <3>3. \A i \in 1..Len(ts) : \E k \in 1..Len(G) : G[k] = ts[i]
      BY <2>2, <2>8 DEF AreAbove
    <3> QED
      BY <3>1, <3>2, <3>3
  <2>12. ASSUME NEW a \in Account, old[a] # Absent PROVE a \in ids /\ a \notin Gone
    <3>1. \A j \in (n + 1)..(proposal_base + 1) : ledger[j][a] # Absent
      <4>1. /\ \A i, j \in 1..Len(ledger), x \in Account :
                 i <= j /\ ledger[i][x] # Absent => ledger[j][x] # Absent
            /\ n + 1 \in 1..Len(ledger)
            /\ \A j \in (n + 1)..(proposal_base + 1) : j \in 1..Len(ledger) /\ n + 1 <= j
        BY <1>3 DEF VMInv, DataInv, LedgerTyped
      <4> QED
        BY <2>12, <4>1 DEF old
    <3>2. a \in ids
      BY <1>3, <1>7, <3>1
    <3>3. ASSUME NEW i \in 1..Len(ts), a \in ts[i].accounts PROVE FALSE
      <4>1. ts[i].block \in (n + 1)..(proposal_base + 1)
        BY <1>3, <2>2, <2>3
      <4> QED
        BY <2>3, <3>1, <3>3, <4>1
    <3> QED
      BY <2>11, <3>2, <3>3
  <2>13. ASSUME NEW a \in Account, old[a] = Absent, a \in ids PROVE a \in Gone
    <3>1. ledger[proposal_base + 1][a] # Absent /\ ledger[n + 1][a] = Absent
      BY <1>7, <2>13 DEF old
    <3>2. PICK m \in (n + 1)..proposal_base : ledger[m][a] = Absent /\ ledger[m + 1][a] # Absent
      BY <1>3, <3>1, WasCreated
    <3>3. \E i \in 1..Len(ts) : a \in ts[i].accounts
      BY <2>2, <3>2 DEF AllCreated
    <3> QED
      BY <2>11, <3>3
  <2>14. ids \subseteq Account
    BY <1>7
  <2>15. ids \ Gone = {a \in Account : old[a] # Absent}
    BY <2>12, <2>13, <2>14
  <2> QED
    BY <2>1, <2>4, <2>6, <2>10, <2>15
<1>11. onDisk = {a \in Abandoned(n) : old[a] # Absent} /\ onDisk \subseteq KeptIds(n)
  BY <1>6, <1>9, <1>10
<1>12. PICK K : K = KeptIds(n)
  OBVIOUS
<1>13. PICK D : D = onDisk
  OBVIOUS
<1>14. /\ ids' = K /\ uncommitted_db' = {} /\ persistence_thunks' = <<>> /\ creation_thunks' = <<>>
       /\ committed' = [a \in Account |->
              IF a \notin K THEN Absent ELSE IF a \in D THEN shard_data[a] ELSE committed[a]]
       /\ available' = [a \in Account |->
              IF a \in D THEN shard_data[a] ELSE IF a \in K THEN available[a] ELSE Absent]
       /\ trie' = [a \in Account |-> IF a \in K THEN trie[a] ELSE Absent]
       /\ stale' = (stale \cup D) \cap K
       /\ at' = [at EXCEPT !["vm"] = "books"] /\ todo' = [todo EXCEPT !["vm"] = Book]
       /\ fault' = fault
  BY <1>2, <1>10, <1>11, <1>12, <1>13 DEF Reload, Move
<1>15. /\ K = {a \in Account : old[a] # Absent}
       /\ \A a \in Account : (a \in D => a \in K) /\ (a \notin D /\ a \in K => ledger[proposal_base + 1][a] = old[a])
  BY <1>8, <1>10, <1>11, <1>12, <1>13
<1>16. committed' = old /\ available' = old
  <2>1. \A a \in Account : committed'[a] = old[a] /\ available'[a] = old[a]
    BY <1>6, <1>7, <1>14, <1>15
  <2>2. /\ committed' = [a \in Account |-> committed'[a]] /\ available' = [a \in Account |-> available'[a]]
        /\ old = [a \in Account |-> old[a]]
    BY <1>3, <1>14
  <2> QED
    BY <2>1, <2>2
<1>17. \A a \in Account \ stale' : trie'[a] = old[a]
  <2>1. TAKE a \in Account \ stale'
  <2>2. CASE a \notin K
    BY <1>14, <1>15, <2>2
  <2>3. CASE a \in K
    <3>1. a \notin stale /\ a \notin D
      BY <1>14, <2>1, <2>3
    <3> QED
      BY <1>7, <1>14, <1>15, <2>3, <3>1
  <2> QED
    BY <2>2, <2>3
<1>18. /\ at \in [Thread -> Place] /\ todo \in [Thread -> SUBSET (Shard \cup Book)]
  BY Facts DEF RoundsInv, RoundsTyped, PlacesInStep
<1>19. /\ at'["vm"] = "books" /\ todo'["vm"] = Book
       /\ \A u \in Thread : u # "vm" => at'[u] = at[u] /\ todo'[u] = todo[u]
  BY <1>14, <1>18
<1>20. /\ UNCHANGED <<ledger, proposal_base, last_committed, last_persisted, executed, lmdb_mtx, db_round,
                      shard_data, shard_round, book_thunks, book_round, block_map, round, batch>>
       /\ Base' = n /\ ledger'[Base' + 1] = old
  BY <1>1, <1>19 DEF vm_vars, lmdb_vars, book_vars, header_vars, Base, Reloaded, old
<1>21. VMTyped' /\ LedgerTyped'
  <2>1. trie' \in [Account -> Value]
    BY <1>14 DEF VMInv, DataInv, VMTyped, Value
  <2>2. stale' \subseteq Account
    BY <1>14, <1>15
  <2> QED
    BY <1>20, <2>1, <2>2 DEF VMInv, DataInv, VMTyped, LedgerTyped
<1>22. MemoryExact'
  BY <1>14, <1>15, <1>16, <1>17, <1>20 DEF MemoryExact
<1>23. ThunksTyped' /\ ThunksExact' /\ BatchExact'
  <2>1. \A t \in {"phase1", "vm"} : ~Gathered(t)'
    BY <1>2, <1>19 DEF Gathered, Idle
  <2>2. \A s \in Shard : Floor(s)' = n
    BY <1>4, <1>20, <2>1 DEF Floor
  <2>3. ThunksTyped'
    BY <1>14, <1>20 DEF VMInv, DataInv, ThunksTyped
  <2>4. Log(ledger', <<>>, n, n)
    BY <1>3 DEF Log, Ascending
  <2> QED
    BY <1>14, <1>20, <2>1, <2>2, <2>3, <2>4 DEF ThunksExact, BatchExact
<1>24. ShardsExact'
  BY <1>20 DEF VMInv, DataInv, ShardsExact
<1>25. DbInStep'
  BY <1>2, <1>3, <1>19, <1>20 DEF DbInStep, Idle
<1>26. CreationExact'
  <2>1. Creations(ledger', <<>>, n) /\ AllCreated(ledger', <<>>, n, n) /\ Follows(<<>>, n, n + 1)
    BY <1>3 DEF Creations, AllCreated, Follows, Ascending
  <2> QED
    BY <1>2, <1>14, <1>19, <1>20, <2>1 DEF CreationExact
<1>27. BooksBehind'
  <2>1. Book # {}
    BY VMAssumption DEF Book
  <2> QED
    BY <1>19, <1>20, <2>1 DEF VMInv, DataInv, BooksBehind
<1> QED
  BY <1>1, <1>14, <1>21, <1>22, <1>23, <1>24, <1>25, <1>26, <1>27 DEF DataInv, NoException

\* The rewind ends: the abandoned blocks leave the header map.
LEMMA RollbackHeadersData ==
  ASSUME VMInv, RollbackHeaders
  PROVE  NoException' /\ DataInv'
<1> USE DEF Thread
<1> DEFINE n == last_committed
<1>1. /\ at["vm"] = "rollback_headers" /\ at' = [at EXCEPT !["vm"] = "idle"] /\ fault = "none"
      /\ proposal_base' = n /\ ledger' = SubSeq(ledger, 1, n + 1)
      /\ UNCHANGED <<last_committed, last_persisted, executed, value_vars, thunk_vars, lmdb_vars, book_vars,
                     round, todo, batch, stale>>
  BY DEF RollbackHeaders, At, Move
<1>2. /\ round["vm"] = n /\ Idle("phase1") /\ Reloaded /\ Base = n
  <2>1. ~Idle("vm")
    BY <1>1 DEF Idle
  <2>2. round["vm"] = n /\ PersisterIdle
    BY <2>1, Facts DEF RoundsInv, RewindAlone
  <2> QED
    BY <1>1, <2>2 DEF PersisterIdle, Reloaded, Base
<1>3. /\ n \in Nat /\ proposal_base \in Nat /\ n <= proposal_base /\ Len(ledger) = proposal_base + 1
      /\ ledger \in Seq([Account -> Value]) /\ MaxBlock \in Nat /\ proposal_base <= MaxBlock
      /\ block_map \in Seq(BOOLEAN) /\ Len(block_map) = proposal_base
  BY Facts
<1>4. ~(round["vm"] < header_round)
  BY <1>2, <1>3, Facts, HeadersBehind, Rounds
<1>5. block_map' = SubSeq(block_map, 1, n) /\ fault' = fault
  BY <1>2, <1>4 DEF RollbackHeaders
<1>6. at \in [Thread -> Place]
  BY Facts DEF RoundsInv, PlacesInStep
<1>7. /\ at'["vm"] = "idle" /\ \A u \in Thread : u # "vm" => at'[u] = at[u]
      /\ Base' = n
  BY <1>1, <1>6 DEF Base, Reloaded
<1>8. /\ ledger' \in Seq([Account -> Value]) /\ Len(ledger') = n + 1
      /\ \A i \in 1..n + 1 : ledger'[i] = ledger[i] /\ i \in 1..Len(ledger)
  BY <1>1, <1>3
<1>9. UNCHANGED <<last_committed, last_persisted, executed, ids, available, committed, trie, uncommitted_db,
                  creation_thunks, persistence_thunks, lmdb_mtx, db_round, shard_data, shard_round,
                  book_thunks, book_round, round, todo, batch, stale>>
  BY <1>1 DEF value_vars, thunk_vars, lmdb_vars, book_vars
<1>10. LedgerTyped'
  BY <1>1, <1>8 DEF VMInv, DataInv, LedgerTyped
<1>11. VMTyped'
  BY <1>1, <1>3, <1>9 DEF VMInv, DataInv, VMTyped
<1>12. MemoryExact'
  <2>1. ledger'[n + 1] = ledger[n + 1]
    BY <1>3, <1>8
  <2> QED
    BY <1>2, <1>7, <1>9, <2>1 DEF VMInv, DataInv, MemoryExact
<1>13. ThunksTyped' /\ BatchExact' /\ ThunksExact'
  <2>1. \A t \in {"phase1", "vm"} : ~Gathered(t) /\ ~Gathered(t)'
    BY <1>1, <1>2, <1>7 DEF Gathered, Idle
  <2>2. \A s \in Shard : Floor(s) = shard_round[s] /\ Floor(s)' = shard_round[s]
    BY <1>9, <2>1 DEF Floor
  <2>3. ASSUME NEW s \in Shard PROVE Log(ledger', persistence_thunks, shard_round[s], n)
    <3>1. Log(ledger, persistence_thunks, shard_round[s], n)
      BY <1>2, <2>2 DEF VMInv, DataInv, ThunksExact
    <3>2. shard_round[s] \in Nat
      BY Facts
    <3> QED
      BY <1>3, <1>8, <3>1, <3>2, LogAgree
  <2> QED
    BY <1>7, <1>9, <2>1, <2>2, <2>3 DEF VMInv, DataInv, ThunksTyped, ThunksExact, BatchExact
<1>14. ShardsExact'
  <2>1. \A s \in Shard : shard_round[s] <= n /\ ledger'[shard_round[s] + 1] = ledger[shard_round[s] + 1]
    <3>1. \A s \in Shard : shard_round[s] <= n /\ shard_round[s] + 1 \in 1..n + 1
      BY <1>3, Facts
    <3> QED
      BY <1>8, <3>1
  <2> QED
    BY <1>9, <2>1 DEF VMInv, DataInv, ShardsExact
<1>15. DbInStep'
  BY <1>1, <1>7, <1>9 DEF VMInv, DataInv, DbInStep, Idle
<1>16. CreationExact'
  <2>1. /\ Creations(ledger, creation_thunks, n) /\ AllCreated(ledger, creation_thunks, n, n)
        /\ n = 0 \/ block_map[n] => Follows(creation_thunks, db_round, n + 1)
        /\ creation_thunks \in Seq(CreationThunk)
    BY <1>2 DEF VMInv, DataInv, CreationExact
  <2>2. n <= n
    BY <1>3
  <2>3. Creations(ledger', creation_thunks, n) /\ AllCreated(ledger', creation_thunks, n, n)
    <3>1. \A i \in 1..n + 1 : ledger'[i] = ledger[i]
      BY <1>8
    <3> HIDE DEF n
    <3> QED
      BY <1>3, <2>1, <2>2, <3>1, CreationsAgree, Zenon
  <2>4. n # 0 => block_map'[n] = block_map[n]
    BY <1>3, <1>5
  <2> QED
    BY <1>7, <1>9, <2>1, <2>3, <2>4 DEF CreationExact
<1>17. BooksBehind'
  BY <1>7, <1>9 DEF VMInv, DataInv, BooksBehind
<1> QED
  BY <1>1, <1>5, <1>10, <1>11, <1>12, <1>13, <1>14, <1>15, <1>16, <1>17 DEF DataInv, NoException

-----------------------------------------------------------------------------
LEMMA VMInductive ==
  ASSUME Allow = {}
  PROVE  VMInv /\ [Next]_vars => VMInv'
<1> SUFFICES ASSUME VMInv, [Next]_vars PROVE NoException' /\ DataInv'
  BY OrderInductive DEF VMInv
<1>1. CASE UNCHANGED vars
  <2>1. UNCHANGED <<proposal_base, last_committed, last_persisted, executed, ids, available, committed,
                    trie, uncommitted_db, creation_thunks, persistence_thunks, lmdb_mtx, db_round,
                    shard_data, shard_round, book_thunks, book_round, block_map, at, round, todo, batch,
                    fault, ledger, stale>>
    BY <1>1 DEF vars, vm_vars, value_vars, thunk_vars, lmdb_vars, book_vars, header_vars, thread_vars,
                history_vars
  <2>2. Base' = Base /\ \A s \in Shard : Floor(s)' = Floor(s)
    BY <2>1 DEF Base, Reloaded, Floor, Gathered
  <2>3. VMTyped' /\ LedgerTyped' /\ MemoryExact' /\ ThunksTyped' /\ ShardsExact'
    BY <2>1, <2>2 DEF VMInv, DataInv, VMTyped, LedgerTyped, MemoryExact, ThunksTyped, ShardsExact
  <2>4. ThunksExact' /\ BatchExact'
    BY <2>1, <2>2 DEF VMInv, DataInv, ThunksExact, BatchExact, Gathered, ShardWritten
  <2>5. DbInStep' /\ CreationExact' /\ BooksBehind'
    BY <2>1, <2>2 DEF VMInv, DataInv, DbInStep, CreationExact, BooksBehind, Idle
  <2> QED
    BY <2>1, <2>3, <2>4, <2>5 DEF VMInv, DataInv, NoException
<1>2. CASE Consensus
  <2>1. ASSUME NEW n \in 1..MaxBlock, LogCommitment(n) PROVE NoException' /\ DataInv'
    <3>1. n \in Nat
      BY VMAssumption
    <3> QED
      BY <2>1, <3>1, LogCommitmentData
  <2>2. ASSUME NEW T \in SUBSET Account, Propose(T) \/ ExecBlock(T) \/ RefuseTxs(T) \/ RefuseClearing(T)
        PROVE  NoException' /\ DataInv'
    BY <2>2, ProposeData, ExecData
  <2> QED
    BY <1>2, <2>1, <2>2, StartData DEF Consensus
<1>3. CASE Persister
  <2>1. ASSUME NEW s \in Shard, WriteShard("phase1", s) \/ SyncShard("phase2", s)
        PROVE  NoException' /\ DataInv'
    BY <2>1, WriteShardData, SyncShardData
  <2>2. ASSUME \/ CollectThunks("phase1") \/ StartWrite("phase1") \/ FinishWrite("phase1")
               \/ EraseCreationThunks("phase1")
        PROVE  NoException' /\ DataInv'
    BY <2>2, CollectData, StartWriteData, FinishWriteData, EraseData
  <2>3. ASSUME PersistBook("phase3") \/ PersistHeaders("phase3") PROVE NoException' /\ DataInv'
    BY <2>3, PersistBookData, PersistHeadersData
  <2> QED
    BY <1>3, <2>1, <2>2, <2>3, StartData, HandOffData DEF Persister
<1>4. CASE Rewind
  <2>1. ASSUME NEW s \in Shard, WriteShard("vm", s) \/ SyncShard("vm", s)
        PROVE  NoException' /\ DataInv'
    BY <2>1, WriteShardData, SyncShardData
  <2>2. ASSUME \/ CollectThunks("vm") \/ StartWrite("vm") \/ FinishWrite("vm") \/ EraseCreationThunks("vm")
        PROVE  NoException' /\ DataInv'
    BY <2>2, CollectData, StartWriteData, FinishWriteData, EraseData
  <2>3. ASSUME PersistBook("vm") \/ PersistHeaders("vm") PROVE NoException' /\ DataInv'
    BY <2>3, PersistBookData, PersistHeadersData
  <2> QED
    BY <1>4, <2>1, <2>2, <2>3, ReloadData, RollbackBooksData, RollbackHeadersData DEF Rewind
<1> QED
  BY <1>1, <1>2, <1>3, <1>4 DEF Next

LEMMA VMTypes == ASSUME VMInv PROVE TypeOK
<1>1. /\ proposal_base \in Round /\ last_committed \in 0..proposal_base
      /\ last_persisted \in 0..last_committed /\ executed \in BOOLEAN
  BY Facts DEF VMInv, DataInv, VMTyped, Round
<1>2. waiting \in 0..last_committed
  BY Facts DEF RoundsInv, RewindAlone
<1>3. \A i \in DOMAIN pending : pending[i] \in Round
  <2>1. pending \in Seq(Nat) /\ \A i \in 1..Len(pending) : pending[i] <= proposal_base
    BY Facts DEF RoundsInv, RoundsTyped
  <2>2. \A i \in 1..Len(pending) : pending[i] \in Nat /\ pending[i] <= MaxBlock
    BY <2>1, Facts
  <2> QED
    BY <2>1, <2>2, Facts DEF Round
<1>4. /\ Base \in Nat /\ Base + 1 \in 1..Len(ledger) /\ Base <= MaxBlock
  BY Facts DEF Base
<1>5. /\ ids \subseteq Account /\ uncommitted_db \subseteq Account
      /\ available \in [Account -> Value] /\ committed \in [Account -> Value]
  BY <1>4, Facts DEF VMInv, DataInv, MemoryExact
<1>6. trie \in [Account -> Value] /\ shard_data \in [Account -> Value] /\ stale \subseteq Account
  BY DEF VMInv, DataInv, VMTyped
<1>7. \A i \in DOMAIN creation_thunks : creation_thunks[i] \in CreationThunk
  BY DEF VMInv, DataInv, CreationExact
<1>8. \A i \in DOMAIN persistence_thunks :
        persistence_thunks[i].block \in Round /\ Keys(persistence_thunks[i]) \subseteq Account
  <2>1. TAKE i \in DOMAIN persistence_thunks
  <2>2. persistence_thunks[i] \in DbThunk
    BY <2>1 DEF VMInv, DataInv, ThunksTyped
  <2>3. /\ persistence_thunks[i].block \in Round
        /\ persistence_thunks[i].kvs \in UNION {[T -> Value] : T \in SUBSET Account}
    BY <2>2 DEF DbThunk
  <2>4. PICK T \in SUBSET Account : persistence_thunks[i].kvs \in [T -> Value]
    BY <2>3
  <2> QED
    BY <2>3, <2>4 DEF Keys
<1>9. lmdb_mtx \in {"none", "phase1", "vm"} /\ db_round \in Round
  BY Facts DEF VMInv, DataInv, VMTyped, DbInStep, Round
<1>10. /\ shard_round \in [Shard -> Round] /\ synced_round \in [Shard -> Round]
       /\ book_round \in [Book -> Round] /\ header_round \in Round
  <2>1. \A s \in Shard : shard_round[s] \in 0..MaxBlock /\ synced_round[s] \in 0..MaxBlock
    BY Facts, Rounds DEF RoundsInv, RoundsInOrder
  <2>2. \A b \in Book : book_round[b] \in 0..MaxBlock
    BY Facts
  <2>3. header_round \in 0..MaxBlock
    BY Facts, Rounds, HeadersBehind
  <2> QED
    BY <2>1, <2>2, <2>3, Facts DEF RoundsInv, RoundsTyped, Round
<1>11. \A i \in DOMAIN block_map : block_map[i] \in BOOLEAN
  BY Facts
<1>12. \A i \in DOMAIN header_rows : i \in Round /\ header_rows[i] \in BOOLEAN
  <2>1. /\ DOMAIN header_rows = 1..header_round /\ header_round \in Nat
        /\ header_round <= Len(block_map) /\ Len(block_map) <= MaxBlock /\ MaxBlock \in Nat
        /\ \A i \in DOMAIN header_rows : header_rows[i] = block_map[i]
    BY Facts, Rounds, HeadersBehind DEF StoresOrdered
  <2> QED
    BY <2>1, Facts DEF Round
<1>13. at \in [Thread -> Place] /\ round \in [Thread -> Round]
  BY Facts DEF RoundsInv, RoundsTyped, PlacesInStep, Round
<1>14. Len(ledger) = proposal_base + 1
  BY Facts
<1> QED
  BY <1>1, <1>2, <1>3, <1>5, <1>6, <1>7, <1>8, <1>9, <1>10, <1>11, <1>12, <1>13, <1>14 DEF TypeOK

LEMMA VMCorrect ==
  ASSUME Allow = {}
  PROVE  Spec => []VMInv
<1>1. Init => VMInv
  BY OrderStart, DataStart DEF VMInv, Init, NoException
<1> QED
  BY <1>1, VMInductive, PTL DEF Spec

\* No thread throws, whatever blocks are proposed, executed, refused or
\* abandoned while the persister is at work: commit_new_accounts finds the
\* thunk it expects, exec_one_thunk its thunks in order, write_thunks no thunk
\* it has persisted, persist_lmdb every header, and a rewind the round it asks
\* for in every store.  Without the inputs of Scenarios.
THEOREM NoExceptionCorrect ==
  ASSUME Allow = {}
  PROVE  Spec => []NoException
<1>1. VMInv => NoException
  BY DEF VMInv
<1> QED
  BY <1>1, VMCorrect, PTL

\* Between blocks the database in memory is what the accepted blocks made of
\* it, although blocks were refused and proposals abandoned and reloaded from
\* LMDB (rewind_to_last_commit), and the state keeps its types.  Without the
\* inputs of Scenarios.
THEOREM DatabaseExactCorrect ==
  ASSUME Allow = {}
  PROVE  Spec => []DatabaseExact
<1>1. VMInv => DatabaseExact
  <2> SUFFICES ASSUME VMInv PROVE DatabaseExact
    OBVIOUS
  <2>1. Idle("vm") => Base = proposal_base
    BY DEF Idle, Base, Reloaded
  <2> QED
    BY <2>1, VMTypes DEF VMInv, DataInv, MemoryExact, DatabaseExact, Lead
<1> QED
  BY <1>1, VMCorrect, PTL

\* Every shard on disk holds the accounts as they were after the block of its
\* round (exec_thunks), whatever thunks were gathered together and whatever
\* the VM did meanwhile.  Without the inputs of Scenarios.
THEOREM ShardsExactCorrect ==
  ASSUME Allow = {}
  PROVE  Spec => []ShardsExact
<1>1. VMInv => ShardsExact
  BY DEF VMInv, DataInv
<1> QED
  BY <1>1, VMCorrect, PTL
=============================================================================
