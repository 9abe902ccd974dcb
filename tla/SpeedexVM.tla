----------------------------- MODULE SpeedexVM -----------------------------
(***************************************************************************)
(* The life of a block in the VM (speedex/vm/speedex_vm.cc): proposed or   *)
(* executed, committed, persisted in the background, or abandoned by a     *)
(* rewind.  The VM's threads share with the persister's three threads      *)
(* (speedex/speedex_persistence.cc) the account database                   *)
(* (memory_database/), its LMDB shards, the orderbooks' LMDB instances and *)
(* the map of block headers (header_hash/).                                *)
(*                                                                         *)
(* A block is abstracted to the accounts it changes: the value of an       *)
(* account is the number of blocks that changed it, and a block that       *)
(* changes an unknown account creates it.  What a block does to the books  *)
(* is in module Orderbook; here a book is the list of its thunks and the   *)
(* round it was persisted at.  A round is a block number.                  *)
(***************************************************************************)
EXTENDS Integers, Sequences, SequencesExt, FiniteSetsExt, Counting

CONSTANTS
    Account,        \* account ids
    Genesis,        \* those that exist at the start
    ShardOf,        \* get_shard: the LMDB shard of each account
    NumBooks,       \* number of LMDB base instances of the orderbooks
    PERSIST_BATCH,  \* blocks between two persists (persistence_frequency)
    MaxBlock,       \* bound on the block height
    Allow           \* the delicate inputs this instance includes (see below)

(***************************************************************************)
(* Inputs on which the code departs from what its comments promise.        *)
(*   gap           a block follows a refused one that left no account      *)
(*                 creation thunk and is not persisted yet                 *)
(*   dirty         the transactions of a block are refused after some of   *)
(*                 them took effect                                        *)
(*   late_new      a block is refused after its new accounts were committed*)
(*   rewind_race   a rewind starts while the persister is at work          *)
(*   stale_trie    a block is executed that leaves unchanged an account    *)
(*                 which a rewind reloaded, and whose entry in the         *)
(*                 commitment trie is still that of the abandoned block    *)
(***************************************************************************)
Scenarios == {"gap", "dirty", "late_new", "rewind_race", "stale_trie"}

Shard == {ShardOf[a] : a \in Account}
Book == 1..NumBooks

ASSUME VMAssumption ==
    /\ Genesis \subseteq Account
    /\ ShardOf \in [Account -> Shard]
    /\ NumBooks \in Nat \ {0} /\ PERSIST_BATCH \in Nat \ {0}
    /\ MaxBlock \in Nat
    /\ Allow \subseteq Scenarios

VARIABLES
    \* SpeedexVM
    proposal_base,      \* number of proposal_base_block
    last_committed,     \* number of last_committed_block
    last_persisted,     \* last_persisted_block_number
    pending,            \* pending_proposed_ids, without abandoned proposals
    executed,           \* exec_block returned, log_commitment not yet called
    waiting,            \* round log_commitment waits to hand over, or 0
    \* MemoryDatabase
    ids,                \* keys of user_id_to_idx_map
    available,          \* values with the changes of the current block
    committed,          \* committed values
    trie,               \* commitment_trie: the value each account hashes to
    uncommitted_db,     \* accounts created by the current block
    creation_thunks,    \* account_creation_thunks
    persistence_thunks, \* persistence_thunks
    \* AccountLMDB
    lmdb_mtx,           \* thread in persist_thunks, or "none"
    db_round,           \* min_ and max_persisted_round_number
    shard_data,         \* values in LMDB, Absent for none
    shard_round,        \* persisted round of each shard
    synced_round,       \* the round of each shard that survives a power cut
    \* orderbooks and header map
    book_thunks, book_round,
    block_map,          \* the header map: was block i accepted?
    header_rows,        \* rows of its LMDB
    header_round,       \* persisted round of its LMDB
    \* threads
    at, round, todo, batch,
    fault,              \* message of the exception thrown, or "none"
    \* history
    ledger,             \* ledger[n+1]: the accounts after block n
    stale               \* accounts reloaded by a rewind and not changed since

vm_vars == <<proposal_base, last_committed, last_persisted, pending, executed,
             waiting>>
value_vars == <<ids, available, committed, trie, uncommitted_db>>
thunk_vars == <<creation_thunks, persistence_thunks>>
lmdb_vars == <<lmdb_mtx, db_round, shard_data, shard_round, synced_round>>
book_vars == <<book_thunks, book_round>>
header_vars == <<block_map, header_rows, header_round>>
thread_vars == <<at, round, todo, batch>>
history_vars == <<ledger, stale>>
vars == <<vm_vars, value_vars, thunk_vars, lmdb_vars, book_vars, header_vars,
          thread_vars, fault, history_vars>>

\* The persister's threads, and the VM's inside rewind_to_last_commit.
Thread == {"phase1", "phase2", "phase3", "vm"}
Absent == -1
UpTo(ts, n) == Selected(ts, {i \in DOMAIN ts : ts[i].block <= n})
Above(ts, n) == Selected(ts, {i \in DOMAIN ts : ts[i].block > n})
Keys(t) == DOMAIN t.kvs
Fault(msg) == fault' = msg
Move(t, place) == at' = [at EXCEPT ![t] = place]
Done(t, x) == todo' = [todo EXCEPT ![t] = @ \ {x}]
\* The same, and on to the next place when nothing is left.
DoneThen(t, x, place) ==
    /\ Done(t, x)
    /\ at' = IF todo[t] = {x} THEN [at EXCEPT ![t] = place] ELSE at
Idle(t) == at[t] = "idle"
\* A thread that has got to some place; nothing runs after an exception.
At(t, place) == fault = "none" /\ at[t] = place
PersisterIdle == Idle("phase1") /\ Idle("phase2") /\ Idle("phase3")

\* A lock_guard on operation_mtx is obtained; on confirmation_mtx.
OperationFree == fault = "none" /\ Idle("vm")
ConfirmationFree == OperationFree /\ waiting = 0

-----------------------------------------------------------------------------
Lead == ledger[proposal_base + 1]
Changed(values, T) ==
    [a \in Account |-> IF a \notin T THEN values[a]
                       ELSE IF values[a] = Absent THEN 1 ELSE values[a] + 1]

Init ==
    /\ proposal_base = 0 /\ last_committed = 0 /\ last_persisted = 0
    /\ pending = <<>> /\ executed = FALSE /\ waiting = 0
    /\ ids = Genesis
    /\ available = [a \in Account |-> IF a \in Genesis THEN 0 ELSE Absent]
    /\ committed = available /\ trie = available
    /\ uncommitted_db = {}
    /\ creation_thunks = <<>> /\ persistence_thunks = <<>>
    /\ lmdb_mtx = "none" /\ db_round = 0
    /\ shard_data = available
    /\ shard_round = [s \in Shard |-> 0] /\ synced_round = shard_round
    /\ book_thunks = [b \in Book |-> <<>>] /\ book_round = [b \in Book |-> 0]
    /\ block_map = <<>> /\ header_rows = <<>> /\ header_round = 0
    /\ at = [t \in Thread |-> "idle"] /\ round = [t \in Thread |-> 0]
    /\ todo = [t \in Thread |-> {}] /\ batch = [t \in Thread |-> <<>>]
    /\ fault = "none"
    /\ ledger = <<available>> /\ stale = {}

-----------------------------------------------------------------------------
(***************************************************************************)
(* Blocks in memory.                                                       *)
(***************************************************************************)

\* The check of commit_new_accounts, on the thunks and on the round that
\* get_min_max_persisted_round_numbers returns.
ThunkFollows(n) ==
    IF creation_thunks = <<>> THEN db_round + 1 = n
                              ELSE Last(creation_thunks).block + 1 = n

AfterRefused(n) == n - 1 \in DOMAIN block_map /\ ~block_map[n-1]

\* commit_new_accounts waits for persist_thunks, which holds AccountLMDB::mtx.
CanCommitAccounts(n) ==
    /\ lmdb_mtx = "none"
    /\ AfterRefused(n) => ThunkFollows(n) \/ "gap" \in Allow

\* BlockHeaderHashMap::insert.
HeaderFollows(n) == n = Len(block_map) + 1
insert(ok) == block_map' = Append(block_map, ok)

\* The accounts whose value in the commitment trie is refreshed: those of the
\* modification log, and the new ones, which commit_new_accounts inserts.
Rehashed(T, created) == T \cup created

\* tentative_produce_state_commitment: the trie after a block that changes T.
TrieAfter(T) ==
    LET created == (T \ ids) \cup uncommitted_db
        now     == Changed(available, T)
    IN [a \in Account |-> IF a \in Rehashed(T, created) THEN now[a] ELSE trie[a]]

\* The block's thunk: the committed values of the modification log.
persist_critical_round_data(n, T, now) ==
    persistence_thunks' =
        Append(persistence_thunks, [block |-> n, kvs |-> [a \in T |-> now[a]]])

\* A block that changes T enters the database, the books and the header map:
\* commit_new_accounts, the books' thunks, commit_values on the accounts of
\* the modification log, the commitment trie, the header, and the thunk.
CommitBlock(n, T) ==
    LET created == (T \ ids) \cup uncommitted_db
        now     == Changed(available, T)
    IN /\ available' = now
       /\ committed' = [a \in Account |->
                          IF a \in T \cup created THEN now[a] ELSE committed[a]]
       /\ trie' = TrieAfter(T)
       /\ ids' = ids \cup created
       /\ uncommitted_db' = {}
       /\ creation_thunks' =
            Append(creation_thunks, [block |-> n, accounts |-> created])
       /\ persist_critical_round_data(n, T, now)
       /\ book_thunks' = [b \in Book |-> Append(book_thunks[b], [block |-> n])]
       /\ insert(TRUE)
       /\ ledger' = Append(ledger, Changed(Lead, T))
       /\ stale' = stale \ T

BlockThrows(n) ==
    /\ ~ThunkFollows(n) \/ ~HeaderFollows(n)
    /\ Fault(IF ThunkFollows(n) THEN "inserting wrong block number"
             ELSE "account creation thunks block number error")
    /\ UNCHANGED <<vm_vars, value_vars, thunk_vars, lmdb_vars, book_vars,
                   header_vars, thread_vars, history_vars>>

\* SpeedexVM::propose.
Propose(T) ==
    LET n == proposal_base + 1
    IN /\ OperationFree /\ ~executed
       /\ n <= MaxBlock /\ CanCommitAccounts(n) /\ T \cap uncommitted_db = {}
       /\ \/ BlockThrows(n)
          \/ /\ ThunkFollows(n) /\ HeaderFollows(n)
             /\ CommitBlock(n, T)
             /\ proposal_base' = n
             /\ pending' = Append(pending, n)
             /\ UNCHANGED <<last_committed, last_persisted, executed, waiting,
                            lmdb_vars, book_round, header_rows, header_round,
                            thread_vars, fault>>

\* exec_block on the next block; consensus has rewound any proposal.  On any
\* other number it returns at once.
CanExec == /\ ConfirmationFree /\ ~executed
           /\ proposal_base = last_committed /\ last_committed < MaxBlock

\* Whatever the result, the block counts as committed and the base of
\* proposals follows.
Executed ==
    /\ last_committed' = last_committed + 1
    /\ proposal_base' = last_committed + 1
    /\ executed' = TRUE
    /\ UNCHANGED <<last_persisted, pending, waiting>>

\* The hash in the header, which a replica with an exact trie computed, is the
\* one computed here.
HashMatches(T) == TrieAfter(T) = Changed(Lead, T)

\* debug_hash_discrepancy.
HashThrows(n, T) ==
    /\ ThunkFollows(n) /\ ~HashMatches(T)
    /\ Fault("crash immediately on desync")
    /\ UNCHANGED <<vm_vars, value_vars, thunk_vars, lmdb_vars, book_vars,
                   header_vars, thread_vars, history_vars>>

\* The block passes every check, and its hash is compared: finalize_commit.
ExecBlock(T) ==
    LET n == last_committed + 1
    IN /\ CanExec /\ CanCommitAccounts(n) /\ T \cap uncommitted_db = {}
       /\ HashMatches(T) \/ "stale_trie" \in Allow
       /\ \/ BlockThrows(n)
          \/ HashThrows(n, T)
          \/ /\ ThunkFollows(n) /\ HashMatches(T) /\ HeaderFollows(n)
             /\ CommitBlock(n, T)
             /\ Executed
             /\ UNCHANGED <<lmdb_vars, book_round, header_rows, header_round,
                            thread_vars, fault>>

\* A refused block enters the header map all the same.
RecordRefused(n) ==
    /\ HeaderFollows(n)
    /\ insert(FALSE)
    /\ ledger' = Append(ledger, Lead)
    /\ Executed
    /\ UNCHANGED <<lmdb_vars, book_vars, header_rows, header_round,
                   thread_vars, fault, stale>>

\* Refused on its header, or on a transaction: autorollback is not armed, and
\* what the transactions on the accounts T did stays.
RefuseTxs(T) ==
    /\ CanExec
    /\ T = {} \/ "dirty" \in Allow
    /\ T \cap uncommitted_db = {}
    /\ available' = Changed(available, T)
    /\ uncommitted_db' = uncommitted_db \cup (T \ ids)
    /\ RecordRefused(last_committed + 1)
    /\ UNCHANGED <<ids, committed, trie, thunk_vars>>

\* The thunks and accounts that rollback_new_accounts_(n) leaves.
KeptIds(n) == ids \ UNION {Above(creation_thunks, n)[i].accounts :
                             i \in DOMAIN Above(creation_thunks, n)}

\* Refused on its clearing, after tentative_commit_for_validation: the
\* destructor of DatabaseAutoRollback calls rollback_new_accounts on the
\* block's own number, then rollback_values.
RefuseClearing(T) ==
    LET n       == last_committed + 1
        created == (T \ ids) \cup uncommitted_db
        now     == Changed(available, T)
        values  == [a \in Account |-> IF a \in created THEN now[a] ELSE committed[a]]
    IN /\ CanExec /\ CanCommitAccounts(n)
       /\ created = {} \/ "late_new" \in Allow
       /\ T \cap uncommitted_db = {}
       /\ \/ BlockThrows(n)
          \/ /\ ThunkFollows(n)
             /\ committed' = values
             /\ available' = values
             /\ trie' = [a \in Account |->
                           IF a \in created THEN now[a] ELSE trie[a]]
             /\ ids' = ids \cup created
             /\ uncommitted_db' = {}
             /\ creation_thunks' =
                  Append(creation_thunks, [block |-> n, accounts |-> created])
             /\ RecordRefused(n)
             /\ UNCHANGED persistence_thunks

-----------------------------------------------------------------------------
(***************************************************************************)
(* log_commitment.                                                         *)
(***************************************************************************)

\* The ids behind the first occurrence of n, all popped if it does not occur.
PopTo(n) ==
    IF Contains(pending, n)
    THEN SubSeq(pending, Min({i \in DOMAIN pending : pending[i] = n}) + 1,
                Len(pending))
    ELSE <<>>

Due(n) == n >= last_persisted + PERSIST_BATCH

\* A proposal of this node is committed, or the block it just executed.
LogCommitment(n) ==
    /\ ConfirmationFree
    /\ IF executed THEN n = last_committed
                   ELSE n > last_committed /\ Contains(pending, n)
    /\ pending' = PopTo(n)
    /\ last_committed' = n
    /\ waiting' = IF Due(n) THEN n ELSE 0
    /\ executed' = FALSE
    /\ UNCHANGED <<proposal_base, last_persisted, value_vars, thunk_vars,
                   lmdb_vars, book_vars, header_vars, thread_vars, fault,
                   history_vars>>

\* do_async_persist: wait for phase 1, give it the round.
DoAsyncPersist ==
    /\ waiting # 0 /\ Idle("phase1") /\ fault = "none"
    /\ round' = [round EXCEPT !["phase1"] = waiting]
    /\ Move("phase1", "collect")
    /\ last_persisted' = waiting
    /\ waiting' = 0
    /\ UNCHANGED <<proposal_base, last_committed, pending, executed, value_vars,
                   thunk_vars, lmdb_vars, book_vars, header_vars, todo, batch,
                   fault, history_vars>>

-----------------------------------------------------------------------------
(***************************************************************************)
(* Persistence.  Phase 1 writes the account shards, phase 2 syncs them,    *)
(* phase 3 writes books and headers; a rewind does all of it by itself.    *)
(***************************************************************************)

\* commit_persistence_thunks, first part: under db_thunks_mtx.
CollectThunks(t) ==
    /\ At(t, "collect")
    /\ batch' = [batch EXCEPT ![t] = UpTo(persistence_thunks, round[t])]
    /\ persistence_thunks' = Above(persistence_thunks, round[t])
    /\ Move(t, "write")
    /\ UNCHANGED <<vm_vars, value_vars, creation_thunks, lmdb_vars, book_vars,
                   header_vars, round, todo, fault, history_vars>>

\* persist_thunks takes AccountLMDB::mtx and wakes a worker for each shard.
StartWrite(t) ==
    /\ At(t, "write") /\ lmdb_mtx = "none"
    /\ lmdb_mtx' = t
    /\ todo' = [todo EXCEPT ![t] = Shard]
    /\ Move(t, "writing")
    /\ UNCHANGED <<vm_vars, value_vars, thunk_vars, db_round, shard_data,
                   shard_round, synced_round, book_vars, header_vars, round,
                   batch, fault, history_vars>>

\* exec_one_thunk, on the thunks in order, starting at round r: each must be
\* after the one before, unless that is round 0.
InOrder(ts, r) ==
    \A i \in DOMAIN ts :
        LET before == IF i = 1 THEN r ELSE ts[i-1].block
        IN before # 0 => ts[i].block > before
LastRound(ts, r) == IF ts = <<>> THEN r ELSE Last(ts).block

\* The value a shard has for a after the thunks: that of the last one with a.
\* Faulty variant: the first one wins.
ValueAfter_First(ts, a) ==
    LET with == {i \in DOMAIN ts : a \in Keys(ts[i])}
    IN IF with = {} THEN shard_data[a] ELSE ts[Min(with)].kvs[a]
ValueAfter(ts, a) ==
    LET with == {i \in DOMAIN ts : a \in Keys(ts[i])}
    IN IF with = {} THEN shard_data[a] ELSE ts[Max(with)].kvs[a]

\* AsyncAccountLMDBShardWorker::exec_thunks: one LMDB transaction.
WriteShard(t, s) ==
    /\ At(t, "writing") /\ s \in todo[t]
    /\ LET valid == /\ InOrder(batch[t], shard_round[s])
                    /\ LastRound(batch[t], shard_round[s]) <= round[t]
       IN IF valid
          THEN /\ shard_data' = [a \in Account |->
                      IF ShardOf[a] = s THEN ValueAfter(batch[t], a)
                                        ELSE shard_data[a]]
               /\ shard_round' = [shard_round EXCEPT ![s] = round[t]]
               /\ UNCHANGED fault
          ELSE /\ Fault("can't persist blocks in wrong order!!!")
               /\ UNCHANGED <<shard_data, shard_round>>
    /\ Done(t, s)
    /\ UNCHANGED <<vm_vars, value_vars, thunk_vars, lmdb_mtx, db_round,
                   synced_round, book_vars, header_vars, at, round, batch,
                   history_vars>>

\* The persisted round, published once all workers are done.
\* Faulty variant: it is not updated.
Published_Kept(n) == db_round
Published(n) == Max({db_round, n})

\* wait_for_all_workers, and the end of persist_thunks.
FinishWrite(t) ==
    /\ At(t, "writing") /\ todo[t] = {}
    /\ db_round' = Published(round[t])
    /\ lmdb_mtx' = "none"
    /\ batch' = [batch EXCEPT ![t] = <<>>]
    /\ Move(t, "erase")
    /\ UNCHANGED <<vm_vars, value_vars, thunk_vars, shard_data, shard_round,
                   synced_round, book_vars, header_vars, round, todo, fault,
                   history_vars>>

\* commit_persistence_thunks, last part, again under db_thunks_mtx.
EraseCreationThunks(t) ==
    /\ At(t, "erase")
    /\ creation_thunks' = Above(creation_thunks, round[t])
    /\ IF t = "vm"
       THEN Move(t, "sync") /\ todo' = [todo EXCEPT ![t] = Shard]
       ELSE Move(t, "handoff") /\ UNCHANGED todo
    /\ UNCHANGED <<vm_vars, value_vars, persistence_thunks, lmdb_vars,
                   book_vars, header_vars, round, batch, fault, history_vars>>

\* do_async_persist_phase2 and _phase3: wait for the next phase to be idle.
\* Faulty variant: the next phase is not started.
HandOff_Lost(t, next, place, work) ==
    /\ At(t, "handoff") /\ Idle(next)
    /\ Move(t, "idle")
    /\ UNCHANGED <<vm_vars, value_vars, thunk_vars, lmdb_vars, book_vars,
                   header_vars, round, todo, batch, fault, history_vars>>
HandOff(t, next, place, work) ==
    /\ At(t, "handoff") /\ Idle(next)
    /\ at' = [at EXCEPT ![t] = "idle", ![next] = place]
    /\ round' = [round EXCEPT ![next] = round[t]]
    /\ todo' = [todo EXCEPT ![next] = work]
    /\ UNCHANGED <<vm_vars, value_vars, thunk_vars, lmdb_vars, book_vars,
                   header_vars, batch, fault, history_vars>>
HandOff1 == HandOff("phase1", "phase2", "sync", Shard)
HandOff2 == HandOff("phase2", "phase3", "books", Book)

\* force_sync: a worker for each shard calls fsync; the call returns when all
\* have.
SyncShard(t, s) ==
    /\ At(t, "sync") /\ s \in todo[t]
    /\ synced_round' = [synced_round EXCEPT ![s] = shard_round[s]]
    /\ DoneThen(t, s, IF t = "vm" THEN "reload" ELSE "handoff")
    /\ UNCHANGED <<vm_vars, value_vars, thunk_vars, lmdb_mtx, db_round,
                   shard_data, shard_round, book_vars, header_vars, round,
                   batch, fault, history_vars>>

\* OrderbookManager::persist_lmdb, one base instance after the other: each
\* takes its thunks and commits in one LMDB transaction.
PersistBook(t) ==
    /\ At(t, "books")
    /\ LET b   == Min(todo[t])
           ts  == UpTo(book_thunks[b], round[t])
       IN /\ IF ts # <<>> /\ ts[1].block <= book_round[b]
             THEN Fault("too small current_block_number") /\ UNCHANGED book_round
             ELSE book_round' = [book_round EXCEPT ![b] = round[t]] /\ UNCHANGED fault
          /\ book_thunks' = [book_thunks EXCEPT ![b] = Above(@, round[t])]
          /\ DoneThen(t, b, IF t = "vm" THEN "rollback_books" ELSE "headers")
    /\ UNCHANGED <<vm_vars, value_vars, thunk_vars, lmdb_vars, header_vars,
                   round, batch, history_vars>>

\* BlockHeaderHashMap::persist_lmdb writes the rows from the persisted round
\* on, and the round.
\* Faulty variant: the loop stops before the round itself.
RowsWritten_Before(n) == (header_round..(n - 1)) \ {0}
RowsWritten(n) == (header_round..n) \ {0}
PersistHeaders(t) ==
    /\ At(t, "headers")
    /\ IF RowsWritten(round[t]) \subseteq DOMAIN block_map
       THEN /\ header_rows' =
                 [i \in DOMAIN header_rows \cup RowsWritten(round[t]) |->
                    IF i \in RowsWritten(round[t]) THEN block_map[i]
                                                  ELSE header_rows[i]]
            /\ header_round' = round[t]
            /\ UNCHANGED fault
       ELSE /\ Fault("did not find hash in hash_map!")
            /\ UNCHANGED <<header_rows, header_round>>
    /\ Move(t, IF t = "vm" THEN "rollback_headers" ELSE "idle")
    /\ UNCHANGED <<vm_vars, value_vars, thunk_vars, lmdb_vars, book_vars,
                   block_map, round, todo, batch, history_vars>>

-----------------------------------------------------------------------------
(***************************************************************************)
(* rewind_to_last_commit, by the VM.  It does not stop the persister.      *)
(***************************************************************************)
BeginRewind ==
    /\ ConfirmationFree /\ ~executed
    /\ "rewind_race" \in Allow \/ PersisterIdle
    /\ round' = [round EXCEPT !["vm"] = last_committed]
    /\ Move("vm", "collect")
    /\ UNCHANGED <<vm_vars, value_vars, thunk_vars, lmdb_vars, book_vars,
                   header_vars, todo, batch, fault, history_vars>>

\* clear_persistence_thunks_and_reload: new accounts are removed, then every
\* account of an abandoned thunk that LMDB knows is read back.  The
\* commitment trie is not updated.
\* Faulty variant: only the first thunk is read back.
Abandoned_First(n) ==
    LET ts == Above(persistence_thunks, n)
    IN IF ts = <<>> THEN {} ELSE Keys(ts[1])
Abandoned(n) ==
    LET ts == Above(persistence_thunks, n)
    IN UNION {Keys(ts[i]) : i \in DOMAIN ts}
Reload ==
    /\ At("vm", "reload") /\ lmdb_mtx = "none"
    /\ LET n      == round["vm"]
           onDisk == {a \in Abandoned(n) : shard_data[a] # Absent}
           value(a) == IF a \notin KeptIds(n) THEN Absent
                       ELSE IF a \in onDisk THEN shard_data[a] ELSE committed[a]
       IN IF db_round # n \/ ~(onDisk \subseteq KeptIds(n))
          THEN /\ Fault("mismatch between expected round in db and actual")
               /\ UNCHANGED <<value_vars, thunk_vars, at, todo, stale>>
          ELSE /\ ids' = KeptIds(n)
               /\ committed' = [a \in Account |-> value(a)]
               /\ available' = [a \in Account |->
                      IF a \in onDisk THEN shard_data[a]
                      ELSE IF a \in KeptIds(n) THEN available[a] ELSE Absent]
               /\ trie' = [a \in Account |->
                      IF a \in KeptIds(n) THEN trie[a] ELSE Absent]
               /\ uncommitted_db' = {}
               /\ creation_thunks' = UpTo(creation_thunks, n)
               /\ persistence_thunks' = <<>>
               /\ stale' = (stale \cup onDisk) \cap KeptIds(n)
               /\ Move("vm", "books")
               /\ todo' = [todo EXCEPT !["vm"] = Book]
               /\ UNCHANGED fault
    /\ UNCHANGED <<vm_vars, lmdb_vars, book_vars, header_vars, round, batch,
                   ledger>>

\* OrderbookManager::rollback_thunks.
RollbackBooks ==
    /\ At("vm", "rollback_books")
    /\ IF \E b \in Book : round["vm"] < book_round[b]
       THEN Fault("can't rollback persisted objects") /\ UNCHANGED book_thunks
       ELSE /\ book_thunks' = [b \in Book |-> UpTo(book_thunks[b], round["vm"])]
            /\ UNCHANGED fault
    /\ Move("vm", "headers")
    /\ UNCHANGED <<vm_vars, value_vars, thunk_vars, lmdb_vars, book_round,
                   header_vars, round, todo, batch, history_vars>>

\* rollback_to_committed_round, and the base of proposals moves back.  The ids
\* of abandoned proposals stay in pending_proposed_ids until the next call of
\* log_commitment pops them; it never names one of them, so they are dropped.
RollbackHeaders ==
    /\ At("vm", "rollback_headers")
    /\ IF round["vm"] < header_round
       THEN Fault("can't rollback beyond lmdb persist") /\ UNCHANGED block_map
       ELSE block_map' = SubSeq(block_map, 1, round["vm"]) /\ UNCHANGED fault
    /\ proposal_base' = last_committed
    /\ pending' = <<>>
    /\ ledger' = SubSeq(ledger, 1, last_committed + 1)
    /\ Move("vm", "idle")
    /\ UNCHANGED <<last_committed, last_persisted, executed, waiting, value_vars,
                   thunk_vars, lmdb_vars, book_vars, header_rows, header_round,
                   round, todo, batch, stale>>

-----------------------------------------------------------------------------
\* What the persister's threads do by themselves.
Persister ==
    \/ DoAsyncPersist
    \/ CollectThunks("phase1") \/ StartWrite("phase1")
    \/ \E s \in Shard : WriteShard("phase1", s)
    \/ FinishWrite("phase1") \/ EraseCreationThunks("phase1") \/ HandOff1
    \/ \E s \in Shard : SyncShard("phase2", s)
    \/ HandOff2
    \/ PersistBook("phase3") \/ PersistHeaders("phase3")

\* A rewind in progress.
Rewind ==
    \/ CollectThunks("vm") \/ StartWrite("vm")
    \/ \E s \in Shard : WriteShard("vm", s)
    \/ FinishWrite("vm") \/ EraseCreationThunks("vm")
    \/ \E s \in Shard : SyncShard("vm", s)
    \/ Reload
    \/ PersistBook("vm") \/ RollbackBooks
    \/ PersistHeaders("vm") \/ RollbackHeaders

\* What consensus asks of the VM.
Consensus ==
    \/ \E T \in SUBSET Account :
         Propose(T) \/ ExecBlock(T) \/ RefuseTxs(T) \/ RefuseClearing(T)
    \/ \E n \in 1..MaxBlock : LogCommitment(n)
    \/ BeginRewind

Next == Consensus \/ Persister \/ Rewind

\* The worker threads run when they have work; consensus may stay silent.
Spec == Init /\ [][Next]_vars
FairSpec == Spec /\ WF_vars(Persister) /\ WF_vars(Rewind)

-----------------------------------------------------------------------------
Value == {Absent} \cup 0..MaxBlock
Round == 0..MaxBlock
CreationThunk == [block : Round, accounts : SUBSET Account]
Place == {"idle", "collect", "write", "writing", "erase", "handoff", "sync",
          "reload", "books", "rollback_books", "headers", "rollback_headers"}

\* Types.
TypeOK ==
    /\ proposal_base \in Round /\ last_committed \in 0..proposal_base
    /\ last_persisted \in 0..last_committed /\ waiting \in 0..last_committed
    /\ \A i \in DOMAIN pending : pending[i] \in Round
    /\ executed \in BOOLEAN
    /\ ids \subseteq Account /\ uncommitted_db \subseteq Account
    /\ available \in [Account -> Value] /\ committed \in [Account -> Value]
    /\ trie \in [Account -> Value] /\ shard_data \in [Account -> Value]
    /\ \A i \in DOMAIN creation_thunks : creation_thunks[i] \in CreationThunk
    /\ \A i \in DOMAIN persistence_thunks :
          /\ persistence_thunks[i].block \in Round
          /\ Keys(persistence_thunks[i]) \subseteq Account
    /\ lmdb_mtx \in {"none", "phase1", "vm"} /\ db_round \in Round
    /\ shard_round \in [Shard -> Round] /\ synced_round \in [Shard -> Round]
    /\ book_round \in [Book -> Round] /\ header_round \in Round
    /\ \A i \in DOMAIN block_map : block_map[i] \in BOOLEAN
    /\ \A i \in DOMAIN header_rows : i \in Round /\ header_rows[i] \in BOOLEAN
    /\ at \in [Thread -> Place] /\ round \in [Thread -> Round]
    /\ Len(ledger) = proposal_base + 1 /\ stale \subseteq Account

(***************************************************************************)
(* No thread throws: thunks reach commit_new_accounts, exec_one_thunk and  *)
(* write_thunks in an order they accept, a rewind finds the round it asks  *)
(* for in LMDB, and headers are inserted in sequence ("block header hash   *)
(* map requires strict sequentiality, unlike memdb thunks & orderbook      *)
(* thunks", block_header_hash_map.cc), and a valid block's hash is the one *)
(* computed here ("crash immediately on desync").  An exception ends the   *)
(* process.                                                                *)
(***************************************************************************)
NoException == fault = "none"

(***************************************************************************)
(* Between blocks the database in memory is exactly what the blocks        *)
(* accepted so far made of it, although some were refused and others       *)
(* abandoned ("If fails, no-op.", speedex_operation.cc).  So is the trie   *)
(* whose hash every block carries, except for accounts that a rewind       *)
(* reloaded and no block has changed since: reloading leaves the trie.     *)
(* And the state keeps its types.                                          *)
(***************************************************************************)
DatabaseExact ==
    /\ TypeOK
    /\ Idle("vm") =>
         /\ committed = Lead /\ available = Lead /\ uncommitted_db = {}
         /\ ids = {a \in Account : Lead[a] # Absent}
         /\ \A a \in Account \ stale : trie[a] = committed[a]

(***************************************************************************)
(* Every shard on disk holds the accounts as they were after the block of  *)
(* its round, whatever blocks were written together and whatever the VM    *)
(* did meanwhile; a block not yet committed is never on disk.              *)
(***************************************************************************)
ShardsExact ==
    \A s \in Shard :
        /\ shard_round[s] <= last_committed
        /\ \A a \in Account : ShardOf[a] = s =>
              shard_data[a] = ledger[shard_round[s] + 1][a]

(***************************************************************************)
(* Whenever the power fails, the stores are left in the order that         *)
(* reloading relies on: no orderbook ahead of a synced account shard       *)
(* ("can't reload if workunit persists without db", reload_from_hotstuff), *)
(* no header ahead of a book, and exactly the headers 1 to the persisted   *)
(* round, each with its block's result ("LMDB committed to round X contains*)
(* entries 1 through X.", block_header_hash_map.cc).                       *)
(***************************************************************************)
StoresOrdered ==
    /\ \A b \in Book, s \in Shard : book_round[b] <= synced_round[s]
    /\ \A b \in Book : header_round <= book_round[b]
    /\ DOMAIN header_rows = 1..header_round
    /\ \A i \in DOMAIN header_rows : header_rows[i] = block_map[i]

(***************************************************************************)
(* A round that log_commitment wants persisted is persisted in the end, in *)
(* all stores: the three phases, which wait for each other, and            *)
(* commit_new_accounts, which waits for the writers, never block for good. *)
(***************************************************************************)
PersistFinishes ==
    \A n \in 1..MaxBlock : waiting = n ~> header_round >= n
=============================================================================
