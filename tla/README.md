# A TLA+ verification of SPEEDEX

SPEEDEX is a replicated exchange. Every block is a *set* of transactions that
commute, so that a replica executes them on many threads in any order; the offers
of a block all trade at one vector of prices. This directory holds TLA+ models of
the replica, TLC configurations that check them on small instances, and proofs
that the TLAPS proof system checks. Paths below are relative to `src/`.

`PROJECT.json` lists, for every definition, the lines it models (`map`), every
run with its properties, and for every property a mutation of the model, as a
plausible bug in the code would change it, that makes TLC report a violation.

## 1. The system

A replica is one process: a VM (`speedex/vm/speedex_vm.cc`) called by consensus
(HotStuff, a submodule) to *propose* a block, to *execute* a block proposed
elsewhere, to note that a block is *committed*, or to *rewind* to the last
committed block. It keeps these components.

| Component | State | Operations | Talks to |
|---|---|---|---|
| Transaction processing (`block_processing/serial_transaction_processor.cc`) | per-thread database view and offer tries | `process_transaction`, one per operation type, `unwind` | memory database, orderbooks, modification log |
| Memory database (`memory_database/`) | accounts: balances as atomics, 64-bit vector of sequence numbers; account ids reserved and new; persistence thunks; LMDB shards | withdraw (compare-and-swap), credit, reserve/release/commit of sequence numbers and account ids, commit, persist, reload | everything |
| Block production (`block_processing/block_producer.cc`) | remaining block space, total size | `build_block`: parallel reduce over mempool chunks, merge of offers | mempool, processing |
| Block validation (`block_processing/block_validator.cc`, `speedex/speedex_operation.cc`) | automatic-rollback wrappers | validate transactions, clear offers, compare hashes, finalize or roll back | database, orderbooks |
| Mempool (`mempool/`) | buffer of chunks, list of chunks with bitmaps, sizes | add, push buffer, remove confirmed, filter, join | network, VM, two background threads |
| Orderbook (`orderbook/`) | trie of offers per pair of assets, marks, rollback marks, thunks, LMDB table | merge, cancel, clear, partly execute, undo, persist, reload | processing, validation, persister |
| Price computation (`price_computation/`, `simplex/`) | price and demand workspaces, worker threads | tatonnement query, timeout, linear program | VM, orderbooks |
| Modification log (`modlog/`) | trie of accounts touched by the block, merge thread | log, merge, persist | processing, persister |
| Header hash map (`header_hash/`) | block number to hash, LMDB | insert (strictly in sequence), roll back, persist | VM, persister |
| Persister and recovery (`speedex/speedex_persistence.cc`, `speedex/reload_from_hotstuff.cc`) | pipeline of three threads | persist up to a block; replay from the log per store | all stores |
| Filtering (`filtering/`) | per-account summary of a block | parallel accumulation, verdict per account | VM |
| Overlay (`overlay/`) | batches to forward, known mempool sizes | send, poll, retry | remote mempools |

What is hard in it:

* **Concurrency without locks.** Workers debit shared balances directly and undo
  the debit if the transaction fails later; correctness rests on the order in
  which atomics are read and written.
* **Speculation.** A sequence number, an account id or a cancelled offer is taken
  by a transaction that may still fail, and is seen as taken by others meanwhile.
* **Background threads** (mempool cleaner and filter, persister, log merge,
  tatonnement) share structures with the VM, guarded by flags and conditions.
* **Two lives of a block.** A block acts on memory at once and on disk later, in
  batches; meanwhile it may be refused, rewound, or lost in a crash.

What makes each component correct: transaction processing, that its concurrent
execution equals an atomic one (nothing overdrawn, nothing granted twice, nothing
left of a failed transaction); block space, that the limit holds and no space is
lost; mempool, that transactions leave it only when included or stale, and that
the VM never waits forever; orderbook, that memory and disk are the result of
accepted blocks and nothing else; database, the same for accounts, with all
stores recoverable to one block; prices, that one query has one answer.

## 2. Modules

| Module | Models | Checked by |
|---|---|---|
| `TxProcessing` | block production's transaction processing | `tx_contention`, proofs |
| `AtomicLedger` | abstract: a ledger that applies a transaction in one step | `tx_contention` |
| `TxRefinement` | refinement mapping from `TxProcessing` to `AtomicLedger` | `tx_contention` |
| `BlockSpace` | the block-size budget of `build_block` | `block_space`, `block_limit` |
| `Validation` | the parallel validation of a block's transactions, the modification log and its merge | `block_space` |
| `Filtering` | the filter of a block's transactions by account | `block_space` |
| `Mempool` | mempool, cleaner, filter, and the VM's calls to them | `mempool` |
| `Overlay` | flooding of transaction batches between replicas | `mempool` |
| `Orderbook` | one orderbook, its thunks and its LMDB table | `orderbook`, `orderbook_persist`, `orderbook_rollback`, proofs |
| `PriceArith` | fixed-point prices and amounts, numbering of orderbooks | `orderbook`, `price_query` |
| `Market` | one block's market: demand, price search, linear program, clearing, its check | `orderbook` |
| `Tatonnement` | the threads of price computation and the producer that drives them | `price_query`, `price_clearing` |
| `DemandOracle` | the helper threads of one price search | `price_query` |
| `Simplex` | the two simplex solvers | `price_query`, `simplex_peel` |
| `SpeedexVM` | the VM's blocks, the account database, its LMDB shards, the header map and the asynchronous persister | `vm_blocks`, `vm_refused` |
| `Counting` | sums of set sizes, counted as cells of a table; subsequences by rank | with `BlockSpace`, `SpeedexVM`, `Orderbook`, `TxRefinement` |
| `TxProcessing_proof`, `TxRefinement_proof`, `BlockSpace_proof`, `Orderbook_proof`, `SpeedexVM_proof` | theorems about the module of that name | tlapm |
| `Mempool_proof` | theorems about `Mempool` and about `Overlay`, which fills it | tlapm |
| `PriceSearch_proof` | theorems about `Tatonnement` and about `DemandOracle` | tlapm |
| `Counting_proof` | the lemmas on counting, ranks and least elements that the other proofs share | tlapm |
| `MC*` | constants for TLC | |

Operators whose name ends in `_Something` and that no specification uses are the
mutations of `PROJECT.json`: faulty variants of the operator of that name.

A run may hold modules of several components (`MCBlockSpace`, `MCMempool`,
`MCOrderbook`, `MCPriceQuery`). They share no variable: a behaviour starts with one
of them at its beginning and the others at their end, and moves that one only.
Where the components meet is said with each module.

How the modules fit together. `Validation` takes its blocks from `AtomicLedger`,
which `TxRefinement` shows to be what production implements, so `ReplicaAgrees` is
about producer and validator together. `Market` decides by arithmetic which offers
clear; `Orderbook` takes any such decision and follows it through memory, disk and
rollback; `SpeedexVM` follows a block through all stores. `Tatonnement` takes the
outcome of a search (clears, or how much utility it loses) as a choice; `Market` has
the rounds of one search; `DemandOracle` has the threads that compute the demand of
one round. `Overlay` ends where `Mempool` begins, in
`chunkify_and_add_to_mempool_buffer`.

### 2.1 TxProcessing

`SerialTransactionProcessor::process_transaction`, run by several workers. Every
access to shared memory (an atomic operation, or a critical section under a lock)
is one action; what a worker computes in its own view is folded into the access
before it. `pc[w]` is the position in `process_transaction`:

* `StartTx`, `RejectTx`: the checks that read nothing that changes during
  production (format, fee bid, source account, signature);
* `ReserveSeqNum`, `SeqNumRefused`: the `fetch_or` of the sequence tracker;
* `ChargeFromBuffer`, `LoadAvailable`, `InsufficientBalance`, `CasAvailable`,
  `CasRetry`: a withdrawal, first from the view's buffered credits and then from
  the shared balance by load and compare-and-swap (fee, payment, escrow, funding
  of a new account);
* `Op*`: the rest of each operation, with all its error returns;
* `UnwindOp`, `UnwindBalance`, `ReleaseAccount`, `ReleaseSeqNum`: failure;
* `CommitBalance`, `CommitAccount`, `CommitDone`: success;
* `FinishBuild`: the merge of the workers' offer tries.

Abstractions. Balances are mathematical integers: the bound of `is_valid_amount`
is kept, the 63-bit limit on a sum of balances is not. Signatures, offer
categories and prices are inputs with a verdict each. A worker may take any
queued transaction (the code takes those of its chunk in order), and new accounts
are released or published in any order; both only add behaviours.

`AtomicLedger` knows balances, sequence numbers, accounts, cancelled and new
offers. It has one step for an accepted transaction and one for a refused
transaction, which changes nothing but its status. `TxRefinement` maps every concrete state to
the ledger's: what running transactions hold is given back, and a transaction
takes effect when it passes its last operation. `OnlyCommittedEffects` states
the outcome on its own: when all workers have returned, every balance, offer,
mark, account id and sequence number is what the transactions of the block add
up to, whatever failed or was retried in between.

### 2.2 BlockSpace

The ranges of `tbb::parallel_reduce` over mempool chunks (any cut into
consecutive ranges), the `fetch_sub` and `fetch_add` on `remaining_block_space`,
each transaction's outcome (success, failure for good, failure for now), and the
bitmap left in each chunk. The addition to `total_block_size` is folded into
`ProcessChunk`, which nothing reads before all threads are done. What threads hold and
what is in the block are stated as sets of units, and their sizes as the number of
`Cells` of a table (`Counting`): a cardinality, where a fold over the threads would put
the sum out of reach of the proofs.

### 2.3 Mempool

Three threads (VM, cleaner, filter) and the network. A chunk is a pair of
parallel vectors, transactions and flags; removal by overwriting with the last
entry, the filter (which changes the transactions only) and `join` (which
concatenates both) are written as in the code, since the hazard is exactly that
the vectors drift apart. Their loops are recursive functions of the number of
iterations. A `TxId` stands for one delivered copy of a transaction: a client that sends
a transaction twice makes two of them with one source and sequence number. Bounds: four transactions in two batches (one fills a
chunk, so that `chunkify_and_add_to_mempool_buffer` adds an empty chunk as well), each delivered once;
three blocks; sequence numbers up to 2, one source account unknown to the database.
`drop_txs` is left out: only mock tests of the overlay call it.

### 2.4 Orderbook

One orderbook. Keys are numbers in trie order (price, owner, id); a book maps
keys to amounts. The actions are block production, validation in its stages
(transactions refused; clearing refused early; refused at a later check;
finalized), cancellation, batched `persist_lmdb` (the maximum key, the rolling
key and the deletions as in `write_thunks`), commitment, and rewinding with
`rollback_thunks`. Loading the book from disk is not an action: recovery is not
implemented (§2.5). A write transaction of LMDB is
atomic and exclusive, so persisting is one step. The two loops whose passes build on
each other, phase 4 of `write_thunks` and `rollback_thunks`, are recursive functions of
the number of passes; the thunks a round selects, and those it leaves, are taken by
`Selected` of `Counting`. A validated block may claim a sale of more than any offer holds
(`Amount + 1`), which its validation refuses.

`ledger` is a history variable: the book after each accepted block, computed by
`Executed` in one step. `BookExact` and `PersistExact` compare memory and disk to it.

While modelling we met inputs on which the code departs from its comments. They
are named by `Scenarios`, and the constant `Allow` chooses which an instance
includes, so that each can be seen alone and all else checked without it:

| Flag | Where | What TLC shows when it is allowed |
|---|---|---|
| `full_clear` | `orderbook/lmdb.cc:133` | `PersistExact` violated: run `orderbook_persist` |
| `partial_new` | `orderbook/orderbook.cc:131` | `BookExact` violated: run `orderbook_rollback` |
| `cancel_recent` | `orderbook/lmdb.cc:282` | `PersistExact` violated |
| `rewind_new`, `rewind_many` | `orderbook/orderbook.cc:1216` | `BookExact` violated |
| `unset` | `orderbook/thunk.h:70` | `BookExact` violated |
| `tx_failure` | `speedex/speedex_operation.cc:514` | `BookExact` violated |

The last four rows can be reproduced by putting the flag in `Allow` of
`orderbook_rollback.cfg` (and `PersistExact` for `cancel_recent`).

### 2.5 SpeedexVM

The life of blocks across all stores, with the threads that act on them. A block
is abstracted to the set of accounts it changes; the value of an account is the
number of blocks that changed it, and a block that changes an unknown account
creates it. That is enough to tell every version of an account from every other.
`Mempool` and `Orderbook` model what happens inside two of the parts; here a book
is the list of its thunks and the round it was persisted at.

| Actions | Code |
|---|---|
| `Propose`, `ExecBlock`, `RefuseTxs`, `RefuseClearing` | `propose`; `exec_block` with its outcomes: accepted, refused on header or transactions (automatic rollback not armed), refused on clearing (rolled back) |
| `LogCommitment`, `DoAsyncPersist` | `log_commitment`: the commit, then the wait for phase 1 with `confirmation_mtx` held |
| `CollectThunks`, `StartWrite`, `WriteShard`, `FinishWrite`, `EraseCreationThunks` | `commit_persistence_thunks`, cut where it takes and releases `db_thunks_mtx` and `AccountLMDB::mtx`; one step per shard worker |
| `HandOff1`, `SyncShard`, `HandOff2`, `PersistBook`, `PersistHeaders` | phases 2 and 3 |
| `BeginRewind`, `Reload`, `RollbackBooks`, `RollbackHeaders` | `rewind_structs_to_committed_height`, which runs the persisting actions itself before each rollback |

A step holds the mutexes that its code holds. `commit_new_accounts` waits for
`AccountLMDB::mtx`, so a block cannot be committed while shards are written. An
exception is recorded in `fault` and stops every thread.

What consensus, an external library, is assumed to do (`generic/counting_vm.h:100`
describes it for another VM): a received block is executed on top of the committed
height, after proposals were rewound, and its commitment is logged next; the
commitment of a proposal may skip earlier ones. A block whose number is not the
next one is a no-op of `exec_block` and has no action. The hash in a received header is
that of a replica whose trie is exact; where the one computed here differs,
`debug_hash_discrepancy` throws (`HashThrows`). A header with a wrong hash ends the
process in the same way and is not an input of the model.

`ledger` is a history variable: the accounts after each block. The thunks up to a round
(`UpTo`), and those that stay (`Above`), are the subsequence of the log at the selected
positions (`Selected` of `Counting`, the element of rank `k` at place `k`). As in `Orderbook`,
inputs on which the code departs from its comments are named by `Scenarios`:

| Flag | Where | What TLC shows when it is allowed |
|---|---|---|
| `gap` | `memory_database/memory_database.cc:231` | `NoException` violated: run `vm_refused` |
| `dirty` | `speedex/speedex_operation.cc:514` | `DatabaseExact` violated: the transactions of a refused block remain in effect |
| `late_new` | `speedex/autorollback_validation_structures.cc:42` | `DatabaseExact` violated: accounts created by a refused block remain |
| `rewind_race` | `speedex/vm/speedex_vm.cc:89` | `ShardsExact` violated: a rewind publishes the round of thunks that phase 1 has taken and not written |
| `stale_trie` | `memory_database/memory_database.cc:588` | `NoException` violated: a reload leaves the commitment trie as the abandoned block made it, and the next valid block that does not change the account fails the comparison of hashes ("crash immediately on desync", `speedex_operation.cc:409`) |

Each is reproduced by putting the flag in `Allow` of `vm_blocks.cfg`.

Reloading after a crash is not an action: `speedex_load_persisted_data` throws
"sync db to a consistent snapshot: unimp" (`reload_from_hotstuff.cc:153`) before
it does anything. What can be said is which states a crash may
leave on disk, and `StoresOrdered` says it in every state: `synced_round` is what
a power cut leaves of an account shard.

### 2.6 Validation

`BlockValidator::validate_transaction_block_`. The threads of `parallel_reduce`
take items of the block in any split, apply every operation straight to the shared
database, and stop at the first transaction that fails a test of its own (format,
signature, fee, sequence number, account id, cancelled offer). Balances are not
tested: they are words that wrap around (`Wrap`, 5 bits here), and `check_valid_state`
looks at those of the accounts in the merged log at the end. So the verdict rests on
the log being complete and merged: `log_modified_accounts`, the three insertion
functions, `LogMergeFn`, `LogNormalizeFn` with its `dedup`, and the merge thread with
its wait are all there. An offer better than the block's threshold key clears at once.

`VerdictExact` compares the verdict with a definition that looks at the block as a
set and adds up exact balances (`Admissible`). One kind of block is excepted, by name
(`WrapsRound`): a sum that leaves the word and comes out non-negative again. The amount
of a `MONEY_PRINTER` operation is not bounded, so two of them suffice, and the code
accepts the block, which the comments at `revertable_asset.h:59` ("if an overflow
happens, we just log that it happened and revert everything") and
`serial_transaction_processor.cc:88` do not expect. TLC reports it when the exception is
taken out. A sum that leaves the word once and comes out negative is refused.
`ReplicaAgrees`: a producer's block is accepted, and leaves the
balances, accounts, marks, offers and the modification log that the producer has.
A transaction that the code applies in one call is a step per operation here; within
an operation there is at most one test of shared state, and all other accesses are
additions that commute.

### 2.7 Filtering

`FilterLog` sorts a block's transactions by account in a trie per thread, merges the
tries, and judges each account: sequence numbers, duplicates, and the sums of what
its transactions ask for against what it holds, in saturating arithmetic
(`overflow_req`). Merging happens in any order, and an entry that has met an error
stops taking in others. `FilterExact` states each account's verdict from the block
alone, and that of two transactions that create one account both are refused. Two
things of the code limit what it can say: an offer cancelled twice is recorded
(`account_filter_entry.cc:87`), stops the sums, and is not used by `check_valid`, so the
exact verdict is stated for accounts that cancel no offer twice; and an entry of an
account that does not exist is marked as checked by `add_tx`, so `compute_validity`
throws ("double check valid", `account_filter_entry.cc:224`) and the filtering ends
without verdicts (`fpc = "threw"`). `FilterExact` speaks of filterings that complete.

### 2.8 Overlay

A flooder per replica loads a numbered batch when the known mempool sizes allow it,
gives it to the own mempool and to a client per other replica, and waits with the next
until every replica's batches of the last number have arrived (`tx_batch_limit`).
A remote call may fail before or after delivery; the code then puts the batches back
*behind* what was queued meanwhile and calls again, so batches are repeated and
reordered. `NoBatchLost` and `Lockstep` say what survives that: no batch disappears,
and no replica runs more than one batch ahead. A batch that does not parse (`Garbled`) is
not counted as received by its receiver and does not enter the sender's own mempool.

`FloodCompletes`: every replica sends its share and all of it arrives, provided that every
pool is below its limit again and again. The premise is part of the property, because
nothing in the code guarantees it: blocks take transactions out (`Drain`, any number of
them, without fairness), but the filter keeps those of unknown accounts. The share is the
whole stream only if the streams are about equally long and parse: a replica stops one
batch after the shortest stream, since nobody sends the number it waits for, and behind a
batch of its own that it could not parse, and holds the others back there. The instance
has two replicas with three batches and one, of which one does not parse. `force_repoll`, once set, is never reset and `connected` never cleared: a client
polls without pause after a failure, which costs time only.

### 2.9 PriceArith and Market

All arithmetic has its widths as constants: `WORD` stands for 64 bits, `2 * WORD` for
`uint128_t`, `PRICE_RADIX` and `FRACTION` for the radix of prices (24) and of
`FractionalAsset` (10), and truncation, saturation and rounding happen where the code
has them. A price has twice as many bits as its radix: 48 in the code, 6 in the 8-bit
words of the instance. A ratio of two prices therefore has up to 72 bits and does not fit
a word, in the instance as little (9 bits) as in the code; the starting prices include a
pair whose ratio is truncated. The smallest instance in which rounding, partial execution and smoothing all
happen has two assets and offers at two limit prices.

`Market` goes through one block: `StartSearch` and the rounds of
`better_grid_search_tatonnement_query` (trial prices, comparison of objectives,
step sizes, relativizers, normalisation, the periodic feasibility check by the linear
program), its two ways to end, the linear program, `process_clear_offers` for every
orderbook, then the validator: header checks, `tentative_clear_offers_for_validation`,
`check_stats`, `check_threshold_key`. GLPK is external: `Flows` is every integral
solution of the constraints the code hands it, so the producer may get any of them.

* `DemandSound`: demand computed from the index by binary search and wide
  multiplication is that of the offers one by one, from both sides and on both assets, up
  to the rounding of the divisions. That every offer in the money is counted is claimed
  where the ratio of the prices fits a word (`RateFits`); beyond that `divide_prices` keeps
  the low 64 bits and offers in the money are left out (with a selling price of 2^40 and a
  buying price of 1 the ratio becomes 0), but never one out of it counted. TLC reports
  the difference without the premise.
* `SolutionSound`: bounds given to the program are what the offers at these prices
  allow; an answer that keeps the lower bounds leaves no offer unfilled that smoothing
  promises to fill.
* `TradesSound`: no offer trades below its limit price, no asset is paid out that was
  not sold, and what remains of a partly executed offer is right.
* `ValidatorAgrees`: a validator accepts what the producer cleared, and clears the same.

Rounds are bounded (`MaxRounds`), and the frequencies of the checks are 2 and 3 rounds.

### 2.10 Tatonnement and DemandOracle

`Tatonnement`: searching threads that wait on `start_cv`, the producer of
`speedex_block_creation_logic` (commit, start the query and the timeout, wait for
prices, cancel, linear program, clear, wait for all threads, join), and the timeout
thread. A critical section of `mtx` is one action; the assignment of
`timeout_happened_flag`, which follows it, is another. Prices are records of who
computed them, for which block, whether they clear and the utility they lose, a ratio
that is `NaN` where there is nothing to trade: it compares with nothing, so a `NaN`
published first keeps its place against every later loser (`LessThan`). If the linear
program's solution does not clear the market, the producer's exception meets the
unjoined timeout thread and ends the process (`"threw"`); what the other threads still do
then changes nothing that a property speaks of.
`AnswerIsBest`: the producer gets clearing prices if some search found them, otherwise
prices such that none published lose less by the code's comparison. `BlocksIsolated`:
nothing of one block's query reaches the next.
`EveryQueryEnds` has a premise, `[]TimeoutInTime`: a timeout that comes before any thread
has joined ends the query for nobody, and the producer waits on `finished_cv` forever.
`signal_grid_search_timeout` does not prevent it; the workers have two seconds, which
the scheduler does not promise. TLC shows the hang when the premise is dropped.

`DemandOracle`: the caller and its helpers, which sleep on a condition variable between
queries and spin on atomics within one. The demand of an orderbook in a round is the
pair of the two, so `DemandExact` says that every sum has each orderbook of the round
exactly once and nothing of another round; `EveryRoundEnds`, that no helper is missed.
Reads and writes of the flags are sequentially consistent here; the code uses relaxed
order and relies on the mutex around the sums.

### 2.11 Simplex

`TaxFreeSimplex` works on rows of two bits per column packed into words; addition and
negation act on whole words and `normalize` repairs the encoding. `SimplexLPSolver`
keeps each coefficient twice, in its row's and in its column's lists, with a flag per
row that negates both. Lists are sets here, since the code keeps them sorted.
`SolverExact` compares both with a definition by enumeration (the greatest circulation
within the maxima; whether there is one within the bounds), and says that rows and
columns of the sparse tableau agree, that no improving column is without a hint and that
no exception is thrown.
`SolverEnds`: no cycle of degenerate pivots. Two choices of the code the definition
follows: an orderbook with identical bounds is left out with what it trades
(`solver.cc:77`), and coefficients of the objective are taken not to overflow their
8 bits (`main/solver_comparison.cc:263` warns of that for many assets). These solvers
serve `main/solver_comparison` and the tests; the producer uses GLPK.

## 3. Runs

| Run | Expected | Instance | Shows |
|---|---|---|---|
| `tx_contention` | pass | 2 workers; mempools of up to 4 transactions that compete pairwise, and every error return beside a contender | every reservation held once, complete log, `OnlyCommittedEffects`, the block finishes, refinement of `AtomicLedger` |
| `block_space` | pass | 2 threads, limit 2, mempools with chunks of 0 to 3; 2 threads validating blocks of up to 3 of 21 transactions; 2 threads filtering all blocks of 3 out of 9 | exact accounting; exact verdicts; producer and validator agree; filter independent of the merge |
| `block_limit` | violation | the first part | the comment at `block_producer.cc:111` does not hold |
| `mempool` | pass | see 2.3, 2.8; one failing call | nothing lost, sizes, quiescence, progress; batches arrive, streams together |
| `orderbook` | pass | 3 keys, amounts up to 2, 3 blocks, `Allow = {}`; markets of 2 assets with up to 4 offers in 8-bit words | memory and disk exact; demand, trades and solution sound; validator agrees |
| `orderbook_persist`, `orderbook_rollback` | violation | 2 keys, one flag | the first two rows of the table in 2.4 |
| `vm_blocks` | pass | an account from genesis and one to be created, in different shards; 2 books, 3 blocks, a persist after each commit, `Allow = {}` | memory, shards, trie and headers follow the accepted blocks; order of the stores; no exception; every persist ends |
| `vm_refused` | violation | 2 blocks, a persist every 2, `gap` allowed | a refused block makes the next one throw |
| `price_query` | pass | 2 searchers, 2 blocks, 2 ticks, ratios 1, 2 and NaN; 2 helpers, 2 queries of 2 rounds, 0 to 6 units of work; simplex problems of 3 assets with up to 4 orderbooks, bounds up to 2 | the best answer, no block's query in another; complete sums; exact solvers; everything ends |
| `price_clearing` | violation | the first part | the producer changes orderbooks that searches still read |
| `simplex_peel` | violation | every 3 orderbooks of 4 assets | `construct_solution` throws |

Why the bounds suffice for the questions asked: a race on a balance, number, id
or offer needs two workers and two transactions, a third party that changes what
they race for needs one more transaction; the workloads of `MCTxProcessing` have
them in every combination of winners and losers. Batching needs two thunks, an
undone thunk above them a third. Two keys suffice for each of the orderbook
deviations; three leave a key between. In `vm_blocks` three blocks let one be
persisted while the next is committed and the third proposed and abandoned, with
the three phases busy on different rounds; a commitment that skips a proposal
puts two thunks into one batch. A block cut into two ranges is the smallest in which
the verdict could depend on the split; a third transaction lets both threads touch
what one of them has already logged. In `price_query` a second block is what a late
thread of the first could disturb, and a second round what a flag of the first could
leave behind; three assets are the fewest with a cycle longer than two, and the two
words of a dense row (`WordCols = 8`) make carries between words visible.

Deadlock is checked in every run but `orderbook_persist`, whose module has no end state
of its own, and those of `SpeedexVM`, `MCPriceQuery` and `MCSimplex`; the explicit end states (`Finished` and its like) are the only ones in
which the others stutter for good. `SpeedexVM` may stop, because consensus may ask for
nothing more and blocks are bounded; that no thread is stuck is `PersistFinishes`. The
threads of price computation end when their oracle is destroyed and a solver when it
has its answer; that they do is `EveryQueryEnds`, `EveryRoundEnds` and `SolverEnds`.

Fairness. In `TxProcessing` every worker thread is weakly fair, and the
successful compare-and-swap is strongly fair: hardware does not fail it
spuriously forever, and a genuine failure means that another worker made
progress. In `Mempool` the VM, cleaner and filter threads are weakly fair (the
operating system schedules them, and the code notifies every condition it
changes); nothing is assumed of the network or of consensus. In `SpeedexVM` the
persister's threads together, and a rewind in progress, are weakly fair: they have
work and nothing else to wait for than what their actions' guards say. Proposals,
executions, commitments and the start of a rewind are not. In `Tatonnement` and
`DemandOracle` every thread is weakly fair, a spinning one too; in `Validation` the
reduction and the merge thread are; in `Overlay` the flooders, client threads and the
periodic poll are, and calls fail a bounded number of times (`MaxFaults`), since a replica that is never reached is
never flooded. A simplex solver is one thread that runs until it has its answer. The
other modules state safety only and need none.

## 4. Findings

1. **Block limit** (`block_limit`). A reservation that finds the counter below
   zero gives back more than it took, so a later one is granted space that does
   not exist. `LimitWithoutOverdraw` shows that this is the only way past the limit.
2. **Batched persistence** (`orderbook_persist`). The maximum key is taken only
   over thunks with a partial execution; a block that cleared the whole book is
   forgotten when it shares a batch with one that did not.
3. **Rolling back a block** (`orderbook_rollback`). `undo_thunk` re-inserts the
   offer that was partly executed, even if the refused block itself created it.
4. **The block after a refused one** (`vm_refused`). Comments say that gaps in the
   account database's thunks are allowed since blocks may be refused;
   `commit_new_accounts` still requires consecutive numbers and throws, unless the
   persister has reached the refused block and no thunk is left. `vm_blocks` shows
   that without such a block nothing throws.
5. **Clearing while searches run** (`price_clearing`). The oracle's documentation asks
   to wait for all searching threads before the orderbooks are modified; the producer
   clears them first and waits at the end of the block.
6. **Peeling edges** (`simplex_peel`). An edge solved from one asset stays in the other
   asset's set, so an asset with two unsolved edges is never peeled and `solve` throws.
   In the run an asset bought in three orderbooks has one of them in the basis and two
   unsolved. With the three assets of `price_query` it does not happen: `SolverExact`
   says there that no solver is stuck.

Smaller observations, read in the code and not stated as runs: `normalize_prices`
divides every price by 4 when the largest leaves fewer than three free bits, which takes a
small price to 0, and its caller then shifts the step left by the negative amount it
returns (`tatonnement_oracle.cc:648`); a ratio of prices that does not fit 64 bits
is truncated (`divide_prices`, `orderbook.cc:225`; see 2.9); amounts printed by
`MONEY_PRINTER` can take a balance all the way round the word unnoticed (2.6); a
cancellation does not call `validate_category` before it looks up the orderbook of its
category (`serial_transaction_processor.cc:595`), so the inputs of the models name
categories that exist; `dedup` advances twice over a pair that differs, so it compares
every other pair only (`log_entry_fns.cc:122`); the flooder reads an optional that may
have been emptied (`overlay_flooder.cc:55`).

## 5. Proofs

TLAPS proves the following for every value of the constants that the named
assumptions allow; TLC evaluates those assumptions in its runs. Each theorem has the
form `Spec => []Inv` for an invariant that a run also checks, except `LedgerImplemented`,
which is the refinement that a run checks.

| Module | Theorems | Inductive invariant |
|---|---|---|
| `TxProcessing_proof` | `TypeCorrect` (`TypeOK`), `NoOverdraftCorrect` | `TInv` |
| | `ReservationsCorrect` (`ReservationsHeldOnce`), `ModLogCorrect` (`ModLogComplete`) | `TInv /\ ResInv`; with `NoOverdraft` and `LogInv` |
| `TxRefinement_proof` | `OnlyCommittedCorrect` (`OnlyCommittedEffects`), `LedgerImplemented` (`ImplementsLedger`) | `Reachable` |
| `BlockSpace_proof` | `SpaceCorrect` (`SpaceAccounted`), `LimitCorrect` (`LimitWithoutOverdraw`), `FlaggedCorrect` (`BlockIsFlagged`) | `SpaceInv` |
| `Orderbook_proof` | `ThunksOrderedCorrect`, `BookExactCorrect`, `PersistExactCorrect`, for `Allow = {}` | `OInv` |
| `Mempool_proof` | `NoTxLostCorrect`, `SizesExactCorrect`, `FilterQuiescentCorrect` | `MInv` |
| | `LockstepCorrect`, `NoBatchLostCorrect` | `OverlayInv` |
| `PriceSearch_proof` | `AnswerCorrect` (`AnswerIsBest`), `BlocksIsolatedCorrect` | `TatInv` |
| | `DemandCorrect` (`DemandExact`) | `DInv` |
| `SpeedexVM_proof` | `StoresOrderedCorrect`, for `"rewind_race" \notin Allow` | `OrderInv` |
| | `NoExceptionCorrect`, `DatabaseExactCorrect`, `ShardsExactCorrect`, for `Allow = {}` | `VMInv` |

Every inductive invariant was checked by TLC as an invariant of its component, with the
constants of the component's run, before it was proved. The proofs are laid out alike:
the invariant holds at the start, one lemma per action (or group of actions of one
thread) shows that the action keeps it, frame lemmas say that a thread's step leaves the
other threads' conjuncts alone, and the last lemma derives the property.

**Types and overdrafts** (`TInv`). `TypeOK` is not inductive: a step applies the operation
at `op_idx[w]` of the transaction `cur_tx[w]`, so its type depends on where the worker
stands. `TInv` adds `LocInv`: in which `pc` a worker has a transaction, the operation
index lies within the transaction, a withdrawal in progress belongs to an operation that
withdraws a positive amount, and a worker about to compare-and-swap has loaded a value
that covers the shortfall. That last conjunct is what `NoOverdraft` needs: the swap
succeeds only if the balance still *is* the loaded value, so the debit leaves it
non-negative whatever the other workers did in between.

**Reservations** (`ResInv`). That nothing is held twice is not inductive, because what is
tested before a grant is shared state (a bit, a mark, a reserved id) and not who holds
it. `ResInv` ties the two: whatever a running or successful transaction holds has its
bit set, its offer marked or its id reserved. A grant finds these clear, so nobody else
is a holder; a release clears them when its transaction is the only one. It also needs
that a transaction is run by one worker and that one being undone never reports success.

**Modification log** (`LogInv`). The claim is about the end of the block, the reasons lie
in each step: a view has entries only at accounts its transaction logs; a set bit or a
created account is logged or belongs to a running transaction; and the balance of an
account that no published transaction names, together with what the running ones have
withdrawn from it, is the initial balance. The last is a sum over all workers, counted as
a cardinality (`Counting_proof`): a withdrawal moves units into the worker's cells, an
unwind moves them back, so at the end, when no cells are left, such a balance is as it was.

**The atomic ledger** (`Reachable`: the three invariants above, `NoOverdraft` and `EInv`).
A transaction is *effective* once its worker has passed its last operation; that is the
step at which the ledger commits it. `EInv` says that shared state is what the effective
transactions and those in hand account for. Every bit, mark, id and offer belongs to a
transaction that holds it, and what a transaction holds is there (`BitsExact`,
`MarksExact`, `IdsExact`, `OffersExact`). The operations in hand passed their checks
(`OpsSound`). The buffer, new balances and withdrawals of a view add up, slot by slot, to
what the operations done so far give and take (`Tracked`), and what was withdrawn would
have paid for each of them at its turn (`Afforded`). The shared balance, what workers have
yet to flush or to return, and what new accounts hold add up to the initial balance and
the effective transactions (`Balanced`), counted in cells as above.

A step is reduced to its effect (`Effect`: a part of a transaction is settled, an operation
is undone, a withdrawal returned, a view published, ...), and each conjunct is kept effect
by effect. For the refinement, `CreatedExact`, `UsedExact`, `CancelledExact` and
`SoldExact` show that each mapped variable is a function of the effective transactions, so
a step that makes none effective changes none of them, and the balance stays since the
money only changes place (`MoneyStep`). The step that makes one effective is a `Commit`:
the ledger's balances after each operation are the mapped ones plus what the operations
up to it give, less what they take (`RunIs`, the only place where a recursive function is unfolded,
by the first index that would fail); `Afforded`, with nothing below zero in the shared
balances or in what others have withdrawn, makes every operation payable then
(`StepPossible`), although it was charged earlier and while others ran.
`OnlyCommittedEffects` is the same invariant read at the end, when no view holds anything.

**Block space** (`SpaceInv`). Exact accounting needs that the ranges of the threads are
disjoint, so that no chunk is counted twice, and that a thread in the middle of a
reservation remembers what it read. The limit needs more (`NeverShort`): as long as no
overdraft was returned twice, the counter is below zero by no more than what its readers
are about to give back.

**Mempool** (`MInv`). A chunk's flags are positions, and three threads move what is at a
position. `Threads` is the handshake: the filter has work only between blocks and while
the VM waits for it, the cleaner only in the part of a block that starts it and waits for
it, so `FilterQuiescent` follows. `OnePlace` says that an arrived transaction is in one
chunk of the buffer or of the pool. `FlagsRight` is what keeps `NoTxLost`: the flags of a
chunk are either all unset, with none of its transactions in an earlier block, or, from
the end of block production until the cleaner has run (`MarksPending`), they are aligned
with its transactions and set at exactly those of the block. Unset flags may be fewer or
more than the transactions, which is what filtering and joining leave, and harmless.
Below it are lemmas on the loops as the code runs them: the removal erases exactly what is
flagged and nothing else, although it moves the last entry into every gap (`Erased`);
`join_small_chunks` regroups chunks without losing or doubling a transaction
(`JoinedSmall`); the chunks of a batch partition it, the empty last one included
(`Chunkified`); sizes add up (`SizeUpdated`, `SizeConcat`). The number of iterations is
bounded by the number of flags or chunks, so these need no induction over data.

**Overlay** (`OverlayInv`). `Lockstep` follows from the limit a flooder computes only if
nobody has seen a batch its sender has not sent (`OnlySentSeen`), which must also hold of
every batch on its way, put back after a failed call or not.

**Orderbook** (`OInv`). `Allow = {}` leaves out the seven inputs of section 2.4. The
reference is again `ledger`, and `OInv` says what the thunks have to do with it. Along
`ledger` an offer is born once and from then on only shrinks (`Shrinks`). The thunks after
the persisted round are in order, and each records what its block did to the book before
it (`ThunksExact`): the offers it opened, cancelled, cleared and met in part, with their
amounts; a block without a thunk did nothing. `BlockInStep` says the same of the block in
progress, whose thunk is there before its book is final, in every stage of production
and validation, so that undoing that thunk gives the last accepted book.

`PersistExact` then is a statement about `write_thunks` alone (`WriteExact`): a batch of
such thunks leads from the book of one round to the book of a later one. It is shown key
by key. A key below the maximum key was closed by the batch and phase 2 deletes it; above
it, an offer of the batch is written by phase 3 exactly if no later block of the batch
deleted it, which needs that phase 3, leaving a thunk at the first offer it does not
write, leaves nothing behind (`CancelsLowest`); what phase 4 subtracts from an offer is
the sum of what the blocks sold of it, and phase 5 deletes the keys that were executed in
part and then passed. `BookExact` needs the converse for rewinding (`Rewound`): undoing
thunks oldest first, as `rollback_thunks` does, restores the book only because with
`Allow = {}` no two of them touch one key. The passes of phase 4 and of `rollback_thunks`
are bounded in number, so what they compute is proved without induction over data: if a
pass failed there would be a first that fails (`Reached` and `Iterated` of
`Counting_proof`, from the well-foundedness of the naturals).

**Price queries** (`TatInv`, `DInv`). `TatInv` says who may be where: which thread ended
the query, that there is exactly one, that `active` counts the threads in it, and that
the shared prices are the best answer so far. `AnswerIsBest` and `BlocksIsolated` hold
whenever the timeout comes, before the first worker too. `DInv` gives for each phase of
the caller the flags and the position of each helper it has passed and has yet to pass;
the caller's sum is that of a prefix of the orderbooks, since the shares
`(units * k) / (n + 1)` are monotonic and adjoin.

**Order of the stores** (`OrderInv`). `StoresOrdered` compares rounds on disk, and each
store is written by a thread that took its round some steps earlier. `OrderInv` follows
the round in hand: the phases in progress are at rounds in reverse order; a phase has a
round no later than the stores before it and no earlier than the stores after it; a
shard or a book that a phase has passed is at that phase's round. A rewind has the stores
to itself, which is what the hypothesis says: the scenario `rewind_race` is excluded, the
four others are not, so refused blocks of every kind are included. After an exception
nothing runs, so the order stays.

**Contents of the stores** (`VMInv`). `Allow = {}` leaves out the five inputs of section
2.5, each of which breaks one of the properties; blocks refused without effect, or undone
with no account created, are included. The reference is `ledger`. That a shard holds the
accounts of its round says nothing about its next round, so `DataInv` says where the
difference is: for every shard, the thunks between its round and the last block, in the
log or, while a writer has gathered them, in the writer's batch, are in order, each gives
exactly the values its block left, and a block without a thunk changed nothing (`Log`).
Writing a shard applies such a log, the newest value winning, and so reaches the later
entry of `ledger`; a reload reads back the accounts of the abandoned thunks, and those
are all that differ (`MemoryExact`, at `Base`: the committed height once a rewind has
reloaded, the last block otherwise). `NoException` needs in addition that the next block
finds the creation thunk it expects or the published round that stands for it
(`CreationExact`, `DbInStep`), and that no book has a thunk of a round it has persisted
(`BooksBehind`). The three theorems need each other and are proved by one induction.

Assumptions. `ConstantAssumption`: existing balances are natural numbers, resting offers
have positive amounts, the base fee is positive, a transaction has at most
`MAX_OPS_PER_TX` operations, and the last committed sequence number of an account is a
multiple of `MAX_OPS_PER_TX`: it is 0 for a new account, and a commit adds a multiple. The
refinement needs the last, since the tracker identifies numbers that differ by less than
`MAX_OPS_PER_TX` and the format check admits multiples only. `SpaceAssumption`, `OverlayAssumption`, `TatAssumption` and
`DemandAssumption` give the constants their types, with at least one searcher, replica
and helper; workers need not be finitely many. `MempoolAssumption` gives the
constants of `Mempool` their types, and says that batches are sequences of distinct
copies with no copy in two batches. `OrderbookAssumption` gives those of
`Orderbook` their types, with at least one key and a positive amount. `VMAssumption` gives the constants of
`SpeedexVM` their types, with at least one book and a positive `PERSIST_BATCH`; accounts
need not be finitely many.

Only model-checked, and why:

* liveness (`BlockFinishes`, `ValidationEnds`, `VMReturns`, `FloodCompletes`,
  `PersistFinishes`, `EveryQueryEnds`, `EveryRoundEnds`, `SolverEnds`): fairness and
  `ENABLED` are outside what TLAPS 1.4.5 proves;
* `VerdictExact`, `ReplicaAgrees`, `FilterExact`, `DemandSound`, `TradesSound`,
  `ValidatorAgrees`, `SolutionSound`, `SolverExact`: they compare what
  folds and recursive operators compute, which takes induction over data.

## 6. Not modelled

HotStuff, the Merkle tries and the LMDB wrapper are submodules without sources
here; where modelled code uses them they are marked external. XDR code is
generated. Cryptography, configuration, RPC, experiments, command lines, data
generators and the double auction of `cda/` carry none of the replica's logic.
GLPK is external, its answers over-approximated. Recovery at startup
(`speedex_load_persisted_data`) throws before it does anything, so the loading
functions of the stores, which only it calls, are left out; `StoresOrdered` says what
it would find. The heap of the simplex lists (`simplex/allocator.h`) is abstracted to
what the lists hold. `normalization_rolling_average` is modelled without its use of
floating point for reporting, and the log file of the modification log is not read
by anything that runs. Data races as such (a deque, a trie) are outside: each access
is atomic in the models, and the hazards name the places.

## 7. Plan

Done: 1 `TxProcessing` with its abstract ledger; 2 `BlockSpace`; 3 `Mempool`;
4 `Orderbook`; 5 `SpeedexVM`; 6 `Validation` with the modification log; 7 `PriceArith`
and `Market`; 8 `Filtering`; 9 `Tatonnement` and `DemandOracle`; 10 `Overlay`;
11 `Simplex`.

Left: the agreement of replicas (`ReplicaAgrees`, `VerdictExact`) as theorems, which needs
`Validation`'s log merge restated without folds, as was done for the ledger; then
`FilterExact` in the same way.
