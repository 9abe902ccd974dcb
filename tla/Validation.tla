---------------------------- MODULE Validation ----------------------------
(***************************************************************************)
(* BlockValidator::validate_transaction_block_: the transactions of a      *)
(* block are applied by several threads straight to the shared database,   *)
(* through an UnbufferedMemoryDatabaseView.  Nothing is undone and no      *)
(* balance is tested on the way; when every thread is through, the logs of *)
(* modified accounts are merged by LogMergeWorker and check_valid_state    *)
(* looks at the balances of the logged accounts.                           *)
(*                                                                         *)
(* The block is either what a producer made, which is what AtomicLedger    *)
(* allows (module TxRefinement shows that production implements it), or    *)
(* any list at all.  A step of a thread is one operation of a transaction: *)
(* each makes at most one test of shared state, its other accesses are     *)
(* additions that commute.                                                 *)
(***************************************************************************)
EXTENDS Integers, Sequences, FiniteSets, SequencesExt

CONSTANTS
  ValidateThreads,
  Account, Existing, Asset, NATIVE_ASSET, TxId, Tx,
  RestingOffer, InitAvailable, LastCommittedId,
  ForeignBlocks,          \* blocks of other origin: sequences of items
  ThresholdKey,           \* sell asset -> partialExecThresholdKey, or NullKey
  NullKey,                \* thresholdKeyIsNull = 1
  Prices, TaxRate,        \* of the header: asset -> price; tax_rate
  BASE_FEE_PER_TX, FEE_PER_OP, MAX_OPS_PER_TX, MAX_SEQ_GAP,
  CREATE_ACCOUNT_MIN_STARTING_BALANCE, MAX_AMOUNT,
  WORD                    \* bits of an amount (64)

VARIABLES
  (* the producer's ledger *)
  balance, created, used, cancelled, offers, outcome,
  (* the block and the progress of parallel_reduce *)
  origin, block, taken, stage,
  job,                    \* thread -> what operator() still has to do
  body,                   \* thread -> its ParallelValidate: valid and the stats
  validator,              \* the body that the others are joined into
  (* shared *)
  db,                     \* balances, reservations, uncommitted_db, marks
  serial_log,             \* thread -> its log of modified accounts
  modification_log,
  logs_ready_for_merge,
  (* per thread and then merged *)
  local_offers, activated,
  book_offers, main_activated,
  verdict

ledger_vars == <<balance, created, used, cancelled, offers, outcome>>
reduce_vars == <<taken, job, body, validator, db, serial_log, local_offers, activated>>
merge_vars == <<modification_log, logs_ready_for_merge, book_offers, main_activated>>
validation_vars == <<ledger_vars, origin, block, stage, reduce_vars, merge_vars, verdict>>

-----------------------------------------------------------------------------
fee_required(t) == BASE_FEE_PER_TX + FEE_PER_OP * Len(Tx[t].operations)

check_tx_format_parameters(t) == Tx[t].sequenceNumber % MAX_OPS_PER_TX = 0

is_valid_amount(n) == n > 0 /\ n <= MAX_AMOUNT

\* The bit of sequence_number_vec that stands for t; 0 is the first.
get_seq_num_offset(t) ==
  (Tx[t].sequenceNumber - LastCommittedId[Tx[t].sourceAccount]) \div MAX_OPS_PER_TX - 1

SeqNumUsable(t) ==
  /\ Tx[t].sequenceNumber > LastCommittedId[Tx[t].sourceAccount]
  /\ get_seq_num_offset(t) < MAX_SEQ_GAP

Ledger == INSTANCE AtomicLedger WITH Fee <- fee_required

\* Sums wrap around at the width of an amount (-fwrapv).
Wrap(n) == ((n + 2 ^ (WORD - 1)) % (2 ^ WORD)) - 2 ^ (WORD - 1)

transfer_available(d, a, x, n) == [d EXCEPT !.available[<<a, x>>] = Wrap(@ + n)]

escrow(d, a, x, n) == transfer_available(d, a, x, -n)

\* What an offer that clears in full pays its owner.
BuyAmount(op) ==
  LET bought == (op.amount * Prices[op.asset]) \div Prices[op.buy]
  IN bought - bought \div 2 ^ TaxRate

clear_offer_full(d, src, op) == transfer_available(d, src, op.buy, BuyAmount(op))

\* An offer clears at once when its key is below the threshold.
ClearsAtOnce(op) ==
  LET k == ThresholdKey[op.asset] IN k = NullKey \/ k > op.key

-----------------------------------------------------------------------------
(* The log of modified accounts. *)
EmptyEntry == [txs |-> <<>>, self |-> <<>>, others |-> <<>>]

Entry(log, a) == IF a \in DOMAIN log THEN log[a] ELSE EmptyEntry

LogInsert(log, a, list, v) ==
  [x \in DOMAIN log \cup {a} |->
     IF x = a THEN [Entry(log, a) EXCEPT ![list] = Append(@, v)] ELSE log[x]]

log_self_modification(log, a, id) == LogInsert(log, a, "self", id)
log_other_modification(log, src, id, a) == LogInsert(log, a, "others", <<src, id>>)
log_new_self_transaction(log, t) == LogInsert(log, Tx[t].sourceAccount, "txs", t)

\* Payments and creations touch an account other than the source.
Touches(op) == op.type \in {"PAYMENT", "CREATE_ACCOUNT"}

log_modified_accounts_SourceOnly(log, t) == log_new_self_transaction(log, t)

log_modified_accounts(log, t) ==
  LET other(l, i) ==
        IF Touches(Tx[t].operations[i])
        THEN log_other_modification(l, Tx[t].sourceAccount, Tx[t].sequenceNumber + i - 1,
                                    Tx[t].operations[i].account)
        ELSE l
  IN FoldLeftDomain(other, log_new_self_transaction(log, t), Tx[t].operations)

value_merge(e, f) ==
  [list \in DOMAIN e |-> e[list] \o f[list]]

merge_in_log_batch(log, logs) ==
  FoldLeft(LAMBDA l, s : [x \in DOMAIN l \cup DOMAIN s |-> value_merge(Entry(l, x), Entry(s, x))],
           log, logs)

\* The loop advances twice over values that differ: it compares every other
\* pair only.
RECURSIVE dedup(_, _)
dedup(s, i) ==
  IF i > Len(s) THEN s
  ELSE IF s[i] = s[i - 1] THEN dedup(RemoveAt(s, i), i + 1)
       ELSE dedup(s, i + 2)

\* owner, then sequence_number; accounts are compared by their number.
IdLess(a, b) == a[1] < b[1] \/ (a[1] = b[1] /\ a[2] < b[2])
TxLess(t, u) == Tx[t].sequenceNumber < Tx[u].sequenceNumber

Sorted(s, Less(_, _)) == SortSeq(s, LAMBDA x, y : Less(x, y))

LogNormalizeFn(log) ==
  [a \in DOMAIN log |->
     [txs |-> dedup(Sorted(log[a].txs, TxLess), 2),
      self |-> dedup(Sorted(log[a].self, LAMBDA x, y : x < y), 2),
      others |-> dedup(Sorted(log[a].others, IdLess), 2)]]

-----------------------------------------------------------------------------
(* process_operation on the unbuffered view.  A run holds the database, the *)
(* view of the transaction, the thread's log and offers.                    *)
NoStats == [new_account |-> 0, new_offer |-> 0, cancel_offer |-> 0, payment |-> 0]

Plus(s, u) == [k \in DOMAIN s |-> s[k] + u[k]]

Failed(run) == [run EXCEPT !.ok = FALSE]

CreateAccount(run, src, op) ==
  LET a == op.account
      reserved == [run.db EXCEPT !.reserved_account_ids = @ \cup {a}]
      paid == transfer_available(reserved, src, NATIVE_ASSET, -op.amount)
  IN IF \/ op.amount < CREATE_ACCOUNT_MIN_STARTING_BALANCE
        \/ a \in Existing \cup run.db.reserved_account_ids
     THEN Failed(run)
     ELSE IF ~is_valid_amount(op.amount) THEN [Failed(run) EXCEPT !.db = paid]
     ELSE [run EXCEPT !.db = transfer_available(paid, a, NATIVE_ASSET, op.amount),
                      !.mine = @ \cup {a},
                      !.stats.new_account = @ + 1]

CreateSellOffer(run, src, op, id) ==
  LET offer == [owner |-> src, offerId |-> id, sellAsset |-> op.asset, amount |-> op.amount]
      held == escrow(run.db, src, op.asset, op.amount)
      kept == [run EXCEPT !.db = held, !.stats.new_offer = @ + 1]
  IN IF ~(op.goodCategory /\ op.goodPrice /\ is_valid_amount(op.amount)) THEN Failed(run)
     ELSE IF ClearsAtOnce(op)
     THEN [kept EXCEPT !.db = clear_offer_full(held, src, op),
                       !.activated[op.asset] = @ + op.amount,
                       !.log = log_self_modification(@, src, id)]
     ELSE [kept EXCEPT !.offers = @ \cup {offer}]

\* The offer is looked for in the book of the category that the operation names.
InBookOf(op, key) == key \in DOMAIN RestingOffer /\ RestingOffer[key].sellAsset = op.asset

CancelSellOffer(run, src, op) ==
  LET key == <<src, op.offerId>>
  IN IF ~InBookOf(op, key) \/ key \in run.db.marked_for_deletion
     THEN Failed(run)
     ELSE [run EXCEPT
             !.db = [escrow(run.db, src, op.asset, -RestingOffer[key].amount)
                       EXCEPT !.marked_for_deletion = @ \cup {key}],
             !.stats.cancel_offer = @ + 1]

Payment(run, src, op) ==
  IF ~is_valid_amount(op.amount) \/ op.account \notin Existing \cup run.mine
  THEN Failed(run)
  ELSE [run EXCEPT
          !.db = transfer_available(transfer_available(run.db, src, op.asset, -op.amount),
                                    op.account, op.asset, op.amount),
          !.stats.payment = @ + 1]

MoneyPrinter(run, src, op) ==
  IF op.amount < 0 THEN Failed(run)
  ELSE [run EXCEPT !.db = transfer_available(run.db, src, op.asset, op.amount)]

process_operation(run, t, i) ==
  LET op == Tx[t].operations[i]
      src == Tx[t].sourceAccount
  IN CASE op.type = "CREATE_ACCOUNT" -> CreateAccount(run, src, op)
       [] op.type = "CREATE_SELL_OFFER" -> CreateSellOffer(run, src, op, Tx[t].sequenceNumber + i - 1)
       [] op.type = "CANCEL_SELL_OFFER" -> CancelSellOffer(run, src, op)
       [] op.type = "PAYMENT" -> Payment(run, src, op)
       [] op.type = "MONEY_PRINTER" -> MoneyPrinter(run, src, op)

-----------------------------------------------------------------------------
NoActivation == [x \in Asset |-> 0]
FreshBody == [valid |-> TRUE, stats |-> NoStats]
IdleJob == [items |-> <<>>, op |-> 0, success |-> TRUE, mine |-> {}, stats |-> NoStats]

InitDatabase ==
  [available |-> InitAvailable, sequence_numbers |-> {}, reserved_account_ids |-> {},
   uncommitted_db |-> {}, marked_for_deletion |-> {}]

\* The checks of a transaction that depend on nothing but itself and the
\* accounts of earlier blocks; production and validation share them.
StaticallyValid(t) ==
  LET src == Tx[t].sourceAccount
      ops == Tx[t].operations
      createdBefore(i) == {ops[j].account : j \in {k \in 1 .. i - 1 : ops[k].type = "CREATE_ACCOUNT"}}
  IN /\ check_tx_format_parameters(t) /\ src \in Existing
     /\ fee_required(t) <= Tx[t].maxFee /\ Tx[t].goodSignature /\ SeqNumUsable(t)
     /\ \A i \in DOMAIN ops :
          CASE ops[i].type = "CREATE_ACCOUNT" ->
                 ops[i].amount >= CREATE_ACCOUNT_MIN_STARTING_BALANCE /\ is_valid_amount(ops[i].amount)
            [] ops[i].type = "CREATE_SELL_OFFER" ->
                 ops[i].goodCategory /\ ops[i].goodPrice /\ is_valid_amount(ops[i].amount)
            [] ops[i].type = "CANCEL_SELL_OFFER" -> InBookOf(ops[i], <<src, ops[i].offerId>>)
            [] ops[i].type = "PAYMENT" ->
                 is_valid_amount(ops[i].amount) /\ ops[i].account \in Existing \cup createdBefore(i)
            [] ops[i].type = "MONEY_PRINTER" -> ops[i].amount >= 0

\* Nothing of the block has been looked at.
Untouched ==
  /\ balance = InitAvailable /\ created = {} /\ used = {} /\ cancelled = {} /\ offers = {}
  /\ outcome = [t \in TxId |-> IF StaticallyValid(t) THEN "open" ELSE "left out"]
  /\ taken = 0
  /\ job = [th \in ValidateThreads |-> IdleJob]
  /\ body = [th \in ValidateThreads |-> FreshBody]
  /\ validator = FreshBody
  /\ db = InitDatabase
  /\ serial_log = [th \in ValidateThreads |-> <<>>]
  /\ modification_log = <<>> /\ logs_ready_for_merge = FALSE
  /\ local_offers = [th \in ValidateThreads |-> {}]
  /\ activated = [th \in ValidateThreads |-> NoActivation]
  /\ book_offers = {} /\ main_activated = NoActivation

validation_Init ==
  /\ Untouched
  /\ verdict = "none"
  /\ \/ origin = "producer" /\ stage = "produce" /\ block = <<>>
     \/ origin = "anyone" /\ stage = "reduce" /\ block \in ForeignBlocks

\* The producer commits a transaction, by the ledger's rules.  Credits are not
\* tested for overflow: it is assumed that nobody comes to own so much.
Produce ==
  /\ stage = "produce"
  /\ \E t \in TxId : Ledger!Commit(t)
  /\ \A s \in Account \X Asset : balance'[s] < 2 ^ (WORD - 1)
  /\ UNCHANGED <<origin, block, stage, reduce_vars, merge_vars, verdict>>

Committed == {t \in TxId : outcome[t] = "committed"}

\* The block lists transactions by account and sequence number: the values of
\* the modification log in the order of its keys, each normalised.
BlockOrder(t, u) ==
  IdLess(<<Tx[t].sourceAccount, Tx[t].sequenceNumber>>,
         <<Tx[u].sourceAccount, Tx[u].sequenceNumber>>)

EmitBlock ==
  /\ stage = "produce"
  /\ stage' = "reduce"
  /\ block' = [i \in 1 .. Cardinality(Committed) |-> <<SetToSortSeq(Committed, BlockOrder)[i]>>]
  /\ UNCHANGED <<ledger_vars, origin, reduce_vars, merge_vars, verdict>>

-----------------------------------------------------------------------------
Idle(th) == job[th].items = <<>>

\* operator() on the next range.  A body that already saw a failure skips it.
TakeItems(th) ==
  /\ stage = "reduce" /\ Idle(th)
  /\ \E n \in 1 .. Len(block) - taken :
       /\ taken' = taken + n
       /\ job' = [job EXCEPT ![th].items =
                    IF body[th].valid THEN SubSeq(block, taken + 1, taken + n) ELSE <<>>]
  /\ UNCHANGED <<ledger_vars, origin, block, stage, body, validator, db, serial_log,
                 local_offers, activated, merge_vars, verdict>>

Current(th) == Head(Head(job[th].items))

\* The job after a transaction that was valid or not: an item is validated to
\* its end, the range stops after an item that failed.
Advance(j, ok) ==
  LET success == j.success /\ ok
      rest == Tail(Head(j.items))
  IN IF rest # <<>> THEN [IdleJob EXCEPT !.items = <<rest>> \o Tail(j.items), !.success = success]
     ELSE IF success THEN [IdleJob EXCEPT !.items = Tail(j.items)]
     ELSE [IdleJob EXCEPT !.success = FALSE]

EndsRange(j) == j.items = <<>>

\* th is done with its transaction; valid goes down with the range.
Leave(th, ok) ==
  LET j == Advance(job[th], ok)
  IN /\ job' = [job EXCEPT ![th] = IF EndsRange(j) THEN IdleJob ELSE j]
     /\ body' = [body EXCEPT ![th].valid = @ /\ (EndsRange(j) => j.success)]

\* validate_transaction up to its operations: the checks, the reservation of
\* the sequence number, the fee.
StartTransaction(th) ==
  /\ ~Idle(th) /\ job[th].op = 0
  /\ LET t == Current(th)
         src == Tx[t].sourceAccount
         id == <<src, get_seq_num_offset(t)>>
         reserved == [db EXCEPT !.sequence_numbers = @ \cup {id}]
     IN IF /\ check_tx_format_parameters(t) /\ src \in Existing
           /\ fee_required(t) <= Tx[t].maxFee /\ Tx[t].goodSignature
           /\ SeqNumUsable(t) /\ id \notin db.sequence_numbers
        THEN /\ db' = transfer_available(reserved, src, NATIVE_ASSET, -fee_required(t))
             /\ job' = [job EXCEPT ![th].op = 1]
             /\ UNCHANGED body
        ELSE Leave(th, FALSE) /\ UNCHANGED db
  /\ UNCHANGED <<ledger_vars, origin, block, stage, taken, validator, serial_log,
                 local_offers, activated, merge_vars, verdict>>

ValidateOperation(th) ==
  /\ ~Idle(th) /\ job[th].op \in DOMAIN Tx[Current(th)].operations
  /\ LET run == process_operation([db |-> db, ok |-> TRUE, mine |-> job[th].mine,
                                   stats |-> job[th].stats, log |-> serial_log[th],
                                   offers |-> local_offers[th], activated |-> activated[th]],
                                  Current(th), job[th].op)
     IN /\ db' = run.db
        /\ serial_log' = [serial_log EXCEPT ![th] = run.log]
        /\ local_offers' = [local_offers EXCEPT ![th] = run.offers]
        /\ activated' = [activated EXCEPT ![th] = run.activated]
        /\ IF run.ok
           THEN /\ job' = [job EXCEPT ![th].op = @ + 1, ![th].mine = run.mine, ![th].stats = run.stats]
                /\ UNCHANGED body
           ELSE Leave(th, FALSE)
  /\ UNCHANGED <<ledger_vars, origin, block, stage, taken, validator, merge_vars, verdict>>

\* log_modified_accounts and op_metadata.commit.
CommitTransaction(th) ==
  /\ ~Idle(th) /\ job[th].op = Len(Tx[Current(th)].operations) + 1
  /\ serial_log' = [serial_log EXCEPT ![th] = log_modified_accounts(@, Current(th))]
  /\ db' = [db EXCEPT !.uncommitted_db = @ \cup job[th].mine]
  /\ LET j == Advance(job[th], TRUE)
     IN /\ job' = [job EXCEPT ![th] = IF EndsRange(j) THEN IdleJob ELSE j]
        /\ body' = [body EXCEPT ![th].valid = @ /\ (EndsRange(j) => j.success),
                                ![th].stats = Plus(@, job[th].stats)]
  /\ UNCHANGED <<ledger_vars, origin, block, stage, taken, validator, local_offers,
                 activated, merge_vars, verdict>>

\* join: the statistics of an invalid block are not added up.
Joined(b, other) ==
  [valid |-> b.valid /\ other.valid,
   stats |-> IF b.valid /\ other.valid THEN Plus(b.stats, other.stats) ELSE b.stats]

\* A body that was split off is joined; the thread's next one starts afresh.
Join(th) ==
  /\ stage = "reduce" /\ Idle(th) /\ body[th] # FreshBody
  /\ validator' = Joined(validator, body[th])
  /\ body' = [body EXCEPT ![th] = FreshBody]
  /\ UNCHANGED <<ledger_vars, origin, block, stage, taken, job, db, serial_log,
                 local_offers, activated, merge_vars, verdict>>

\* parallel_reduce returns; a failure ends validation here, otherwise do_merge.
ReduceEnds ==
  /\ stage = "reduce" /\ taken = Len(block)
  /\ \A th \in ValidateThreads : Idle(th) /\ body[th] = FreshBody
  /\ IF validator.valid
     THEN stage' = "offers" /\ logs_ready_for_merge' = TRUE /\ UNCHANGED verdict
     ELSE stage' = "done" /\ verdict' = "refused" /\ UNCHANGED logs_ready_for_merge
  /\ UNCHANGED <<ledger_vars, origin, block, reduce_vars, modification_log, book_offers,
                 main_activated>>

\* The thread of LogMergeWorker.
MergeLogs ==
  /\ logs_ready_for_merge
  /\ modification_log' = merge_in_log_batch(modification_log,
                           [i \in 1 .. Cardinality(ValidateThreads) |->
                              serial_log[SetToSeq(ValidateThreads)[i]]])
  /\ logs_ready_for_merge' = FALSE
  /\ UNCHANGED <<ledger_vars, origin, block, stage, reduce_vars, book_offers,
                 main_activated, verdict>>

\* partial_finish for every book and view, then partial_finish_conclude.
MergeOffers ==
  /\ stage = "offers"
  /\ stage' = "wait"
  /\ book_offers' = UNION {local_offers[th] : th \in ValidateThreads}
  /\ main_activated' = FoldFunction(Plus, NoActivation, activated)
  /\ UNCHANGED <<ledger_vars, origin, block, reduce_vars, modification_log,
                 logs_ready_for_merge, verdict>>

in_valid_state(a) == \A x \in Asset : db.available[<<a, x>>] >= 0

check_valid_state(log) ==
  /\ \A a \in DOMAIN log \cap Existing : in_valid_state(a)
  /\ \A a \in db.uncommitted_db : in_valid_state(a)

MergeFinished_Skipped == TRUE

MergeFinished_NonEmpty == ~logs_ready_for_merge /\ modification_log # <<>>

MergeFinished == ~logs_ready_for_merge

\* wait_for_merge_finish and check_valid_state.
CheckState ==
  /\ stage = "wait" /\ MergeFinished
  /\ stage' = "done"
  /\ verdict' = IF check_valid_state(modification_log) THEN "accepted" ELSE "refused"
  /\ UNCHANGED <<ledger_vars, origin, block, reduce_vars, merge_vars>>

Validated == stage = "done" /\ UNCHANGED validation_vars

validation_Next ==
  \/ Produce
  \/ EmitBlock
  \/ \E th \in ValidateThreads :
       \/ TakeItems(th)
       \/ StartTransaction(th)
       \/ ValidateOperation(th)
       \/ CommitTransaction(th)
       \/ Join(th)
  \/ ReduceEnds
  \/ MergeLogs
  \/ MergeOffers
  \/ CheckState
  \/ Validated

\* TBB runs what it has taken, the driver goes on, the merge thread is awake.
validation_Fairness == WF_validation_vars(stage # "done" /\ validation_Next)

validation_Spec == validation_Init /\ [][validation_Next]_validation_vars /\ validation_Fairness

-----------------------------------------------------------------------------
\* The places of the block: item and position within it.
Place == UNION {{i} \X DOMAIN block[i] : i \in DOMAIN block}
TxAt(p) == block[p[1]][p[2]]

\* The operations of the block of a type, as <<place, index>>.
Operations(type) ==
  {q \in Place \X (1 .. MAX_OPS_PER_TX) :
     /\ q[2] \in DOMAIN Tx[TxAt(q[1])].operations
     /\ Tx[TxAt(q[1])].operations[q[2]].type = type}

Op(q) == Tx[TxAt(q[1])].operations[q[2]]
Source(q) == Tx[TxAt(q[1])].sourceAccount

\* No two elements of S have the same value of f.
Distinct(S, f(_)) == \A x, y \in S : f(x) = f(y) => x = y

\* What all operations of the block, and the fees, add to one balance.
NetChange(slot) ==
  LET from(q, x, n) == IF <<Source(q), x>> = slot THEN n ELSE 0
      to(q, x, n) == IF <<Op(q).account, x>> = slot THEN n ELSE 0
      fee(p) == IF <<Tx[TxAt(p)].sourceAccount, NATIVE_ASSET>> = slot THEN fee_required(TxAt(p)) ELSE 0
  IN MapThenSumSet(LAMBDA q : to(q, NATIVE_ASSET, Op(q).amount) - from(q, NATIVE_ASSET, Op(q).amount),
                   Operations("CREATE_ACCOUNT"))
     + MapThenSumSet(LAMBDA q : to(q, Op(q).asset, Op(q).amount) - from(q, Op(q).asset, Op(q).amount),
                     Operations("PAYMENT"))
     + MapThenSumSet(LAMBDA q : from(q, Op(q).asset, Op(q).amount), Operations("MONEY_PRINTER"))
     + MapThenSumSet(LAMBDA q : from(q, Op(q).asset, RestingOffer[<<Source(q), Op(q).offerId>>].amount),
                     Operations("CANCEL_SELL_OFFER"))
     + MapThenSumSet(LAMBDA q : IF ClearsAtOnce(Op(q)) THEN from(q, Op(q).buy, BuyAmount(Op(q))) ELSE 0,
                     Operations("CREATE_SELL_OFFER"))
     - MapThenSumSet(LAMBDA q : from(q, Op(q).asset, Op(q).amount), Operations("CREATE_SELL_OFFER"))
     - MapThenSumSet(fee, Place)

\* What makes a block admissible, whoever validates it and in whatever order:
\* every transaction passes its own checks, no sequence number, account id or
\* cancellation is used twice, and after all of it no balance is negative or
\* more than an amount can hold.
Admissible ==
  /\ \A p \in Place : StaticallyValid(TxAt(p))
  /\ Distinct(Place, LAMBDA p : <<Tx[TxAt(p)].sourceAccount, Tx[TxAt(p)].sequenceNumber>>)
  /\ Distinct(Operations("CREATE_ACCOUNT"), LAMBDA q : Op(q).account)
  /\ \A q \in Operations("CREATE_ACCOUNT") : Op(q).account \notin Existing
  /\ Distinct(Operations("CANCEL_SELL_OFFER"), LAMBDA q : <<Source(q), Op(q).offerId>>)
  /\ \A s \in Account \X Asset : InitAvailable[s] + NetChange(s) \in 0 .. 2 ^ (WORD - 1) - 1

\* A balance is moved so far that its sum, once round the word, has the sign of a
\* good one again.  The code has no test for that: only MONEY_PRINTER, whose
\* amounts have no limit, can do it.
WrapsRound ==
  /\ \A p \in Place : StaticallyValid(TxAt(p))
  /\ \E s \in Account \X Asset :
       InitAvailable[s] + NetChange(s) \notin -(2 ^ (WORD - 1)) .. 2 ^ WORD - 1

\* The offers of the block that clear at once, and what they pay into a slot.
ClearedNow == {q \in Operations("CREATE_SELL_OFFER") : ClearsAtOnce(Op(q))}
OfferId(q) == Tx[TxAt(q[1])].sequenceNumber + q[2] - 1
Proceeds(s) ==
  MapThenSumSet(LAMBDA q : BuyAmount(Op(q)), {q \in ClearedNow : <<Source(q), Op(q).buy>> = s})

\* Validation accepts exactly the admissible blocks, overflowing ones not, unless
\* a balance wraps all the way round: the verdict depends neither on how the
\* block is cut into ranges, nor on which thread gets which range, nor on when
\* the log merge runs.  An accepted block has been counted in full, its cleared
\* supply too.
\* Code: ParallelValidate, validate_transaction, do_merge and
\* wait_for_merge_finish, check_valid_state over the merged log.
VerdictExact ==
  (stage = "done" /\ ~WrapsRound) =>
    /\ verdict = IF Admissible THEN "accepted" ELSE "refused"
    /\ verdict = "accepted" =>
         /\ validator.stats = [new_account |-> Cardinality(Operations("CREATE_ACCOUNT")),
                               new_offer |-> Cardinality(Operations("CREATE_SELL_OFFER")),
                               cancel_offer |-> Cardinality(Operations("CANCEL_SELL_OFFER")),
                               payment |-> Cardinality(Operations("PAYMENT"))]
         /\ \A s \in Account \X Asset : db.available[s] = InitAvailable[s] + NetChange(s)
         /\ \A x \in Asset :
              main_activated[x] = MapThenSumSet(LAMBDA q : Op(q).amount,
                                                {q \in ClearedNow : Op(q).asset = x})

\* The log that production leaves for account a after clearing, normalised.
ProducerEntry(a) ==
  [txs |-> SetToSortSeq({t \in Committed : Tx[t].sourceAccount = a}, TxLess),
   self |-> SetToSortSeq({OfferId(q) : q \in {c \in ClearedNow : Source(c) = a}}, LAMBDA x, y : x < y),
   others |-> SetToSortSeq(
                {<<Source(q), OfferId(q)>> :
                   q \in {c \in Operations("PAYMENT") \cup Operations("CREATE_ACCOUNT") :
                            Op(c).account = a}}, IdLess)]

\* A replica that validates the block of a producer accepts it and is then in
\* the producer's state: the same balances but for what already cleared, the
\* same accounts, sequence numbers, cancellations and offers, and the same
\* modification log, whose hash the header carries.
\* Code: validate_transaction against process_transaction, log_modified_accounts,
\* LogMergeFn and LogNormalizeFn, ValidatingSerialManager::add_offer.
ReplicaAgrees ==
  (stage = "done" /\ origin = "producer") =>
    /\ verdict = "accepted"
    /\ \A s \in Account \X Asset : db.available[s] = balance[s] + Proceeds(s)
    /\ db.uncommitted_db = created
    /\ db.marked_for_deletion = cancelled
    /\ Cardinality(db.sequence_numbers) = Cardinality(used)
    /\ book_offers = {o \in offers : ~\E q \in ClearedNow : OfferId(q) = o.offerId /\ Source(q) = o.owner}
    /\ LET log == LogNormalizeFn(modification_log)
       IN \A a \in Account : Entry(log, a) = ProducerEntry(a)

\* Validation comes to a verdict.
\* Code: LogMergeWorker::run, do_merge and wait_for_merge_finish.
ValidationEnds == (stage = "reduce") ~> (stage = "done")
=============================================================================
