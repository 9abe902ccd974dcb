--------------------------- MODULE TxProcessing ---------------------------
(***************************************************************************)
(* Block production: the worker threads of BlockProducer::build_block      *)
(* process transactions of the mempool concurrently, against one shared    *)
(* MemoryDatabase and one shared set of orderbooks.                        *)
(*                                                                         *)
(* A worker runs SerialTransactionProcessor::process_transaction on one    *)
(* transaction at a time.  Credits are kept in a private                   *)
(* BufferedMemoryDatabaseView until the transaction commits; debits go     *)
(* straight to the shared balance (load, then compare-and-swap) and are    *)
(* remembered so that a failing transaction can give them back.  Every     *)
(* atomic access to shared memory (or critical section of a lock) is one   *)
(* action; computation on the worker's own view is folded into the access  *)
(* that precedes it.                                                       *)
(*                                                                         *)
(* Sequence numbers, account ids and cancelled offers are reserved the     *)
(* same way: taken speculatively, released when the transaction fails.     *)
(***************************************************************************)
EXTENDS Integers, Sequences, FiniteSets

CONSTANTS
  Worker,                 \* threads of the parallel_reduce
  Account,                \* every account id that a transaction may name
  Existing,               \* user_id_to_idx_map: the accounts committed earlier
  Asset, NATIVE_ASSET,
  TxId, NoTx,             \* transactions
  Mempool,                \* the sets of them that a mempool may hold
  Tx,                     \* TxId -> its contents
  RestingOffer,           \* committed_offers: <<owner, offerId>> -> offer
  InitAvailable,          \* <<account, asset>> -> balance before the block
  LastCommittedId,        \* account -> last_committed_id of its tracker
  BASE_FEE_PER_TX, FEE_PER_OP,
  MAX_OPS_PER_TX,         \* 256; sequence numbers are multiples of it
  MAX_SEQ_GAP,            \* 64 bits of sequence_number_vec
  CREATE_ACCOUNT_MIN_STARTING_BALANCE,
  MAX_AMOUNT              \* the bound of is_valid_amount

(***************************************************************************)
(* One (account, asset) pair has one RevertableAsset.                      *)
(***************************************************************************)
Slot == Account \X Asset

OpType == {"CREATE_ACCOUNT", "CREATE_SELL_OFFER", "CANCEL_SELL_OFFER",
           "PAYMENT", "MONEY_PRINTER"}

(***************************************************************************)
(* Operations share one record shape.  account: receiver or new account;   *)
(* asset: payment asset or the sell asset of the offer category; offerId:  *)
(* the offer that a cancellation names; goodCategory, goodPrice: the       *)
(* verdicts of validate_category and price::is_valid_price.                *)
(***************************************************************************)
Operation == [type : OpType, account : Account, asset : Asset, amount : Int,
              offerId : Nat, goodCategory : BOOLEAN, goodPrice : BOOLEAN]

Transaction == [sourceAccount : Account, sequenceNumber : Nat, maxFee : Int,
                goodSignature : BOOLEAN, operations : Seq(Operation)]

Offer == [owner : Account, offerId : Nat, sellAsset : Asset, amount : Int]

OfferKey == Account \X Nat

ASSUME ConstantAssumption ==
  /\ Existing \subseteq Account
  /\ NATIVE_ASSET \in Asset
  /\ NoTx \notin TxId
  /\ Mempool \subseteq SUBSET TxId
  /\ Tx \in [TxId -> Transaction]
  /\ \A t \in TxId : Len(Tx[t].operations) <= MAX_OPS_PER_TX
  /\ DOMAIN RestingOffer \subseteq OfferKey
  /\ \A k \in DOMAIN RestingOffer :
        /\ RestingOffer[k] \in Offer
        /\ RestingOffer[k].amount > 0
  /\ InitAvailable \in [Slot -> Nat]
  /\ LastCommittedId \in [Account -> Nat]
  \* 0 for a new account; commit adds a multiple (uint64_get_seq_num_increment).
  /\ \A a \in Account : LastCommittedId[a] % MAX_OPS_PER_TX = 0
  /\ BASE_FEE_PER_TX \in Nat \ {0}
  /\ FEE_PER_OP \in Nat
  /\ MAX_OPS_PER_TX \in Nat \ {0}
  /\ MAX_SEQ_GAP \in Nat \ {0}
  /\ CREATE_ACCOUNT_MIN_STARTING_BALANCE \in Nat \ {0}
  /\ MAX_AMOUNT \in Nat

VARIABLES
  (* shared *)
  available,              \* RevertableAsset::available of every slot
  sequence_number_vec,    \* account -> offsets whose bit is set
  reserved_account_ids,
  uncommitted_db,         \* accounts pushed by commit_account_creation
  marked_for_deletion,    \* keys marked in the committed offer tries
  uncommitted_offers,     \* after the workers' tries are merged
  (* the driver *)
  phase,                  \* "process" while the reduce runs, then "done"
  status,                 \* TxId -> "ABSENT", "QUEUED", "RUNNING" or the returned status
  (* one per worker: process_transaction's locals and its database view *)
  pc,
  cur_tx,
  op_idx,                 \* 0 while the fee is charged, then the operation
  loaded,                 \* current_available of the compare-and-swap loop
  available_buffer,
  available_side_effects,
  new_accounts,
  new_balance,            \* balances inside new_accounts
  result,                 \* the status a failing transaction will return
  new_offers,             \* the worker's offer tries, kept across transactions
  modified                \* accounts in the worker's SerialAccountModificationLog

balances == <<available>>
reservations == <<sequence_number_vec, reserved_account_ids, uncommitted_db,
                  marked_for_deletion>>
driver == <<uncommitted_offers, phase, status, cur_tx>>
view == <<available_buffer, available_side_effects, new_accounts, new_balance>>
vars == <<balances, reservations, driver, view, pc, op_idx, loaded, result,
          new_offers, modified>>

Statuses == {"SUCCESS", "INVALID_TX_FORMAT", "FEE_BID_TOO_LOW",
   "SOURCE_ACCOUNT_NEXIST", "BAD_SIGNATURE", "SEQ_NUM_TOO_LOW",
   "SEQ_NUM_TOO_HIGH", "SEQ_NUM_TEMP_IN_USE", "INSUFFICIENT_BALANCE",
   "STARTING_BALANCE_TOO_LOW", "NEW_ACCOUNT_ALREADY_EXISTS",
   "NEW_ACCOUNT_TEMP_RESERVED", "INVALID_AMOUNT", "INVALID_OFFER_CATEGORY",
   "INVALID_PRICE", "CANCEL_OFFER_TARGET_NEXIST", "RECIPIENT_ACCOUNT_NEXIST",
   "INVALID_PRINT_MONEY_AMOUNT"}

PC == {"idle", "reserve", "charge", "cas", "op", "unwind_ops", "unwind",
       "commit"}

NoAmounts == [x \in Slot |-> 0]

(***************************************************************************)
(* Pure helpers of the source.                                             *)
(***************************************************************************)
check_tx_format_parameters(t) == Tx[t].sequenceNumber % MAX_OPS_PER_TX = 0

fee_required(t) == BASE_FEE_PER_TX + FEE_PER_OP * Len(Tx[t].operations)

is_valid_amount(amount) == amount > 0 /\ amount <= MAX_AMOUNT

\* uint64_get_seq_num_offset.  Below MAX_OPS_PER_TX the unsigned subtraction
\* wraps and the result is out of range, here as -1.
seq_num_offset(t) ==
  ((Tx[t].sequenceNumber - LastCommittedId[Tx[t].sourceAccount])
      \div MAX_OPS_PER_TX) - 1

seq_num_in_range(t) == seq_num_offset(t) \in 0 .. MAX_SEQ_GAP - 1

\* operation_id: operation i of a transaction has offer id sequenceNumber + i.
make_offer(t, i) ==
  [owner     |-> Tx[t].sourceAccount,
   offerId   |-> Tx[t].sequenceNumber + i - 1,
   sellAsset |-> Tx[t].operations[i].asset,
   amount    |-> Tx[t].operations[i].amount]

cancel_key(t, i) == <<Tx[t].sourceAccount, Tx[t].operations[i].offerId>>

(***************************************************************************)
(* Abbreviations for the transaction that worker w is running.             *)
(***************************************************************************)
Cur(w) == Tx[cur_tx[w]]
CurOp(w) == Cur(w).operations[op_idx[w]]
Source(w) == Cur(w).sourceAccount

\* What the current step withdraws from the source account: the fee, or the
\* amount that CREATE_ACCOUNT, CREATE_SELL_OFFER or PAYMENT takes.
ChargeSlot(w) ==
  IF op_idx[w] = 0 \/ CurOp(w).type = "CREATE_ACCOUNT"
  THEN <<Source(w), NATIVE_ASSET>>
  ELSE <<Source(w), CurOp(w).asset>>

ChargeAmount(w) ==
  IF op_idx[w] = 0 THEN fee_required(cur_tx[w]) ELSE CurOp(w).amount

\* What the view's own buffer does not cover (-new_buffer in the source).
Shortfall(w) == ChargeAmount(w) - available_buffer[w][ChargeSlot(w)]

\* The next operation, or the end of the loop over the operations.
Advance(w) ==
  /\ op_idx' = [op_idx EXCEPT ![w] = @ + 1]
  /\ pc' = [pc EXCEPT ![w] =
       IF op_idx[w] = Len(Cur(w).operations) THEN "commit" ELSE "op"]

\* The current step failed: unwind_transaction for the operations before it,
\* then OperationMetadata::unwind.
Fail(w, s) ==
  /\ result' = [result EXCEPT ![w] = s]
  /\ op_idx' = [op_idx EXCEPT ![w] = @ - 1]
  /\ pc' = [pc EXCEPT ![w] = IF op_idx[w] <= 1 THEN "unwind" ELSE "unwind_ops"]

\* process_transaction returns s; the view is destroyed.
Return(w, s) ==
  /\ status' = [status EXCEPT ![cur_tx[w]] = s]
  /\ cur_tx' = [cur_tx EXCEPT ![w] = NoTx]
  /\ pc' = [pc EXCEPT ![w] = "idle"]
  /\ op_idx' = [op_idx EXCEPT ![w] = 0]
  /\ loaded' = [loaded EXCEPT ![w] = 0]
  /\ available_buffer' = [available_buffer EXCEPT ![w] = NoAmounts]
  /\ available_side_effects' = [available_side_effects EXCEPT ![w] = NoAmounts]
  /\ new_accounts' = [new_accounts EXCEPT ![w] = {}]
  /\ new_balance' = [new_balance EXCEPT ![w] = NoAmounts]
  /\ result' = [result EXCEPT ![w] = "SUCCESS"]

-----------------------------------------------------------------------------
Init ==
  /\ available = InitAvailable
  /\ sequence_number_vec = [a \in Account |-> {}]
  /\ reserved_account_ids = {}
  /\ uncommitted_db = {}
  /\ marked_for_deletion = {}
  /\ uncommitted_offers = {}
  /\ phase = "process"
  /\ \E m \in Mempool :
       status = [t \in TxId |-> IF t \in m THEN "QUEUED" ELSE "ABSENT"]
  /\ pc = [w \in Worker |-> "idle"]
  /\ cur_tx = [w \in Worker |-> NoTx]
  /\ op_idx = [w \in Worker |-> 0]
  /\ loaded = [w \in Worker |-> 0]
  /\ available_buffer = [w \in Worker |-> NoAmounts]
  /\ available_side_effects = [w \in Worker |-> NoAmounts]
  /\ new_accounts = [w \in Worker |-> {}]
  /\ new_balance = [w \in Worker |-> NoAmounts]
  /\ result = [w \in Worker |-> "SUCCESS"]
  /\ new_offers = [w \in Worker |-> {}]
  /\ modified = [w \in Worker |-> {}]

(***************************************************************************)
(* Taking a transaction.  The checks that come before the sequence number  *)
(* read only what no worker changes during block production.               *)
(***************************************************************************)
EarlyStatus(t) ==
  IF ~check_tx_format_parameters(t) THEN "INVALID_TX_FORMAT"
  ELSE IF fee_required(t) > Tx[t].maxFee THEN "FEE_BID_TOO_LOW"
  ELSE IF Tx[t].sourceAccount \notin Existing THEN "SOURCE_ACCOUNT_NEXIST"
  ELSE IF ~Tx[t].goodSignature THEN "BAD_SIGNATURE"
  ELSE "SUCCESS"

StartTx(w, t) ==
  /\ phase = "process"
  /\ pc[w] = "idle"
  /\ status[t] = "QUEUED"
  /\ EarlyStatus(t) = "SUCCESS"
  /\ status' = [status EXCEPT ![t] = "RUNNING"]
  /\ cur_tx' = [cur_tx EXCEPT ![w] = t]
  /\ pc' = [pc EXCEPT ![w] = "reserve"]
  /\ UNCHANGED <<balances, reservations, view, uncommitted_offers, phase,
                 op_idx, loaded, result, new_offers, modified>>

RejectTx(w, t) ==
  /\ phase = "process"
  /\ pc[w] = "idle"
  /\ status[t] = "QUEUED"
  /\ EarlyStatus(t) # "SUCCESS"
  /\ status' = [status EXCEPT ![t] = EarlyStatus(t)]
  /\ UNCHANGED <<balances, reservations, view, uncommitted_offers, phase,
                 cur_tx, pc, op_idx, loaded, result, new_offers, modified>>

(***************************************************************************)
(* UInt64SequenceTracker::reserve_sequence_number: one fetch_or.           *)
(***************************************************************************)
\* Faulty variant: the previous value of the fetch_or is not looked at.
SeqStatus_Ignored(t) ==
  IF Tx[t].sequenceNumber <= LastCommittedId[Tx[t].sourceAccount]
  THEN "SEQ_NUM_TOO_LOW"
  ELSE IF ~seq_num_in_range(t) THEN "SEQ_NUM_TOO_HIGH"
  ELSE "SUCCESS"

SeqStatus(t) ==
  LET a == Tx[t].sourceAccount
  IN IF Tx[t].sequenceNumber <= LastCommittedId[a] THEN "SEQ_NUM_TOO_LOW"
     ELSE IF ~seq_num_in_range(t) THEN "SEQ_NUM_TOO_HIGH"
     ELSE IF seq_num_offset(t) \in sequence_number_vec[a]
          THEN "SEQ_NUM_TEMP_IN_USE"
     ELSE "SUCCESS"

ReserveSeqNum(w) ==
  /\ pc[w] = "reserve"
  /\ SeqStatus(cur_tx[w]) = "SUCCESS"
  /\ sequence_number_vec' =
       [sequence_number_vec EXCEPT ![Source(w)] =
          @ \cup {seq_num_offset(cur_tx[w])}]
  /\ pc' = [pc EXCEPT ![w] = "charge"]
  /\ UNCHANGED <<balances, reserved_account_ids, uncommitted_db,
                 marked_for_deletion, driver, view, op_idx, loaded, result,
                 new_offers, modified>>

SeqNumRefused(w) ==
  /\ pc[w] = "reserve"
  /\ SeqStatus(cur_tx[w]) # "SUCCESS"
  /\ Return(w, SeqStatus(cur_tx[w]))
  /\ UNCHANGED <<balances, reservations, uncommitted_offers, phase,
                 new_offers, modified>>

(***************************************************************************)
(* Withdrawals: UserAccountView::transfer_available with a negative amount *)
(* and conditional_escrow with a positive one.  The view's buffer is used  *)
(* first; the rest comes from the shared balance through                   *)
(* RevertableAsset::conditional_transfer_available.                        *)
(***************************************************************************)
\* What follows a successful withdrawal, with new_buffer left in the view.
Settle(w, new_buffer) ==
  LET buf == [available_buffer[w] EXCEPT ![ChargeSlot(w)] = new_buffer]
      o == CurOp(w)
  IN CASE op_idx[w] = 0 \/ CurOp(w).type = "CREATE_SELL_OFFER" ->
            /\ available_buffer' = [available_buffer EXCEPT ![w] = buf]
            /\ UNCHANGED <<new_balance, result>>
            /\ Advance(w)
       [] op_idx[w] # 0 /\ CurOp(w).type = "CREATE_ACCOUNT" ->
            /\ available_buffer' = [available_buffer EXCEPT ![w] = buf]
            /\ IF is_valid_amount(o.amount)
               THEN /\ new_balance' = [new_balance EXCEPT
                          ![w][<<o.account, NATIVE_ASSET>>] = @ + o.amount]
                    /\ UNCHANGED result
                    /\ Advance(w)
               ELSE /\ UNCHANGED new_balance
                    /\ Fail(w, "INVALID_AMOUNT")
       [] op_idx[w] # 0 /\ CurOp(w).type = "PAYMENT" ->
            /\ UNCHANGED result
            /\ Advance(w)
            /\ IF o.account \in new_accounts[w]
               THEN /\ available_buffer' = [available_buffer EXCEPT ![w] = buf]
                    /\ new_balance' = [new_balance EXCEPT
                          ![w][<<o.account, o.asset>>] = @ + o.amount]
               ELSE /\ available_buffer' = [available_buffer EXCEPT
                          ![w] = [buf EXCEPT ![<<o.account, o.asset>>]
                                     = @ + o.amount]]
                    /\ UNCHANGED new_balance

ChargeFromBuffer(w) ==
  /\ pc[w] = "charge"
  /\ Shortfall(w) <= 0
  /\ Settle(w, - Shortfall(w))
  /\ UNCHANGED <<balances, reservations, driver, available_side_effects,
                 new_accounts, loaded, new_offers, modified>>

\* A failed escrow takes its offer out of the worker's trie again.
DropCurrentOffer(w) ==
  IF op_idx[w] # 0 /\ CurOp(w).type = "CREATE_SELL_OFFER"
  THEN new_offers' = [new_offers EXCEPT
                        ![w] = @ \ {make_offer(cur_tx[w], op_idx[w])}]
  ELSE UNCHANGED new_offers

LoadAvailable(w) ==
  /\ pc[w] = "charge"
  /\ Shortfall(w) > 0
  /\ available[ChargeSlot(w)] >= Shortfall(w)
  /\ loaded' = [loaded EXCEPT ![w] = available[ChargeSlot(w)]]
  /\ pc' = [pc EXCEPT ![w] = "cas"]
  /\ UNCHANGED <<balances, reservations, driver, view, op_idx, result,
                 new_offers, modified>>

InsufficientBalance(w) ==
  /\ pc[w] = "charge"
  /\ Shortfall(w) > 0
  /\ available[ChargeSlot(w)] < Shortfall(w)
  /\ Fail(w, "INSUFFICIENT_BALANCE")
  /\ DropCurrentOffer(w)
  /\ UNCHANGED <<balances, reservations, driver, view, loaded, modified>>

\* Faulty variant: a plain store instead of a compare-and-swap.
CasExpected_Ignored(w) == TRUE

\* compare_exchange_weak stores only over the value that was loaded ...
CasExpected(w) == available[ChargeSlot(w)] = loaded[w]

\* Faulty variant: the balance is checked, then changed with a fetch_add.
CasAvailable_FetchAdd(w) ==
  /\ pc[w] = "cas"
  /\ available' = [available EXCEPT ![ChargeSlot(w)] = @ - Shortfall(w)]
  /\ available_side_effects' =
       [available_side_effects EXCEPT ![w][ChargeSlot(w)] = @ - Shortfall(w)]
  /\ loaded' = [loaded EXCEPT ![w] = 0]
  /\ Settle(w, 0)
  /\ UNCHANGED <<reservations, driver, new_accounts, new_offers, modified>>

CasAvailable(w) ==
  /\ pc[w] = "cas"
  /\ CasExpected(w)
  /\ available' = [available EXCEPT ![ChargeSlot(w)] = loaded[w] - Shortfall(w)]
  /\ available_side_effects' =
       [available_side_effects EXCEPT ![w][ChargeSlot(w)] = @ - Shortfall(w)]
  /\ loaded' = [loaded EXCEPT ![w] = 0]
  /\ Settle(w, 0)
  /\ UNCHANGED <<reservations, driver, new_accounts, new_offers, modified>>

\* Faulty variant: the loop compares with the old value again.
CasRetry_NoReload(w) == pc[w] = "cas" /\ UNCHANGED vars

\* ... and may fail, because the value changed or spuriously: load again.
CasRetry(w) ==
  /\ pc[w] = "cas"
  /\ loaded' = [loaded EXCEPT ![w] = 0]
  /\ pc' = [pc EXCEPT ![w] = "charge"]
  /\ UNCHANGED <<balances, reservations, driver, view, op_idx, result,
                 new_offers, modified>>

(***************************************************************************)
(* The operations, up to their withdrawal.                                 *)
(***************************************************************************)
\* An operation that fails its own checks changes nothing shared.
OpRefused(w, s) ==
  /\ Fail(w, s)
  /\ UNCHANGED <<balances, reservations, driver, view, loaded, new_offers,
                 modified>>

CreateAccountStatus(w) ==
  IF CurOp(w).amount < CREATE_ACCOUNT_MIN_STARTING_BALANCE
  THEN "STARTING_BALANCE_TOO_LOW"
  ELSE IF CurOp(w).account \in Existing THEN "NEW_ACCOUNT_ALREADY_EXISTS"
  ELSE IF CurOp(w).account \in reserved_account_ids
       THEN "NEW_ACCOUNT_TEMP_RESERVED"
  ELSE "SUCCESS"

\* MemoryDatabase::reserve_account_creation, under uncommitted_mtx.
OpCreateAccount(w) ==
  /\ pc[w] = "op"
  /\ CurOp(w).type = "CREATE_ACCOUNT"
  /\ \/ /\ CreateAccountStatus(w) = "SUCCESS"
        /\ reserved_account_ids' = reserved_account_ids \cup {CurOp(w).account}
        /\ new_accounts' = [new_accounts EXCEPT ![w] = @ \cup {CurOp(w).account}]
        /\ pc' = [pc EXCEPT ![w] = "charge"]
        /\ UNCHANGED <<balances, sequence_number_vec, uncommitted_db,
                       marked_for_deletion, driver, available_buffer,
                       available_side_effects, new_balance, op_idx, loaded,
                       result, new_offers, modified>>
     \/ /\ CreateAccountStatus(w) # "SUCCESS"
        /\ OpRefused(w, CreateAccountStatus(w))

SellOfferStatus(w) ==
  IF ~CurOp(w).goodCategory THEN "INVALID_OFFER_CATEGORY"
  ELSE IF ~CurOp(w).goodPrice THEN "INVALID_PRICE"
  ELSE IF ~is_valid_amount(CurOp(w).amount) THEN "INVALID_AMOUNT"
  ELSE "SUCCESS"

\* The offer enters the worker's trie before its amount is escrowed.
OpCreateSellOffer(w) ==
  /\ pc[w] = "op"
  /\ CurOp(w).type = "CREATE_SELL_OFFER"
  /\ \/ /\ SellOfferStatus(w) = "SUCCESS"
        /\ new_offers' = [new_offers EXCEPT
                            ![w] = @ \cup {make_offer(cur_tx[w], op_idx[w])}]
        /\ pc' = [pc EXCEPT ![w] = "charge"]
        /\ UNCHANGED <<balances, reservations, driver, view, op_idx, loaded,
                       result, modified>>
     \/ /\ SellOfferStatus(w) # "SUCCESS"
        /\ OpRefused(w, SellOfferStatus(w))

\* Faulty variant: an offer that is marked already can be marked again.
Cancellable_Twice(key, sellAsset) ==
  /\ key \in DOMAIN RestingOffer
  /\ RestingOffer[key].sellAsset = sellAsset

\* mark_for_deletion finds an offer of the committed trie that nobody marked;
\* the trie of another category does not hold it.
Cancellable(key, sellAsset) ==
  /\ key \in DOMAIN RestingOffer
  /\ RestingOffer[key].sellAsset = sellAsset
  /\ key \notin marked_for_deletion

\* The refund goes into the view's buffer and cannot fail.
OpCancelSellOffer(w) ==
  LET key == cancel_key(cur_tx[w], op_idx[w])
  IN /\ pc[w] = "op"
     /\ CurOp(w).type = "CANCEL_SELL_OFFER"
     /\ \/ /\ Cancellable(key, CurOp(w).asset)
           /\ marked_for_deletion' = marked_for_deletion \cup {key}
           /\ available_buffer' = [available_buffer EXCEPT
                ![w][<<Source(w), CurOp(w).asset>>] = @ + RestingOffer[key].amount]
           /\ Advance(w)
           /\ UNCHANGED <<balances, sequence_number_vec, reserved_account_ids,
                          uncommitted_db, driver, available_side_effects,
                          new_accounts, new_balance, loaded, result,
                          new_offers, modified>>
        \/ /\ ~Cancellable(key, CurOp(w).asset)
           /\ OpRefused(w, "CANCEL_OFFER_TARGET_NEXIST")

\* lookup_user sees committed accounts and those this transaction creates.
PaymentStatus(w) ==
  IF ~is_valid_amount(CurOp(w).amount) THEN "INVALID_AMOUNT"
  ELSE IF CurOp(w).account \notin Existing \cup new_accounts[w]
       THEN "RECIPIENT_ACCOUNT_NEXIST"
  ELSE "SUCCESS"

OpPayment(w) ==
  /\ pc[w] = "op"
  /\ CurOp(w).type = "PAYMENT"
  /\ \/ /\ PaymentStatus(w) = "SUCCESS"
        /\ pc' = [pc EXCEPT ![w] = "charge"]
        /\ UNCHANGED <<balances, reservations, driver, view, op_idx, loaded,
                       result, new_offers, modified>>
     \/ /\ PaymentStatus(w) # "SUCCESS"
        /\ OpRefused(w, PaymentStatus(w))

OpMoneyPrinter(w) ==
  /\ pc[w] = "op"
  /\ CurOp(w).type = "MONEY_PRINTER"
  /\ \/ /\ CurOp(w).amount >= 0
        /\ available_buffer' = [available_buffer EXCEPT
             ![w][<<Source(w), CurOp(w).asset>>] = @ + CurOp(w).amount]
        /\ Advance(w)
        /\ UNCHANGED <<balances, reservations, driver, available_side_effects,
                       new_accounts, new_balance, loaded, result, new_offers,
                       modified>>
     \/ /\ CurOp(w).amount < 0
        /\ OpRefused(w, "INVALID_PRINT_MONEY_AMOUNT")

(***************************************************************************)
(* Failure: unwind_transaction undoes the completed operations, last one   *)
(* first, then OperationMetadata::unwind returns every withdrawal and      *)
(* releases account ids and the sequence number.                           *)
(***************************************************************************)
UnwindOp(w) ==
  /\ pc[w] = "unwind_ops"
  /\ op_idx' = [op_idx EXCEPT ![w] = @ - 1]
  /\ pc' = [pc EXCEPT ![w] = IF op_idx[w] = 1 THEN "unwind" ELSE @]
  /\ marked_for_deletion' =
       IF CurOp(w).type = "CANCEL_SELL_OFFER"
       THEN marked_for_deletion \ {cancel_key(cur_tx[w], op_idx[w])}
       ELSE marked_for_deletion
  /\ new_offers' =
       IF CurOp(w).type = "CREATE_SELL_OFFER"
       THEN [new_offers EXCEPT ![w] = @ \ {make_offer(cur_tx[w], op_idx[w])}]
       ELSE new_offers
  /\ UNCHANGED <<balances, sequence_number_vec, reserved_account_ids,
                 uncommitted_db, driver, view, loaded, result, modified>>

\* UserAccountView::unwind: one fetch_add per touched slot, in any order.
UnwindBalance(w) ==
  /\ pc[w] = "unwind"
  /\ \E x \in Slot :
       /\ available_side_effects[w][x] # 0
       /\ available' = [available EXCEPT ![x] = @ - available_side_effects[w][x]]
       /\ available_side_effects' = [available_side_effects EXCEPT ![w][x] = 0]
  /\ UNCHANGED <<reservations, driver, available_buffer, new_accounts,
                 new_balance, pc, op_idx, loaded, result, new_offers, modified>>

\* MemoryDatabase::release_account_creation, under uncommitted_mtx.
ReleaseAccount(w) ==
  /\ pc[w] = "unwind"
  /\ available_side_effects[w] = NoAmounts
  /\ \E a \in new_accounts[w] :
       /\ reserved_account_ids' = reserved_account_ids \ {a}
       /\ new_accounts' = [new_accounts EXCEPT ![w] = @ \ {a}]
  /\ UNCHANGED <<balances, sequence_number_vec, uncommitted_db,
                 marked_for_deletion, driver, available_buffer,
                 available_side_effects, new_balance, pc, op_idx, loaded,
                 result, new_offers, modified>>

\* UInt64SequenceTracker::release_sequence_number: one fetch_and.
ReleaseSeqNum(w) ==
  /\ pc[w] = "unwind"
  /\ available_side_effects[w] = NoAmounts
  /\ new_accounts[w] = {}
  /\ sequence_number_vec' =
       [sequence_number_vec EXCEPT ![Source(w)] =
          @ \ {seq_num_offset(cur_tx[w])}]
  /\ Return(w, result[w])
  /\ UNCHANGED <<balances, reserved_account_ids, uncommitted_db,
                 marked_for_deletion, uncommitted_offers, phase, new_offers,
                 modified>>

(***************************************************************************)
(* Success: BufferedMemoryDatabaseView::commit adds every buffered credit  *)
(* to the shared balance, then publishes the new accounts.                 *)
(***************************************************************************)
CommitBalance(w) ==
  /\ pc[w] = "commit"
  /\ \E x \in Slot :
       /\ available_buffer[w][x] # 0
       /\ available' = [available EXCEPT ![x] = @ + available_buffer[w][x]]
       /\ available_buffer' = [available_buffer EXCEPT ![w][x] = 0]
  /\ UNCHANGED <<reservations, driver, available_side_effects, new_accounts,
                 new_balance, pc, op_idx, loaded, result, new_offers, modified>>

\* The entry of uncommitted_db for account a, created by transaction t.
NewEntry(a, t, bal) == [id |-> a, by |-> t, balance |-> [s \in Asset |-> bal[<<a, s>>]]]

\* MemoryDatabase::commit_account_creation, under uncommitted_mtx.
CommitAccount(w) ==
  /\ pc[w] = "commit"
  /\ available_buffer[w] = NoAmounts
  /\ \E a \in new_accounts[w] :
       /\ uncommitted_db' = uncommitted_db \cup
                              {NewEntry(a, cur_tx[w], new_balance[w])}
       /\ new_accounts' = [new_accounts EXCEPT ![w] = @ \ {a}]
  /\ UNCHANGED <<balances, sequence_number_vec, reserved_account_ids,
                 marked_for_deletion, driver, available_buffer,
                 available_side_effects, new_balance, pc, op_idx, loaded,
                 result, new_offers, modified>>

\* Faulty variants: receivers are not logged; a payment's asset is logged for
\* its receiver.
LoggedAccounts_SourceOnly(t) == {Tx[t].sourceAccount}
LoggedAccounts_Asset(t) ==
  {Tx[t].sourceAccount} \cup
  {Tx[t].operations[i].asset : i \in DOMAIN Tx[t].operations}

\* log_modified_accounts: the source, and whom the operations pay or create.
LoggedAccounts(t) ==
  {Tx[t].sourceAccount} \cup
  {Tx[t].operations[i].account : i \in
     {j \in DOMAIN Tx[t].operations :
        Tx[t].operations[j].type \in {"CREATE_ACCOUNT", "PAYMENT"}}}

\* commit_sequence_number does nothing: the bit stays until the block ends.
CommitDone(w) ==
  /\ pc[w] = "commit"
  /\ available_buffer[w] = NoAmounts
  /\ new_accounts[w] = {}
  /\ modified' = [modified EXCEPT ![w] = @ \cup LoggedAccounts(cur_tx[w])]
  /\ Return(w, "SUCCESS")
  /\ UNCHANGED <<balances, reservations, uncommitted_offers, phase, new_offers>>

(***************************************************************************)
(* Every worker has returned, having emptied the mempool or run out of     *)
(* block space: build_block merges the workers' offer tries                *)
(* (partial_finish for every orderbook, then partial_finish_conclude).     *)
(***************************************************************************)
FinishBuild ==
  /\ phase = "process"
  /\ \A w \in Worker : pc[w] = "idle"
  /\ phase' = "done"
  /\ uncommitted_offers' = UNION {new_offers[w] : w \in Worker}
  /\ new_offers' = [w \in Worker |-> {}]
  /\ UNCHANGED <<balances, reservations, status, cur_tx, view, pc, op_idx,
                 loaded, result, modified>>

Finished == phase = "done" /\ UNCHANGED vars

WorkerStep(w) ==
  \/ \E t \in TxId : StartTx(w, t) \/ RejectTx(w, t)
  \/ ReserveSeqNum(w) \/ SeqNumRefused(w)
  \/ ChargeFromBuffer(w) \/ LoadAvailable(w) \/ InsufficientBalance(w)
  \/ CasAvailable(w) \/ CasRetry(w)
  \/ OpCreateAccount(w) \/ OpCreateSellOffer(w) \/ OpCancelSellOffer(w)
  \/ OpPayment(w) \/ OpMoneyPrinter(w)
  \/ UnwindOp(w) \/ UnwindBalance(w) \/ ReleaseAccount(w) \/ ReleaseSeqNum(w)
  \/ CommitBalance(w) \/ CommitAccount(w) \/ CommitDone(w)

Next == (\E w \in Worker : WorkerStep(w)) \/ FinishBuild \/ Finished

(***************************************************************************)
(* A thread that can step is eventually scheduled; a compare-and-swap that *)
(* is attempted again and again over an unchanged value does not fail      *)
(* spuriously forever.                                                     *)
(***************************************************************************)
Fairness ==
  /\ \A w \in Worker : WF_vars(WorkerStep(w)) /\ SF_vars(CasAvailable(w))
  /\ WF_vars(FinishBuild)

Spec == Init /\ [][Next]_vars /\ Fairness

-----------------------------------------------------------------------------
(***************************************************************************)
(* Type invariant.  What UserAccountView's comments say of the signs of    *)
(* the worker-private amounts is part of NoOverdraft.                      *)
(***************************************************************************)
TypeOK ==
  /\ available \in [Slot -> Int]
  /\ sequence_number_vec \in [Account -> SUBSET Int]
  /\ reserved_account_ids \subseteq Account
  /\ uncommitted_db \subseteq
       [id : Account, by : TxId, balance : [Asset -> Int]]
  /\ marked_for_deletion \subseteq DOMAIN RestingOffer
  /\ uncommitted_offers \subseteq Offer
  /\ phase \in {"process", "done"}
  /\ status \in [TxId -> Statuses \cup {"ABSENT", "QUEUED", "RUNNING"}]
  /\ pc \in [Worker -> PC]
  /\ cur_tx \in [Worker -> TxId \cup {NoTx}]
  /\ op_idx \in [Worker -> Int]
  /\ loaded \in [Worker -> Int]
  /\ available_buffer \in [Worker -> [Slot -> Int]]
  /\ available_side_effects \in [Worker -> [Slot -> Int]]
  /\ new_accounts \in [Worker -> SUBSET Account]
  /\ new_balance \in [Worker -> [Slot -> Int]]
  /\ result \in [Worker -> Statuses]
  /\ new_offers \in [Worker -> SUBSET Offer]
  /\ modified \in [Worker -> SUBSET Account]

\* No interleaving of workers, retries and unwinds overdraws a balance: a
\* shared balance is never negative, nor is what a worker still owes it
\* (buffered credits, withdrawals to return, balances of new accounts).
\* Code: conditional_transfer_available and the buffered view over it.
NoOverdraft ==
  /\ \A x \in Slot : available[x] >= 0
  /\ \A w \in Worker, x \in Slot :
       /\ available_buffer[w][x] >= 0
       /\ available_side_effects[w][x] <= 0
       /\ new_balance[w][x] >= 0

\* Transactions that hold their sequence number: committed, or running past
\* the reservation and not yet released.
HoldsSeqNum(t) ==
  \/ status[t] = "SUCCESS"
  \/ \E w \in Worker : cur_tx[w] = t /\ pc[w] \notin {"idle", "reserve"}

\* Two transactions of one account with one sequence number are never both
\* in the block, nor both in flight, whatever is released in between.
\* Code: reserve_sequence_number / release_sequence_number.
SeqNumHeldOnce ==
  LET holders == {t \in TxId : HoldsSeqNum(t)}
  IN \A t, u \in holders :
       /\ Tx[t].sourceAccount = Tx[u].sourceAccount
       /\ Tx[t].sequenceNumber = Tx[u].sequenceNumber
       => t = u

\* The operations of w's transaction whose effects stand at the moment.
CompletedOps(w) ==
  IF pc[w] = "unwind_ops" THEN 1 .. op_idx[w]
  ELSE IF pc[w] \in {"op", "charge", "cas", "commit"} THEN 1 .. op_idx[w] - 1
  ELSE {}

IsCancel(t, i) ==
  i \in DOMAIN Tx[t].operations
    /\ Tx[t].operations[i].type = "CANCEL_SELL_OFFER"

\* Operation i of t is a cancellation whose refund was granted.
HoldsCancel(t, i) ==
  /\ \/ status[t] = "SUCCESS"
     \/ \E w \in Worker : cur_tx[w] = t /\ i \in CompletedOps(w)
  /\ IsCancel(t, i)

\* The escrow of a resting offer is refunded at most once, although a failing
\* transaction unmarks the offers that it cancelled while others race for them.
\* Code: mark_for_deletion / unmark_for_deletion through delete_offer and
\* undelete_offer.
OfferRefundedOnce ==
  LET held == {c \in TxId \X (1 .. MAX_OPS_PER_TX) : HoldsCancel(c[1], c[2])}
  IN \A c, d \in held :
       cancel_key(c[1], c[2]) = cancel_key(d[1], d[2]) => c = d

\* One account id is created by at most one transaction, never over a
\* committed account, and never while another running transaction believes
\* that it holds the id.
\* Code: reserve_account_creation, release_account_creation and
\* commit_account_creation.
AccountCreatedOnce ==
  \A e \in uncommitted_db :
    /\ e.id \notin Existing
    /\ \A f \in uncommitted_db : e.id = f.id => e = f
    /\ \A w \in Worker : e.id \notin new_accounts[w]

\* What transactions reserve is held by one of them at a time.
\* Code: the three pairs of reservation and release above.
ReservationsHeldOnce == SeqNumHeldOnce /\ OfferRefundedOnce /\ AccountCreatedOnce

\* Every account that the block changes (balance, sequence number, creation)
\* is in some worker's modification log: later phases commit, hash and persist
\* logged accounts only.  Code: log_modified_accounts.
ModLogComplete ==
  phase = "done" =>
    \A a \in Account :
      \/ \E s \in Asset : available[<<a, s>>] # InitAvailable[<<a, s>>]
      \/ sequence_number_vec[a] # {}
      \/ \E e \in uncommitted_db : e.id = a
      => \E w \in Worker : a \in modified[w]

\* Every transaction that a worker takes is eventually answered, and
\* build_block returns.  Code: the loops of process_transaction, of the
\* compare-and-swap and of the unwinding.
BlockFinishes == <>(phase = "done")
=============================================================================
