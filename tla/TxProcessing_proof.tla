------------------------ MODULE TxProcessing_proof ------------------------
(***************************************************************************)
(* Proofs about TxProcessing, for any number of workers, accounts, assets  *)
(* and transactions: balances are never overdrawn, what transactions       *)
(* reserve while they run (sequence numbers, resting offers to cancel,     *)
(* account ids) is held by one of them at a time, and every account that   *)
(* the block changes is in the modification log.                           *)
(***************************************************************************)
EXTENDS TxProcessing, Counting_proof

(***************************************************************************)
(* Where a worker is determines what it holds: a running worker has a      *)
(* transaction, the operation index is within bounds, and a withdrawal in  *)
(* progress belongs to an operation that withdraws a positive amount.      *)
(***************************************************************************)
Located(w) ==
  /\ pc[w] # "idle" => cur_tx[w] \in TxId
  /\ pc[w] \in {"idle", "reserve"} => op_idx[w] = 0
  /\ pc[w] \in {"charge", "cas"} => op_idx[w] \in 0 .. Len(Cur(w).operations)
  /\ pc[w] \in {"op", "unwind_ops"} => op_idx[w] \in 1 .. Len(Cur(w).operations)
  /\ pc[w] \in {"charge", "cas"} /\ op_idx[w] # 0 =>
       /\ CurOp(w).type \in {"CREATE_ACCOUNT", "CREATE_SELL_OFFER", "PAYMENT"}
       /\ CurOp(w).amount > 0
  /\ pc[w] = "cas" => Shortfall(w) > 0 /\ loaded[w] >= Shortfall(w)

LocInv == \A w \in Worker : Located(w)

\* Contents of the constant transactions, as the provers need them.
LEMMA TxType ==
  ASSUME NEW t \in TxId
  PROVE  /\ Tx[t] \in Transaction
         /\ Tx[t].sourceAccount \in Account
         /\ Tx[t].sequenceNumber \in Nat
         /\ Tx[t].operations \in Seq(Operation)
         /\ Len(Tx[t].operations) \in Nat
         /\ DOMAIN Tx[t].operations = 1 .. Len(Tx[t].operations)
         /\ fee_required(t) \in Nat \ {0}
         /\ seq_num_offset(t) \in Int
         /\ \A i \in 1 .. Len(Tx[t].operations) :
              /\ Tx[t].operations[i] \in Operation
              /\ Tx[t].operations[i].account \in Account
              /\ Tx[t].operations[i].asset \in Asset
              /\ Tx[t].operations[i].amount \in Int
              /\ Tx[t].operations[i].offerId \in Nat
              /\ make_offer(t, i) \in Offer
<1>1. Tx[t] \in Transaction
  BY ConstantAssumption
<1>2. /\ Tx[t].sourceAccount \in Account
      /\ Tx[t].sequenceNumber \in Nat
      /\ Tx[t].operations \in Seq(Operation)
  BY <1>1 DEF Transaction
<1>3. /\ Len(Tx[t].operations) \in Nat
      /\ DOMAIN Tx[t].operations = 1 .. Len(Tx[t].operations)
      /\ \A i \in 1 .. Len(Tx[t].operations) : Tx[t].operations[i] \in Operation
  BY <1>2
<1>4. FEE_PER_OP * Len(Tx[t].operations) \in Nat
  BY <1>3, ConstantAssumption, SMTT(20)
<1>5. fee_required(t) \in Nat \ {0}
  <2>1. \A n \in Nat : BASE_FEE_PER_TX + n \in Nat \ {0}
    BY ConstantAssumption
  <2> QED
    BY <1>4, <2>1, Zenon DEF fee_required
<1>6. seq_num_offset(t) \in Int
  <2>1. /\ LastCommittedId[Tx[t].sourceAccount] \in Nat
        /\ MAX_OPS_PER_TX \in Nat \ {0}
    BY <1>2, ConstantAssumption
  <2>2. (Tx[t].sequenceNumber - LastCommittedId[Tx[t].sourceAccount]) \in Int
    BY <1>2, <2>1
  <2> QED
    BY <2>1, <2>2 DEF seq_num_offset
<1>7. ASSUME NEW i \in 1 .. Len(Tx[t].operations)
      PROVE  /\ Tx[t].operations[i].account \in Account
             /\ Tx[t].operations[i].asset \in Asset
             /\ Tx[t].operations[i].amount \in Int
             /\ Tx[t].operations[i].offerId \in Nat
             /\ make_offer(t, i) \in Offer
  <2>1. Tx[t].operations[i] \in Operation
    BY <1>3
  <2>2. /\ Tx[t].operations[i].account \in Account
        /\ Tx[t].operations[i].asset \in Asset
        /\ Tx[t].operations[i].amount \in Int
        /\ Tx[t].operations[i].offerId \in Nat
    BY <2>1 DEF Operation
  <2>3. Tx[t].sequenceNumber + i - 1 \in Nat
    BY <1>2, <1>3
  <2> QED
    BY <1>2, <2>2, <2>3 DEF make_offer, Offer
<1> QED
  BY <1>1, <1>2, <1>3, <1>5, <1>6, <1>7

(***************************************************************************)
(* The invariant that type correctness rests on.                           *)
(***************************************************************************)
TInv == TypeOK /\ LocInv

\* What is known of the operation that worker w is at.
LEMMA CurType ==
  ASSUME TInv, NEW w \in Worker, pc[w] # "idle"
  PROVE  /\ cur_tx[w] \in TxId
         /\ Source(w) \in Account
         /\ Len(Cur(w).operations) \in Nat
         /\ op_idx[w] \in Int
         /\ op_idx[w] \in 1 .. Len(Cur(w).operations) =>
              /\ CurOp(w) \in Operation
              /\ CurOp(w).account \in Account
              /\ CurOp(w).asset \in Asset
              /\ CurOp(w).amount \in Int
              /\ CurOp(w).offerId \in Nat
              /\ make_offer(cur_tx[w], op_idx[w]) \in Offer
<1>1. cur_tx[w] \in TxId
  BY DEF TInv, LocInv, Located
<1> QED
  BY <1>1, TxType DEF TInv, TypeOK, Source, Cur, CurOp

\* What is known of a withdrawal in progress.
LEMMA ChargeType ==
  ASSUME TInv, NEW w \in Worker, pc[w] \in {"charge", "cas"}
  PROVE  /\ ChargeSlot(w) \in Slot
         /\ ChargeAmount(w) \in Int
         /\ ChargeAmount(w) > 0
         /\ Shortfall(w) \in Int
         /\ available[ChargeSlot(w)] \in Int
         /\ available_buffer[w][ChargeSlot(w)] \in Int
<1>1. /\ cur_tx[w] \in TxId
      /\ Source(w) \in Account
      /\ op_idx[w] \in 0 .. Len(Cur(w).operations)
      /\ Len(Cur(w).operations) \in Nat
  BY CurType DEF TInv, LocInv, Located
<1>2. op_idx[w] # 0 =>
        /\ CurOp(w).asset \in Asset
        /\ CurOp(w).amount \in Int
        /\ CurOp(w).amount > 0
  <2>1. op_idx[w] # 0 => op_idx[w] \in 1 .. Len(Cur(w).operations)
    BY <1>1
  <2> QED
    BY <2>1, CurType DEF TInv, LocInv, Located
<1>3. ChargeSlot(w) \in Slot
  BY <1>1, <1>2, ConstantAssumption DEF ChargeSlot, Slot
<1>4. ChargeAmount(w) \in Int /\ ChargeAmount(w) > 0
  <2>1. fee_required(cur_tx[w]) \in Int /\ fee_required(cur_tx[w]) > 0
    BY <1>1, TxType
  <2> QED
    BY <1>2, <2>1 DEF ChargeAmount
<1>5. available_buffer[w][ChargeSlot(w)] \in Int
  BY <1>3 DEF TInv, TypeOK
<1>6. available[ChargeSlot(w)] \in Int
  BY <1>3 DEF TInv, TypeOK
<1> QED
  BY <1>3, <1>4, <1>5, <1>6, SMTT(30) DEF Shortfall

\* A worker's location depends on its own variables only.
LEMMA LocatedFrame ==
  ASSUME NEW v \in Worker, Located(v),
         pc'[v] = pc[v], cur_tx'[v] = cur_tx[v], op_idx'[v] = op_idx[v],
         loaded'[v] = loaded[v], available_buffer'[v] = available_buffer[v]
  PROVE  Located(v)'
BY DEF Located, Cur, CurOp, Source, Shortfall, ChargeSlot, ChargeAmount

\* Moving on to the next operation.
LEMMA AdvanceType ==
  ASSUME TInv, NEW w \in Worker, Advance(w), cur_tx' = cur_tx,
         cur_tx[w] \in TxId, op_idx[w] \in 0 .. Len(Cur(w).operations)
  PROVE  /\ pc' \in [Worker -> PC]
         /\ op_idx' \in [Worker -> Int]
         /\ Located(w)'
<1>1. /\ pc' \in [Worker -> PC]
      /\ op_idx' \in [Worker -> Int]
      /\ op_idx'[w] = op_idx[w] + 1
      /\ pc'[w] = IF op_idx[w] = Len(Cur(w).operations) THEN "commit" ELSE "op"
  BY DEF TInv, TypeOK, Advance, PC
<1>2. Len(Cur(w).operations) \in Nat
  BY TxType DEF Cur
<1>3. CASE op_idx[w] = Len(Cur(w).operations)
  BY <1>1, <1>3 DEF Located
<1>4. CASE op_idx[w] # Len(Cur(w).operations)
  <2>1. pc'[w] = "op" /\ op_idx'[w] \in 1 .. Len(Cur(w).operations)
    BY <1>1, <1>2, <1>4
  <2> QED
    BY <1>1, <2>1 DEF Located, Cur
<1> QED
  BY <1>1, <1>3, <1>4

\* Giving up the current operation.
LEMMA FailType ==
  ASSUME TInv, NEW w \in Worker, NEW s \in Statuses, Fail(w, s),
         cur_tx' = cur_tx, cur_tx[w] \in TxId,
         op_idx[w] \in 0 .. Len(Cur(w).operations)
  PROVE  /\ pc' \in [Worker -> PC]
         /\ op_idx' \in [Worker -> Int]
         /\ result' \in [Worker -> Statuses]
         /\ Located(w)'
<1>1. /\ pc' \in [Worker -> PC]
      /\ op_idx' \in [Worker -> Int]
      /\ result' \in [Worker -> Statuses]
      /\ op_idx'[w] = op_idx[w] - 1
      /\ pc'[w] = IF op_idx[w] <= 1 THEN "unwind" ELSE "unwind_ops"
  BY DEF TInv, TypeOK, Fail, PC
<1>2. Len(Cur(w).operations) \in Nat
  BY TxType DEF Cur
<1>3. CASE op_idx[w] <= 1
  BY <1>1, <1>3 DEF Located
<1>4. CASE ~(op_idx[w] <= 1)
  <2>1. pc'[w] = "unwind_ops" /\ op_idx'[w] \in 1 .. Len(Cur(w).operations)
    BY <1>1, <1>2, <1>4
  <2> QED
    BY <1>1, <2>1 DEF Located, Cur
<1> QED
  BY <1>1, <1>3, <1>4

\* What follows a successful withdrawal.
LEMMA SettleType ==
  ASSUME TInv, NEW w \in Worker, pc[w] \in {"charge", "cas"},
         NEW b \in Int, Settle(w, b), cur_tx' = cur_tx
  PROVE  /\ pc' \in [Worker -> PC]
         /\ op_idx' \in [Worker -> Int]
         /\ result' \in [Worker -> Statuses]
         /\ available_buffer' \in [Worker -> [Slot -> Int]]
         /\ new_balance' \in [Worker -> [Slot -> Int]]
         /\ Located(w)'
<1>1. /\ cur_tx[w] \in TxId
      /\ op_idx[w] \in 0 .. Len(Cur(w).operations)
      /\ ChargeSlot(w) \in Slot
  BY CurType, ChargeType DEF TInv, LocInv, Located
<1>2. op_idx[w] # 0 =>
        /\ CurOp(w).type \in {"CREATE_ACCOUNT", "CREATE_SELL_OFFER", "PAYMENT"}
        /\ CurOp(w).amount \in Int
        /\ <<CurOp(w).account, CurOp(w).asset>> \in Slot
        /\ <<CurOp(w).account, NATIVE_ASSET>> \in Slot
  <2>1. op_idx[w] # 0 => op_idx[w] \in 1 .. Len(Cur(w).operations)
    BY <1>1, CurType
  <2> QED
    BY <2>1, CurType, ConstantAssumption DEF TInv, LocInv, Located, Slot
<1> DEFINE buf == [available_buffer[w] EXCEPT ![ChargeSlot(w)] = b]
<1>3. buf \in [Slot -> Int]
  BY <1>1 DEF TInv, TypeOK
<1>4. "INVALID_AMOUNT" \in Statuses
  BY DEF Statuses
<1> HIDE DEF buf
<1>5. [available_buffer EXCEPT ![w] = buf] \in [Worker -> [Slot -> Int]]
  BY <1>3 DEF TInv, TypeOK
<1>6. CASE op_idx[w] = 0 \/ CurOp(w).type = "CREATE_SELL_OFFER"
  <2>1. /\ available_buffer' = [available_buffer EXCEPT ![w] = buf]
        /\ UNCHANGED <<new_balance, result>>
        /\ Advance(w)
    BY <1>2, <1>6 DEF Settle, buf
  <2> QED
    BY <2>1, <1>1, <1>5, AdvanceType DEF TInv, TypeOK
<1>7. CASE op_idx[w] # 0 /\ CurOp(w).type = "CREATE_ACCOUNT"
  <2>1. available_buffer' = [available_buffer EXCEPT ![w] = buf]
    BY <1>7 DEF Settle, buf
  <2>2. CASE is_valid_amount(CurOp(w).amount)
    <3>1. /\ new_balance' = [new_balance EXCEPT
                ![w][<<CurOp(w).account, NATIVE_ASSET>>] = @ + CurOp(w).amount]
          /\ UNCHANGED result
          /\ Advance(w)
      BY <1>7, <2>2 DEF Settle
    <3>2. new_balance' \in [Worker -> [Slot -> Int]]
      BY <1>2, <1>7, <3>1 DEF TInv, TypeOK
    <3> QED
      BY <2>1, <3>1, <3>2, <1>1, <1>5, AdvanceType DEF TInv, TypeOK
  <2>3. CASE ~is_valid_amount(CurOp(w).amount)
    <3>1. UNCHANGED new_balance /\ Fail(w, "INVALID_AMOUNT")
      BY <1>7, <2>3 DEF Settle
    <3> QED
      BY <2>1, <3>1, <1>1, <1>4, <1>5, FailType DEF TInv, TypeOK
  <2> QED
    BY <2>2, <2>3
<1>8. CASE op_idx[w] # 0 /\ CurOp(w).type = "PAYMENT"
  <2>1. UNCHANGED result /\ Advance(w)
    BY <1>8 DEF Settle
  <2>2. CASE CurOp(w).account \in new_accounts[w]
    <3>1. /\ available_buffer' = [available_buffer EXCEPT ![w] = buf]
          /\ new_balance' = [new_balance EXCEPT
                ![w][<<CurOp(w).account, CurOp(w).asset>>] = @ + CurOp(w).amount]
      BY <1>8, <2>2 DEF Settle, buf
    <3>2. new_balance' \in [Worker -> [Slot -> Int]]
      BY <1>2, <1>8, <3>1 DEF TInv, TypeOK
    <3> QED
      BY <2>1, <3>1, <3>2, <1>1, <1>5, AdvanceType DEF TInv, TypeOK
  <2>3. CASE CurOp(w).account \notin new_accounts[w]
    <3>1. /\ available_buffer' = [available_buffer EXCEPT ![w] =
                [buf EXCEPT ![<<CurOp(w).account, CurOp(w).asset>>]
                    = @ + CurOp(w).amount]]
          /\ UNCHANGED new_balance
      BY <1>8, <2>3 DEF Settle, buf
    <3>2. [buf EXCEPT ![<<CurOp(w).account, CurOp(w).asset>>]
                    = @ + CurOp(w).amount] \in [Slot -> Int]
      BY <1>2, <1>3, <1>8
    <3>3. available_buffer' \in [Worker -> [Slot -> Int]]
      BY <3>1, <3>2 DEF TInv, TypeOK
    <3> QED
      BY <2>1, <3>1, <3>3, <1>1, AdvanceType DEF TInv, TypeOK
  <2> QED
    BY <2>2, <2>3
<1> QED
  BY <1>2, <1>6, <1>7, <1>8

\* Returning from process_transaction.
LEMMA ReturnType ==
  ASSUME TInv, NEW w \in Worker, NEW s \in Statuses, cur_tx[w] \in TxId,
         Return(w, s)
  PROVE  /\ status' \in [TxId -> Statuses \cup {"ABSENT", "QUEUED", "RUNNING"}]
         /\ cur_tx' \in [Worker -> TxId \cup {NoTx}]
         /\ pc' \in [Worker -> PC]
         /\ op_idx' \in [Worker -> Int]
         /\ loaded' \in [Worker -> Int]
         /\ available_buffer' \in [Worker -> [Slot -> Int]]
         /\ available_side_effects' \in [Worker -> [Slot -> Int]]
         /\ new_accounts' \in [Worker -> SUBSET Account]
         /\ new_balance' \in [Worker -> [Slot -> Int]]
         /\ result' \in [Worker -> Statuses]
         /\ Located(w)'
<1>1. NoAmounts \in [Slot -> Int]
  BY DEF NoAmounts
<1>2. /\ status' \in [TxId -> Statuses \cup {"ABSENT", "QUEUED", "RUNNING"}]
      /\ cur_tx' \in [Worker -> TxId \cup {NoTx}]
      /\ pc' \in [Worker -> PC]
      /\ pc'[w] = "idle"
  BY DEF Return, TInv, TypeOK, PC
<1>3. /\ op_idx' \in [Worker -> Int] /\ op_idx'[w] = 0
      /\ loaded' \in [Worker -> Int]
      /\ result' \in [Worker -> Statuses]
      /\ new_accounts' \in [Worker -> SUBSET Account]
  BY DEF Return, TInv, TypeOK, Statuses
<1>4. /\ available_buffer' \in [Worker -> [Slot -> Int]]
      /\ available_side_effects' \in [Worker -> [Slot -> Int]]
      /\ new_balance' \in [Worker -> [Slot -> Int]]
  BY <1>1 DEF Return, TInv, TypeOK
<1>5. Located(w)'
  BY <1>2, <1>3 DEF Located
<1> QED
  BY <1>2, <1>3, <1>4, <1>5

\* The statuses computed by the checks are statuses of the enumeration.
LEMMA StatusTypes ==
  /\ \A t \in TxId : EarlyStatus(t) \in Statuses /\ SeqStatus(t) \in Statuses
  /\ \A w \in Worker : /\ CreateAccountStatus(w) \in Statuses
                       /\ SellOfferStatus(w) \in Statuses
                       /\ PaymentStatus(w) \in Statuses
BY DEF EarlyStatus, SeqStatus, CreateAccountStatus, SellOfferStatus,
       PaymentStatus, Statuses

\* Taking, refusing or reserving: the steps before the first withdrawal.
LEMMA TypeStart ==
  ASSUME TInv, NEW w \in Worker,
         \/ \E t \in TxId : StartTx(w, t) \/ RejectTx(w, t)
         \/ ReserveSeqNum(w) \/ SeqNumRefused(w)
  PROVE  TypeOK' /\ Located(w)'
<1>1. ASSUME NEW t \in TxId, StartTx(w, t) PROVE TypeOK' /\ Located(w)'
  <2>1. status' \in [TxId -> Statuses \cup {"ABSENT", "QUEUED", "RUNNING"}]
    BY <1>1 DEF StartTx, TInv, TypeOK
  <2>2. /\ cur_tx' \in [Worker -> TxId \cup {NoTx}]
        /\ pc' \in [Worker -> PC]
        /\ pc'[w] = "reserve" /\ cur_tx'[w] = t
    BY <1>1 DEF StartTx, TInv, TypeOK, PC
  <2>3. TypeOK'
    BY <1>1, <2>1, <2>2 DEF StartTx, TInv, TypeOK, balances, reservations, view
  <2>4. op_idx'[w] = 0
    BY <1>1 DEF StartTx, TInv, LocInv, Located
  <2> QED
    BY <2>2, <2>3, <2>4 DEF Located
<1>2. ASSUME NEW t \in TxId, RejectTx(w, t) PROVE TypeOK' /\ Located(w)'
  <2>1. status' \in [TxId -> Statuses \cup {"ABSENT", "QUEUED", "RUNNING"}]
    BY <1>2, StatusTypes DEF RejectTx, TInv, TypeOK
  <2>2. TypeOK'
    BY <1>2, <2>1 DEF RejectTx, TInv, TypeOK, balances, reservations, view
  <2>3. Located(w)'
    BY <1>2, LocatedFrame DEF RejectTx, TInv, LocInv, view
  <2> QED
    BY <2>2, <2>3
<1>3. CASE ReserveSeqNum(w)
  <2>1. pc[w] # "idle" /\ cur_tx[w] \in TxId /\ op_idx[w] = 0
    BY <1>3 DEF ReserveSeqNum, TInv, LocInv, Located
  <2>2. seq_num_offset(cur_tx[w]) \in Int /\ Source(w) \in Account
    BY <2>1, TxType, CurType
  <2>3. sequence_number_vec' \in [Account -> SUBSET Int]
    BY <1>3, <2>2 DEF ReserveSeqNum, TInv, TypeOK
  <2>4. pc' \in [Worker -> PC] /\ pc'[w] = "charge"
    BY <1>3 DEF ReserveSeqNum, TInv, TypeOK, PC
  <2>5. TypeOK'
    BY <1>3, <2>3, <2>4 DEF ReserveSeqNum, TInv, TypeOK, balances, driver, view
  <2>6. Len(Cur(w).operations) \in Nat
    BY <2>1, CurType
  <2>7. Located(w)'
    BY <1>3, <2>1, <2>4, <2>6 DEF ReserveSeqNum, Located, Cur, driver
  <2> QED
    BY <2>5, <2>7
<1>4. CASE SeqNumRefused(w)
  <2>1. cur_tx[w] \in TxId
    BY <1>4 DEF SeqNumRefused, TInv, LocInv, Located
  <2>2. Return(w, SeqStatus(cur_tx[w])) /\ SeqStatus(cur_tx[w]) \in Statuses
    BY <1>4, <2>1, StatusTypes DEF SeqNumRefused
  <2> QED
    BY <1>4, <2>1, <2>2, ReturnType
    DEF SeqNumRefused, TInv, TypeOK, balances, reservations
<1> QED
  BY <1>1, <1>2, <1>3, <1>4

\* Taking an offer out of a worker's trie.
LEMMA OffersWithout ==
  ASSUME new_offers \in [Worker -> SUBSET Offer], NEW w \in Worker, NEW o
  PROVE  [new_offers EXCEPT ![w] = @ \ {o}] \in [Worker -> SUBSET Offer]
OBVIOUS

\* The steps of a withdrawal.
LEMMA TypeCharge ==
  ASSUME TInv, NEW w \in Worker,
         \/ ChargeFromBuffer(w) \/ LoadAvailable(w) \/ InsufficientBalance(w)
         \/ CasAvailable(w) \/ CasRetry(w)
  PROVE  TypeOK' /\ Located(w)'
<1>1. /\ pc[w] \in {"charge", "cas"}
      /\ cur_tx[w] \in TxId
      /\ op_idx[w] \in 0 .. Len(Cur(w).operations)
      /\ Located(w)
  BY DEF ChargeFromBuffer, LoadAvailable, InsufficientBalance, CasAvailable,
         CasRetry, TInv, LocInv, Located
<1>2. /\ ChargeSlot(w) \in Slot
      /\ Shortfall(w) \in Int
      /\ available[ChargeSlot(w)] \in Int
  BY <1>1, ChargeType
<1>3. loaded[w] \in Int
  BY DEF TInv, TypeOK
<1>4. CASE ChargeFromBuffer(w)
  <2>1. Settle(w, - Shortfall(w)) /\ - Shortfall(w) \in Int /\ cur_tx' = cur_tx
    BY <1>2, <1>4 DEF ChargeFromBuffer, driver
  <2> QED
    BY <1>1, <1>4, <2>1, SettleType
    DEF ChargeFromBuffer, TInv, TypeOK, balances, reservations, driver
<1>5. CASE LoadAvailable(w)
  <2>1. /\ loaded' \in [Worker -> Int]
        /\ loaded'[w] = available[ChargeSlot(w)]
        /\ pc' \in [Worker -> PC]
        /\ pc'[w] = "cas"
    BY <1>2, <1>5 DEF LoadAvailable, TInv, TypeOK, PC
  <2>2. TypeOK'
    BY <1>5, <2>1 DEF LoadAvailable, TInv, TypeOK, balances, reservations,
                      driver, view
  <2>3. /\ cur_tx'[w] = cur_tx[w] /\ op_idx'[w] = op_idx[w]
        /\ available_buffer'[w] = available_buffer[w]
        /\ Shortfall(w) > 0 /\ available[ChargeSlot(w)] >= Shortfall(w)
    BY <1>5 DEF LoadAvailable, driver, view
  <2>4. Cur(w)' = Cur(w) /\ CurOp(w)' = CurOp(w) /\ Shortfall(w)' = Shortfall(w)
    BY <2>3 DEF Cur, CurOp, Source, Shortfall, ChargeSlot, ChargeAmount
  <2>5. Located(w)'
    BY <1>1, <1>2, <2>1, <2>3, <2>4 DEF Located
  <2> QED
    BY <2>2, <2>5
<1>6. CASE InsufficientBalance(w)
  <2>1. Fail(w, "INSUFFICIENT_BALANCE") /\ cur_tx' = cur_tx
    BY <1>6 DEF InsufficientBalance, driver
  <2>2. new_offers' \in [Worker -> SUBSET Offer]
    <3>1. new_offers \in [Worker -> SUBSET Offer] /\ DropCurrentOffer(w)
      BY <1>6 DEF InsufficientBalance, TInv, TypeOK
    <3> QED
      BY <3>1, OffersWithout DEF DropCurrentOffer
  <2>3. "INSUFFICIENT_BALANCE" \in Statuses
    BY DEF Statuses
  <2> QED
    BY <1>1, <1>6, <2>1, <2>2, <2>3, FailType
    DEF InsufficientBalance, TInv, TypeOK, balances, reservations, driver, view
<1>7. CASE CasAvailable(w)
  <2>1. Settle(w, 0) /\ cur_tx' = cur_tx
    BY <1>7 DEF CasAvailable, driver
  <2>2. available' \in [Slot -> Int]
    BY <1>2, <1>3, <1>7 DEF CasAvailable, TInv, TypeOK
  <2>3. available_side_effects' \in [Worker -> [Slot -> Int]]
    BY <1>2, <1>7 DEF CasAvailable, TInv, TypeOK
  <2>4. loaded' \in [Worker -> Int]
    BY <1>7 DEF CasAvailable, TInv, TypeOK
  <2> QED
    BY <1>1, <1>7, <2>1, <2>2, <2>3, <2>4, SettleType
    DEF CasAvailable, TInv, TypeOK, reservations, driver
<1>8. CASE CasRetry(w)
  <2>1. /\ loaded' \in [Worker -> Int]
        /\ pc' \in [Worker -> PC]
        /\ pc'[w] = "charge"
    BY <1>8 DEF CasRetry, TInv, TypeOK, PC
  <2>2. TypeOK'
    BY <1>8, <2>1 DEF CasRetry, TInv, TypeOK, balances, reservations, driver, view
  <2>3. cur_tx'[w] = cur_tx[w] /\ op_idx'[w] = op_idx[w]
    BY <1>8 DEF CasRetry, driver
  <2>4. Cur(w)' = Cur(w) /\ CurOp(w)' = CurOp(w)
    BY <2>3 DEF Cur, CurOp
  <2>5. Located(w)'
    BY <1>1, <2>1, <2>3, <2>4 DEF Located
  <2> QED
    BY <2>2, <2>5
<1> QED
  BY <1>4, <1>5, <1>6, <1>7, <1>8

\* An operation that is refused.
LEMMA TypeRefused ==
  ASSUME TInv, NEW w \in Worker, pc[w] = "op", NEW s \in Statuses,
         OpRefused(w, s)
  PROVE  TypeOK' /\ Located(w)'
<1>1. cur_tx[w] \in TxId /\ op_idx[w] \in 1 .. Len(Cur(w).operations)
  BY DEF TInv, LocInv, Located
<1>2. op_idx[w] \in 0 .. Len(Cur(w).operations)
  BY <1>1, CurType
<1>3. Fail(w, s) /\ cur_tx' = cur_tx
  BY DEF OpRefused, driver
<1> QED
  BY <1>1, <1>2, <1>3, FailType
  DEF OpRefused, TInv, TypeOK, balances, reservations, driver, view

\* An operation that goes on to withdraw a positive amount.
LEMMA LocatedCharge ==
  ASSUME TInv, NEW w \in Worker, pc[w] = "op", pc'[w] = "charge",
         cur_tx' = cur_tx, op_idx' = op_idx,
         CurOp(w).type \in {"CREATE_ACCOUNT", "CREATE_SELL_OFFER", "PAYMENT"},
         CurOp(w).amount > 0
  PROVE  Located(w)'
<1>1. cur_tx[w] \in TxId /\ op_idx[w] \in 1 .. Len(Cur(w).operations)
  BY DEF TInv, LocInv, Located
<1>2. op_idx[w] \in 0 .. Len(Cur(w).operations)
  BY <1>1, CurType
<1>3. Cur(w)' = Cur(w) /\ CurOp(w)' = CurOp(w)
  BY DEF Cur, CurOp
<1> QED
  BY <1>1, <1>2, <1>3 DEF Located

\* The operations.
LEMMA TypeOp ==
  ASSUME TInv, NEW w \in Worker,
         \/ OpCreateAccount(w) \/ OpCreateSellOffer(w) \/ OpCancelSellOffer(w)
         \/ OpPayment(w) \/ OpMoneyPrinter(w)
  PROVE  TypeOK' /\ Located(w)'
<1>1. /\ pc[w] = "op"
      /\ cur_tx[w] \in TxId
      /\ op_idx[w] \in 1 .. Len(Cur(w).operations)
  BY DEF OpCreateAccount, OpCreateSellOffer, OpCancelSellOffer, OpPayment,
         OpMoneyPrinter, TInv, LocInv, Located
<1>2. /\ op_idx[w] \in 0 .. Len(Cur(w).operations)
      /\ CurOp(w).account \in Account
      /\ CurOp(w).asset \in Asset
      /\ CurOp(w).amount \in Int
      /\ make_offer(cur_tx[w], op_idx[w]) \in Offer
      /\ <<Source(w), CurOp(w).asset>> \in Slot
  BY <1>1, CurType DEF Slot
<1>3. CASE OpCreateAccount(w)
  <2>1. CASE CreateAccountStatus(w) # "SUCCESS"
    BY <1>1, <1>3, <2>1, StatusTypes, TypeRefused DEF OpCreateAccount
  <2>2. CASE CreateAccountStatus(w) = "SUCCESS"
    <3>1. /\ reserved_account_ids' = reserved_account_ids \cup {CurOp(w).account}
          /\ new_accounts' = [new_accounts EXCEPT ![w] = @ \cup {CurOp(w).account}]
          /\ pc' = [pc EXCEPT ![w] = "charge"]
          /\ UNCHANGED <<balances, sequence_number_vec, uncommitted_db,
                         marked_for_deletion, driver, available_buffer,
                         available_side_effects, new_balance, op_idx, loaded,
                         result, new_offers, modified>>
      BY <1>3, <2>2 DEF OpCreateAccount
    <3>2. /\ reserved_account_ids' \subseteq Account
          /\ new_accounts' \in [Worker -> SUBSET Account]
      BY <1>2, <3>1 DEF TInv, TypeOK
    <3>3. pc' \in [Worker -> PC] /\ pc'[w] = "charge"
      BY <3>1 DEF TInv, TypeOK, PC
    <3>4. TypeOK'
      BY <3>1, <3>2, <3>3 DEF TInv, TypeOK, balances, driver
    <3>5. CurOp(w).amount > 0
      BY <1>2, <2>2, ConstantAssumption DEF CreateAccountStatus
    <3>6. CurOp(w).type = "CREATE_ACCOUNT"
      BY <1>3 DEF OpCreateAccount
    <3>7. Located(w)'
      BY <1>1, <3>1, <3>3, <3>5, <3>6, LocatedCharge DEF driver
    <3> QED
      BY <3>4, <3>7
  <2> QED
    BY <2>1, <2>2
<1>4. CASE OpCreateSellOffer(w)
  <2>1. CASE SellOfferStatus(w) # "SUCCESS"
    BY <1>1, <1>4, <2>1, StatusTypes, TypeRefused DEF OpCreateSellOffer
  <2>2. CASE SellOfferStatus(w) = "SUCCESS"
    <3>1. /\ new_offers' = [new_offers EXCEPT
                              ![w] = @ \cup {make_offer(cur_tx[w], op_idx[w])}]
          /\ pc' = [pc EXCEPT ![w] = "charge"]
          /\ UNCHANGED <<balances, reservations, driver, view, op_idx, loaded,
                         result, modified>>
      BY <1>4, <2>2 DEF OpCreateSellOffer
    <3>2. new_offers' \in [Worker -> SUBSET Offer]
      BY <1>2, <3>1 DEF TInv, TypeOK
    <3>3. pc' \in [Worker -> PC] /\ pc'[w] = "charge"
      BY <3>1 DEF TInv, TypeOK, PC
    <3>4. TypeOK'
      BY <3>1, <3>2, <3>3 DEF TInv, TypeOK, balances, reservations, driver, view
    <3>5. CurOp(w).amount > 0
      BY <2>2 DEF SellOfferStatus, is_valid_amount
    <3>6. CurOp(w).type = "CREATE_SELL_OFFER"
      BY <1>4 DEF OpCreateSellOffer
    <3>7. Located(w)'
      BY <1>1, <3>1, <3>3, <3>5, <3>6, LocatedCharge DEF driver
    <3> QED
      BY <3>4, <3>7
  <2> QED
    BY <2>1, <2>2
<1>5. CASE OpCancelSellOffer(w)
  <2> DEFINE key == cancel_key(cur_tx[w], op_idx[w])
  <2>1. CASE ~Cancellable(key, CurOp(w).asset)
    <3>1. "CANCEL_OFFER_TARGET_NEXIST" \in Statuses
      BY DEF Statuses
    <3> QED
      BY <1>1, <1>5, <2>1, <3>1, TypeRefused DEF OpCancelSellOffer
  <2>2. CASE Cancellable(key, CurOp(w).asset)
    <3>1. /\ marked_for_deletion' = marked_for_deletion \cup {key}
          /\ available_buffer' = [available_buffer EXCEPT
               ![w][<<Source(w), CurOp(w).asset>>] = @ + RestingOffer[key].amount]
          /\ Advance(w)
          /\ UNCHANGED <<balances, sequence_number_vec, reserved_account_ids,
                         uncommitted_db, driver, available_side_effects,
                         new_accounts, new_balance, loaded, result,
                         new_offers, modified>>
      BY <1>5, <2>2 DEF OpCancelSellOffer
    <3>2. key \in DOMAIN RestingOffer
      BY <2>2 DEF Cancellable
    <3>3. RestingOffer[key].amount \in Int
      BY <3>2, ConstantAssumption DEF Offer
    <3>4. marked_for_deletion' \subseteq DOMAIN RestingOffer
      BY <3>1, <3>2 DEF TInv, TypeOK
    <3>5. available_buffer' \in [Worker -> [Slot -> Int]]
      BY <1>2, <3>1, <3>3 DEF TInv, TypeOK
    <3>6. cur_tx' = cur_tx
      BY <3>1 DEF driver
    <3> QED
      BY <1>1, <1>2, <3>1, <3>4, <3>5, <3>6, AdvanceType
      DEF TInv, TypeOK, balances, driver
  <2> QED
    BY <2>1, <2>2
<1>6. CASE OpPayment(w)
  <2>1. CASE PaymentStatus(w) # "SUCCESS"
    BY <1>1, <1>6, <2>1, StatusTypes, TypeRefused DEF OpPayment
  <2>2. CASE PaymentStatus(w) = "SUCCESS"
    <3>1. /\ pc' = [pc EXCEPT ![w] = "charge"]
          /\ UNCHANGED <<balances, reservations, driver, view, op_idx, loaded,
                         result, new_offers, modified>>
      BY <1>6, <2>2 DEF OpPayment
    <3>2. pc' \in [Worker -> PC] /\ pc'[w] = "charge"
      BY <3>1 DEF TInv, TypeOK, PC
    <3>3. TypeOK'
      BY <3>1, <3>2 DEF TInv, TypeOK, balances, reservations, driver, view
    <3>4. CurOp(w).amount > 0
      BY <2>2 DEF PaymentStatus, is_valid_amount
    <3>5. CurOp(w).type = "PAYMENT"
      BY <1>6 DEF OpPayment
    <3>6. Located(w)'
      BY <1>1, <3>1, <3>2, <3>4, <3>5, LocatedCharge DEF driver
    <3> QED
      BY <3>3, <3>6
  <2> QED
    BY <2>1, <2>2
<1>7. CASE OpMoneyPrinter(w)
  <2>1. CASE CurOp(w).amount < 0
    <3>1. "INVALID_PRINT_MONEY_AMOUNT" \in Statuses
      BY DEF Statuses
    <3>2. OpRefused(w, "INVALID_PRINT_MONEY_AMOUNT")
      BY <1>2, <1>7, <2>1 DEF OpMoneyPrinter
    <3> QED
      BY <1>1, <3>1, <3>2, TypeRefused
  <2>2. CASE ~(CurOp(w).amount < 0)
    <3>1. /\ available_buffer' = [available_buffer EXCEPT
               ![w][<<Source(w), CurOp(w).asset>>] = @ + CurOp(w).amount]
          /\ Advance(w)
          /\ UNCHANGED <<balances, reservations, driver, available_side_effects,
                         new_accounts, new_balance, loaded, result, new_offers,
                         modified>>
      BY <1>7, <2>2 DEF OpMoneyPrinter
    <3>2. available_buffer' \in [Worker -> [Slot -> Int]]
      BY <1>2, <3>1 DEF TInv, TypeOK
    <3>3. cur_tx' = cur_tx
      BY <3>1 DEF driver
    <3> QED
      BY <1>1, <1>2, <3>1, <3>2, <3>3, AdvanceType
      DEF TInv, TypeOK, balances, reservations, driver
  <2> QED
    BY <2>1, <2>2
<1> QED
  BY <1>3, <1>4, <1>5, <1>6, <1>7

\* Undoing a failed transaction.
LEMMA TypeUnwind ==
  ASSUME TInv, NEW w \in Worker,
         UnwindOp(w) \/ UnwindBalance(w) \/ ReleaseAccount(w) \/ ReleaseSeqNum(w)
  PROVE  TypeOK' /\ Located(w)'
<1>1. CASE UnwindOp(w)
  <2>1. /\ pc[w] = "unwind_ops"
        /\ cur_tx[w] \in TxId
        /\ op_idx[w] \in 1 .. Len(Cur(w).operations)
        /\ Len(Cur(w).operations) \in Nat
    BY <1>1, CurType DEF UnwindOp, TInv, LocInv, Located
  <2>2. marked_for_deletion' \subseteq DOMAIN RestingOffer
    BY <1>1 DEF UnwindOp, TInv, TypeOK
  <2>3. new_offers' \in [Worker -> SUBSET Offer]
    <3>1. new_offers \in [Worker -> SUBSET Offer]
      BY DEF TInv, TypeOK
    <3> QED
      BY <1>1, <3>1, OffersWithout DEF UnwindOp
  <2>4. /\ op_idx' \in [Worker -> Int]
        /\ op_idx'[w] = op_idx[w] - 1
        /\ pc' \in [Worker -> PC]
        /\ pc'[w] = IF op_idx[w] = 1 THEN "unwind" ELSE "unwind_ops"
    BY <1>1, <2>1 DEF UnwindOp, TInv, TypeOK, PC
  <2>5. TypeOK'
    BY <1>1, <2>2, <2>3, <2>4 DEF UnwindOp, TInv, TypeOK, balances, driver, view
  <2>6. cur_tx'[w] = cur_tx[w]
    BY <1>1 DEF UnwindOp, driver
  <2>7. op_idx[w] # 1 => op_idx'[w] \in 1 .. Len(Cur(w).operations)
    BY <2>1, <2>4
  <2>8. Located(w)'
    BY <2>1, <2>4, <2>6, <2>7 DEF Located, Cur
  <2> QED
    BY <2>5, <2>8
<1>2. CASE UnwindBalance(w)
  <2>1. PICK x \in Slot :
          /\ available' = [available EXCEPT ![x] = @ - available_side_effects[w][x]]
          /\ available_side_effects' = [available_side_effects EXCEPT ![w][x] = 0]
    BY <1>2 DEF UnwindBalance
  <2>2. available' \in [Slot -> Int]
    BY <2>1 DEF TInv, TypeOK
  <2>3. available_side_effects' \in [Worker -> [Slot -> Int]]
    BY <2>1 DEF TInv, TypeOK
  <2>4. TypeOK'
    BY <1>2, <2>2, <2>3 DEF UnwindBalance, TInv, TypeOK, reservations, driver
  <2>5. Located(w)'
    BY <1>2, LocatedFrame DEF UnwindBalance, TInv, LocInv, driver
  <2> QED
    BY <2>4, <2>5
<1>3. CASE ReleaseAccount(w)
  <2>1. /\ reserved_account_ids' \subseteq Account
        /\ new_accounts' \in [Worker -> SUBSET Account]
    BY <1>3 DEF ReleaseAccount, TInv, TypeOK
  <2>2. TypeOK'
    BY <1>3, <2>1 DEF ReleaseAccount, TInv, TypeOK, balances, driver
  <2>3. Located(w)'
    BY <1>3, LocatedFrame DEF ReleaseAccount, TInv, LocInv, driver
  <2> QED
    BY <2>2, <2>3
<1>4. CASE ReleaseSeqNum(w)
  <2>1. cur_tx[w] \in TxId /\ result[w] \in Statuses /\ Return(w, result[w])
    BY <1>4 DEF ReleaseSeqNum, TInv, TypeOK, LocInv, Located
  <2>2. sequence_number_vec' \in [Account -> SUBSET Int]
    BY <1>4 DEF ReleaseSeqNum, TInv, TypeOK
  <2> QED
    BY <1>4, <2>1, <2>2, ReturnType DEF ReleaseSeqNum, TInv, TypeOK, balances
<1> QED
  BY <1>1, <1>2, <1>3, <1>4

\* Publishing a successful transaction.
LEMMA TypeCommit ==
  ASSUME TInv, NEW w \in Worker,
         CommitBalance(w) \/ CommitAccount(w) \/ CommitDone(w)
  PROVE  TypeOK' /\ Located(w)'
<1>1. cur_tx[w] \in TxId
  BY DEF CommitBalance, CommitAccount, CommitDone, TInv, LocInv, Located
<1>2. CASE CommitBalance(w)
  <2>1. PICK x \in Slot :
          /\ available' = [available EXCEPT ![x] = @ + available_buffer[w][x]]
          /\ available_buffer' = [available_buffer EXCEPT ![w][x] = 0]
    BY <1>2 DEF CommitBalance
  <2>2. available' \in [Slot -> Int]
    BY <2>1 DEF TInv, TypeOK
  <2>3. available_buffer' \in [Worker -> [Slot -> Int]]
    BY <2>1 DEF TInv, TypeOK
  <2>4. TypeOK'
    BY <1>2, <2>2, <2>3 DEF CommitBalance, TInv, TypeOK, reservations, driver
  <2>5. pc'[w] = "commit" /\ cur_tx'[w] \in TxId
    BY <1>1, <1>2 DEF CommitBalance, driver
  <2>6. Located(w)'
    BY <2>5 DEF Located
  <2> QED
    BY <2>4, <2>6
<1>3. CASE CommitAccount(w)
  <2>1. PICK a \in new_accounts[w] :
          /\ uncommitted_db' = uncommitted_db \cup
                                 {NewEntry(a, cur_tx[w], new_balance[w])}
          /\ new_accounts' = [new_accounts EXCEPT ![w] = @ \ {a}]
    BY <1>3 DEF CommitAccount
  <2>2. a \in Account /\ new_balance[w] \in [Slot -> Int]
    BY <2>1 DEF TInv, TypeOK
  <2>3. NewEntry(a, cur_tx[w], new_balance[w])
          \in [id : Account, by : TxId, balance : [Asset -> Int]]
    BY <1>1, <2>2 DEF NewEntry, Slot
  <2>4. /\ uncommitted_db' \subseteq
             [id : Account, by : TxId, balance : [Asset -> Int]]
        /\ new_accounts' \in [Worker -> SUBSET Account]
    BY <2>1, <2>3 DEF TInv, TypeOK
  <2>5. TypeOK'
    BY <1>3, <2>4 DEF CommitAccount, TInv, TypeOK, balances, driver
  <2>6. Located(w)'
    BY <1>3, LocatedFrame DEF CommitAccount, TInv, LocInv, driver
  <2> QED
    BY <2>5, <2>6
<1>4. CASE CommitDone(w)
  <2>1. Return(w, "SUCCESS") /\ "SUCCESS" \in Statuses
    BY <1>4 DEF CommitDone, Statuses
  <2>2. LoggedAccounts(cur_tx[w]) \subseteq Account
    BY <1>1, TxType DEF LoggedAccounts
  <2>3. modified' \in [Worker -> SUBSET Account]
    BY <1>4, <2>2 DEF CommitDone, TInv, TypeOK
  <2> QED
    BY <1>1, <1>4, <2>1, <2>3, ReturnType
    DEF CommitDone, TInv, TypeOK, balances, reservations
<1> QED
  BY <1>2, <1>3, <1>4

\* A step of worker w leaves the other workers where they are.
LEMMA OthersStay ==
  ASSUME TInv, NEW w \in Worker, WorkerStep(w), NEW v \in Worker, v # w
  PROVE  /\ pc'[v] = pc[v] /\ cur_tx'[v] = cur_tx[v] /\ op_idx'[v] = op_idx[v]
         /\ loaded'[v] = loaded[v]
         /\ available_buffer'[v] = available_buffer[v]
         /\ available_side_effects'[v] = available_side_effects[v]
         /\ new_accounts'[v] = new_accounts[v]
         /\ new_balance'[v] = new_balance[v]
<1>0. /\ pc \in [Worker -> PC] /\ cur_tx \in [Worker -> TxId \cup {NoTx}]
      /\ op_idx \in [Worker -> Int] /\ loaded \in [Worker -> Int]
      /\ available_buffer \in [Worker -> [Slot -> Int]]
      /\ available_side_effects \in [Worker -> [Slot -> Int]]
      /\ new_accounts \in [Worker -> SUBSET Account]
      /\ new_balance \in [Worker -> [Slot -> Int]]
  BY DEF TInv, TypeOK
<1>1. CASE \E t \in TxId : StartTx(w, t) \/ RejectTx(w, t)
  BY <1>0, <1>1 DEF StartTx, RejectTx, view
<1>2. CASE ReserveSeqNum(w) \/ SeqNumRefused(w)
  BY <1>0, <1>2 DEF ReserveSeqNum, SeqNumRefused, Return, view, driver
<1>3. CASE ChargeFromBuffer(w) \/ CasAvailable(w)
  <2>1. \E b : Settle(w, b)
    BY <1>3 DEF ChargeFromBuffer, CasAvailable
  <2>2. /\ pc'[v] = pc[v] /\ op_idx'[v] = op_idx[v]
        /\ available_buffer'[v] = available_buffer[v]
        /\ new_balance'[v] = new_balance[v]
    <3>1. PICK b : Settle(w, b)
      BY <2>1
    <3>2. op_idx[w] # 0 =>
            CurOp(w).type \in {"CREATE_ACCOUNT", "CREATE_SELL_OFFER", "PAYMENT"}
      BY <1>3 DEF ChargeFromBuffer, CasAvailable, TInv, LocInv, Located
    <3> QED
      BY <1>0, <3>1, <3>2, ZenonT(40) DEF Settle, Advance, Fail
  <2> QED
    BY <1>0, <1>3, <2>2 DEF ChargeFromBuffer, CasAvailable, driver
<1>4. CASE LoadAvailable(w) \/ InsufficientBalance(w) \/ CasRetry(w)
  BY <1>0, <1>4 DEF LoadAvailable, InsufficientBalance, CasRetry, Fail, view, driver
<1>5. CASE OpCreateAccount(w) \/ OpCreateSellOffer(w) \/ OpPayment(w)
  BY <1>0, <1>5 DEF OpCreateAccount, OpCreateSellOffer, OpPayment, OpRefused,
                    Fail, view, driver
<1>6. CASE OpCancelSellOffer(w) \/ OpMoneyPrinter(w)
  BY <1>0, <1>6 DEF OpCancelSellOffer, OpMoneyPrinter, OpRefused, Advance, Fail,
                    view, driver
<1>7. CASE UnwindOp(w) \/ UnwindBalance(w) \/ ReleaseAccount(w) \/ ReleaseSeqNum(w)
  BY <1>0, <1>7 DEF UnwindOp, UnwindBalance, ReleaseAccount, ReleaseSeqNum,
                    Return, view, driver
<1>8. CASE CommitBalance(w) \/ CommitAccount(w) \/ CommitDone(w)
  BY <1>0, <1>8 DEF CommitBalance, CommitAccount, CommitDone, Return, driver
<1> QED
  BY <1>1, <1>2, <1>3, <1>4, <1>5, <1>6, <1>7, <1>8 DEF WorkerStep

LEMMA TypeInductive ==
  ASSUME TInv, [Next]_vars
  PROVE  TInv'
<1>1. CASE \E w \in Worker : WorkerStep(w)
  <2>1. PICK w \in Worker : WorkerStep(w)
    BY <1>1
  <2>2. TypeOK' /\ Located(w)'
    BY <2>1, TypeStart, TypeCharge, TypeOp, TypeUnwind, TypeCommit
    DEF WorkerStep
  <2>3. ASSUME NEW v \in Worker, v # w PROVE Located(v)'
    BY <2>1, <2>3, OthersStay, LocatedFrame DEF TInv, LocInv
  <2> QED
    BY <2>2, <2>3 DEF TInv, LocInv
<1>2. CASE FinishBuild
  <2>1. /\ new_offers' \in [Worker -> SUBSET Offer]
        /\ uncommitted_offers' \subseteq Offer
    BY <1>2 DEF FinishBuild, TInv, TypeOK
  <2>2. TypeOK'
    BY <1>2, <2>1 DEF FinishBuild, TInv, TypeOK, balances, reservations, view
  <2>3. ASSUME NEW v \in Worker PROVE Located(v)'
    BY <1>2, LocatedFrame DEF FinishBuild, TInv, LocInv, view
  <2> QED
    BY <2>2, <2>3 DEF TInv, LocInv
<1>3. CASE UNCHANGED vars
  <2>1. TypeOK'
    BY <1>3 DEF vars, TInv, TypeOK, balances, reservations, driver, view
  <2>2. ASSUME NEW v \in Worker PROVE Located(v)'
    BY <1>3, LocatedFrame DEF vars, TInv, LocInv, view, driver
  <2> QED
    BY <2>1, <2>2 DEF TInv, LocInv
<1> QED
  BY <1>1, <1>2, <1>3 DEF Next, Finished

LEMMA TypeInit == Init => TInv
<1> SUFFICES ASSUME Init PROVE TypeOK /\ LocInv
  BY DEF TInv
<1>1. NoAmounts \in [Slot -> Int]
  BY DEF NoAmounts
<1>2. available \in [Slot -> Int]
  BY ConstantAssumption DEF Init
<1>3. "SUCCESS" \in Statuses /\ "idle" \in PC
  BY DEF Statuses, PC
<1>4. status \in [TxId -> Statuses \cup {"ABSENT", "QUEUED", "RUNNING"}]
  BY DEF Init
<1>5. TypeOK
  BY <1>1, <1>2, <1>3, <1>4 DEF Init, TypeOK
<1>6. LocInv
  BY DEF Init, LocInv, Located
<1> QED
  BY <1>5, <1>6

\* Type correctness of block production, for every workload and every number
\* of worker threads.  Code: process_transaction and the views it works on.
THEOREM TypeCorrect == Spec => []TypeOK
<1>1. Spec => []TInv
  BY TypeInit, TypeInductive, PTL DEF Spec
<1> QED
  BY <1>1, PTL DEF TInv

(***************************************************************************)
(* No overdraft.  The amount that a worker loaded covers what it will      *)
(* subtract (Located), so a successful compare-and-swap leaves a           *)
(* non-negative balance; unwinding and committing only add.                *)
(***************************************************************************)
Solvent(w) ==
  \A x \in Slot : /\ available_buffer[w][x] >= 0
                  /\ available_side_effects[w][x] <= 0
                  /\ new_balance[w][x] >= 0

\* Adding to one slot keeps a table of amounts non-negative.
LEMMA CreditSlot ==
  ASSUME NEW g \in [Slot -> Int], NEW y \in Slot, NEW n \in Nat,
         \A x \in Slot : g[x] >= 0
  PROVE  \A x \in Slot : [g EXCEPT ![y] = @ + n][x] >= 0
OBVIOUS

LEMMA CreditWorker ==
  ASSUME NEW f \in [Worker -> [Slot -> Int]], NEW w \in Worker,
         NEW y \in Slot, NEW n \in Nat, \A x \in Slot : f[w][x] >= 0
  PROVE  \A x \in Slot : [f EXCEPT ![w][y] = @ + n][w][x] >= 0
<1>1. [f EXCEPT ![w][y] = @ + n][w] = [f[w] EXCEPT ![y] = @ + n]
  OBVIOUS
<1>2. f[w] \in [Slot -> Int]
  OBVIOUS
<1> QED
  BY <1>1, <1>2, CreditSlot

LEMMA SettleSolvent ==
  ASSUME TInv, NEW w \in Worker, pc[w] \in {"charge", "cas"}, Solvent(w),
         NEW b \in Nat, Settle(w, b)
  PROVE  \A x \in Slot : available_buffer'[w][x] >= 0 /\ new_balance'[w][x] >= 0
<1>1. /\ ChargeSlot(w) \in Slot
      /\ available_buffer \in [Worker -> [Slot -> Int]]
      /\ new_balance \in [Worker -> [Slot -> Int]]
      /\ op_idx[w] \in 0 .. Len(Cur(w).operations)
  BY ChargeType DEF TInv, TypeOK, LocInv, Located
<1>2. op_idx[w] # 0 =>
        /\ CurOp(w).type \in {"CREATE_ACCOUNT", "CREATE_SELL_OFFER", "PAYMENT"}
        /\ CurOp(w).amount \in Nat
        /\ <<CurOp(w).account, CurOp(w).asset>> \in Slot
        /\ <<CurOp(w).account, NATIVE_ASSET>> \in Slot
  <2>1. op_idx[w] # 0 => op_idx[w] \in 1 .. Len(Cur(w).operations)
    BY <1>1, CurType
  <2> QED
    BY <2>1, CurType, ConstantAssumption DEF TInv, LocInv, Located, Slot
<1> DEFINE buf == [available_buffer[w] EXCEPT ![ChargeSlot(w)] = b]
<1>3. buf \in [Slot -> Int] /\ \A x \in Slot : buf[x] >= 0
  BY <1>1 DEF Solvent
<1> HIDE DEF buf
<1>4. CASE op_idx[w] = 0 \/ CurOp(w).type = "CREATE_SELL_OFFER"
  <2>1. /\ available_buffer' = [available_buffer EXCEPT ![w] = buf]
        /\ new_balance' = new_balance
    BY <1>2, <1>4 DEF Settle, buf
  <2> QED
    BY <1>1, <1>3, <2>1 DEF Solvent
<1>5. CASE op_idx[w] # 0 /\ CurOp(w).type = "CREATE_ACCOUNT"
  <2>1. /\ available_buffer' = [available_buffer EXCEPT ![w] = buf]
        /\ \/ new_balance' = new_balance
           \/ new_balance' = [new_balance EXCEPT
                ![w][<<CurOp(w).account, NATIVE_ASSET>>] = @ + CurOp(w).amount]
    BY <1>5 DEF Settle, buf
  <2>2. \A x \in Slot : available_buffer'[w][x] >= 0
    BY <1>1, <1>3, <2>1
  <2>3. \A x \in Slot : new_balance'[w][x] >= 0
    <3> DEFINE y == <<CurOp(w).account, NATIVE_ASSET>>
    <3>1. y \in Slot /\ CurOp(w).amount \in Nat
      BY <1>2, <1>5
    <3>2. \A x \in Slot : new_balance[w][x] >= 0
      BY DEF Solvent
    <3>3. CASE new_balance' = new_balance
      BY <3>2, <3>3
    <3>4. CASE new_balance' = [new_balance EXCEPT ![w][y] = @ + CurOp(w).amount]
      <4>1. \A x \in Slot :
              [new_balance EXCEPT ![w][y] = @ + CurOp(w).amount][w][x] >= 0
        <5> HIDE DEF y
        <5> QED
          BY <1>1, <3>1, <3>2, CreditWorker, Zenon
      <4> QED
        BY <3>4, <4>1, Zenon
    <3> QED
      BY <2>1, <3>3, <3>4
  <2> QED
    BY <2>2, <2>3
<1>6. CASE op_idx[w] # 0 /\ CurOp(w).type = "PAYMENT"
  <2> DEFINE y == <<CurOp(w).account, CurOp(w).asset>>
  <2>1. \/ /\ available_buffer' = [available_buffer EXCEPT ![w] = buf]
           /\ new_balance' = [new_balance EXCEPT ![w][y] = @ + CurOp(w).amount]
        \/ /\ available_buffer' = [available_buffer EXCEPT ![w] =
                                     [buf EXCEPT ![y] = @ + CurOp(w).amount]]
           /\ new_balance' = new_balance
    BY <1>6 DEF Settle, buf
  <2>2. y \in Slot /\ CurOp(w).amount \in Nat
    BY <1>2, <1>6
  <2> HIDE DEF y
  <2>3. \A x \in Slot : available_buffer'[w][x] >= 0
    <3>1. \A x \in Slot : [buf EXCEPT ![y] = @ + CurOp(w).amount][x] >= 0
      BY <1>3, <2>2, CreditSlot
    <3>2. \/ available_buffer'[w] = buf
          \/ available_buffer'[w] = [buf EXCEPT ![y] = @ + CurOp(w).amount]
      BY <1>1, <2>1
    <3> QED
      BY <1>3, <3>1, <3>2
  <2>4. \A x \in Slot : new_balance'[w][x] >= 0
    <3>1. \A x \in Slot : new_balance[w][x] >= 0
      BY DEF Solvent
    <3>2. \A x \in Slot :
            [new_balance EXCEPT ![w][y] = @ + CurOp(w).amount][w][x] >= 0
      BY <1>1, <2>2, <3>1, CreditWorker, Zenon
    <3> QED
      BY <2>1, <3>1, <3>2, Zenon
  <2> QED
    BY <2>3, <2>4
<1> QED
  BY <1>2, <1>4, <1>5, <1>6

\* No step of a worker overdraws a shared balance or its own view.
LEMMA SolventStep ==
  ASSUME TInv, NoOverdraft, NEW w \in Worker, WorkerStep(w)
  PROVE  (\A x \in Slot : available'[x] >= 0) /\ Solvent(w)'
<1>1. /\ available \in [Slot -> Int]
      /\ available_buffer \in [Worker -> [Slot -> Int]]
      /\ available_side_effects \in [Worker -> [Slot -> Int]]
      /\ new_balance \in [Worker -> [Slot -> Int]]
      /\ \A x \in Slot : available[x] >= 0
      /\ Solvent(w)
  BY DEF TInv, TypeOK, NoOverdraft, Solvent
<1>2. ASSUME UNCHANGED <<available, available_buffer, available_side_effects,
                         new_balance>>
      PROVE  (\A x \in Slot : available'[x] >= 0) /\ Solvent(w)'
  BY <1>1, <1>2 DEF Solvent
<1>3. CASE \/ \E t \in TxId : StartTx(w, t) \/ RejectTx(w, t)
           \/ ReserveSeqNum(w) \/ LoadAvailable(w) \/ InsufficientBalance(w)
           \/ CasRetry(w)
  <2>1. UNCHANGED <<available, view>>
    BY <1>3 DEF StartTx, RejectTx, ReserveSeqNum, LoadAvailable,
                InsufficientBalance, CasRetry, balances
  <2> QED
    BY <1>2, <2>1 DEF view
<1>4. CASE OpCreateAccount(w) \/ OpCreateSellOffer(w) \/ OpPayment(w)
  <2>1. UNCHANGED <<available, available_buffer, available_side_effects,
                    new_balance>>
    BY <1>4 DEF OpCreateAccount, OpCreateSellOffer, OpPayment, OpRefused,
                balances, view
  <2> QED
    BY <1>2, <2>1
<1>5. CASE UnwindOp(w) \/ ReleaseAccount(w) \/ CommitAccount(w)
  <2>1. UNCHANGED <<available, available_buffer, available_side_effects,
                    new_balance>>
    BY <1>5 DEF UnwindOp, ReleaseAccount, CommitAccount, balances, view
  <2> QED
    BY <1>2, <2>1
<1>6. CASE SeqNumRefused(w) \/ ReleaseSeqNum(w) \/ CommitDone(w)
  <2>1. /\ available' = available
        /\ available_buffer'[w] = NoAmounts
        /\ available_side_effects'[w] = NoAmounts
        /\ new_balance'[w] = NoAmounts
    BY <1>1, <1>6 DEF SeqNumRefused, ReleaseSeqNum, CommitDone, Return, balances
  <2>2. \A x \in Slot : NoAmounts[x] = 0
    BY DEF NoAmounts
  <2> QED
    BY <1>1, <2>1, <2>2 DEF Solvent
<1>7. CASE ChargeFromBuffer(w)
  <2>1. /\ pc[w] = "charge"
        /\ Shortfall(w) \in Int
        /\ Shortfall(w) <= 0
        /\ Settle(w, - Shortfall(w))
        /\ available' = available
        /\ available_side_effects' = available_side_effects
    BY <1>7, ChargeType DEF ChargeFromBuffer, balances
  <2>2. - Shortfall(w) \in Nat
    BY <2>1
  <2>3. \A x \in Slot : available_buffer'[w][x] >= 0 /\ new_balance'[w][x] >= 0
    BY <1>1, <2>1, <2>2, SettleSolvent
  <2> QED
    BY <1>1, <2>1, <2>3 DEF Solvent
<1>8. CASE CasAvailable(w)
  <2>1. /\ pc[w] = "cas"
        /\ Shortfall(w) \in Int
        /\ Shortfall(w) > 0
        /\ loaded[w] \in Int
        /\ loaded[w] >= Shortfall(w)
        /\ ChargeSlot(w) \in Slot
    BY <1>8, ChargeType DEF CasAvailable, TInv, TypeOK, LocInv, Located
  <2>2. /\ available' = [available EXCEPT ![ChargeSlot(w)] =
                           loaded[w] - Shortfall(w)]
        /\ available_side_effects' = [available_side_effects EXCEPT
             ![w][ChargeSlot(w)] = @ - Shortfall(w)]
        /\ Settle(w, 0)
    BY <1>8 DEF CasAvailable
  <2>3. \A x \in Slot : available'[x] >= 0
    BY <1>1, <2>1, <2>2
  <2>4. \A x \in Slot : available_buffer'[w][x] >= 0 /\ new_balance'[w][x] >= 0
    BY <1>1, <2>1, <2>2, SettleSolvent
  <2>5. \A x \in Slot : available_side_effects'[w][x] <= 0
    <3>1. available_side_effects'[w] =
            [available_side_effects[w] EXCEPT ![ChargeSlot(w)] = @ - Shortfall(w)]
      BY <1>1, <2>2
    <3>2. available_side_effects[w] \in [Slot -> Int]
      BY <1>1
    <3> QED
      BY <1>1, <2>1, <3>1, <3>2 DEF Solvent
  <2> QED
    BY <2>3, <2>4, <2>5 DEF Solvent
<1>9. CASE OpCancelSellOffer(w) \/ OpMoneyPrinter(w)
  <2>1. CASE UNCHANGED <<available, view>>
    BY <1>2, <2>1 DEF view
  <2>2. CASE ~ UNCHANGED <<available, view>>
    <3>1. pc[w] = "op" /\ op_idx[w] \in 1 .. Len(Cur(w).operations)
      BY <1>9 DEF OpCancelSellOffer, OpMoneyPrinter, TInv, LocInv, Located
    <3>2. /\ <<Source(w), CurOp(w).asset>> \in Slot
          /\ CurOp(w).amount \in Int
      BY <3>1, CurType DEF Slot
    <3>3. \E n \in Nat :
            available_buffer' = [available_buffer EXCEPT
              ![w][<<Source(w), CurOp(w).asset>>] = @ + n]
      <4>1. CASE OpCancelSellOffer(w)
        <5> DEFINE key == cancel_key(cur_tx[w], op_idx[w])
        <5>1. /\ Cancellable(key, CurOp(w).asset)
              /\ available_buffer' = [available_buffer EXCEPT
                   ![w][<<Source(w), CurOp(w).asset>>] = @ + RestingOffer[key].amount]
          BY <2>2, <4>1 DEF OpCancelSellOffer, OpRefused, balances
        <5>2. RestingOffer[key].amount \in Nat
          BY <5>1, ConstantAssumption DEF Cancellable, Offer
        <5> QED
          BY <5>1, <5>2
      <4>2. CASE OpMoneyPrinter(w)
        <5>1. /\ CurOp(w).amount >= 0
              /\ available_buffer' = [available_buffer EXCEPT
                   ![w][<<Source(w), CurOp(w).asset>>] = @ + CurOp(w).amount]
          BY <2>2, <4>2 DEF OpMoneyPrinter, OpRefused, balances
        <5>2. CurOp(w).amount \in Nat
          BY <3>2, <5>1
        <5> QED
          BY <5>1, <5>2
      <4> QED
        BY <1>9, <4>1, <4>2
    <3>4. UNCHANGED <<available, available_side_effects, new_balance>>
      BY <1>9 DEF OpCancelSellOffer, OpMoneyPrinter, OpRefused, balances, view
    <3>5. \A x \in Slot : available_buffer'[w][x] >= 0
      BY <1>1, <3>2, <3>3, CreditWorker, Zenon DEF Solvent
    <3> QED
      BY <1>1, <3>4, <3>5 DEF Solvent
  <2> QED
    BY <2>1, <2>2
<1>10. CASE UnwindBalance(w)
  <2>1. PICK y \in Slot :
          /\ available' = [available EXCEPT ![y] = @ - available_side_effects[w][y]]
          /\ available_side_effects' = [available_side_effects EXCEPT ![w][y] = 0]
    BY <1>10 DEF UnwindBalance
  <2>2. /\ available_side_effects[w][y] \in Int
        /\ available_side_effects[w][y] <= 0
    BY <1>1 DEF Solvent
  <2>3. \A x \in Slot : available'[x] >= 0
    BY <1>1, <2>1, <2>2
  <2>4. available_side_effects'[w] = [available_side_effects[w] EXCEPT ![y] = 0]
    BY <1>1, <2>1
  <2>5. \A x \in Slot : available_side_effects'[w][x] <= 0
    BY <1>1, <2>4 DEF Solvent
  <2>6. UNCHANGED <<available_buffer, new_balance>>
    BY <1>10 DEF UnwindBalance
  <2> QED
    BY <1>1, <2>3, <2>5, <2>6 DEF Solvent
<1>11. CASE CommitBalance(w)
  <2>1. PICK y \in Slot :
          /\ available' = [available EXCEPT ![y] = @ + available_buffer[w][y]]
          /\ available_buffer' = [available_buffer EXCEPT ![w][y] = 0]
    BY <1>11 DEF CommitBalance
  <2>2. available_buffer[w][y] \in Int /\ available_buffer[w][y] >= 0
    BY <1>1 DEF Solvent
  <2>3. \A x \in Slot : available'[x] >= 0
    BY <1>1, <2>1, <2>2
  <2>4. available_buffer'[w] = [available_buffer[w] EXCEPT ![y] = 0]
    BY <1>1, <2>1
  <2>5. \A x \in Slot : available_buffer'[w][x] >= 0
    BY <1>1, <2>4 DEF Solvent
  <2>6. UNCHANGED <<available_side_effects, new_balance>>
    BY <1>11 DEF CommitBalance
  <2> QED
    BY <1>1, <2>3, <2>5, <2>6 DEF Solvent
<1> QED
  BY <1>3, <1>4, <1>5, <1>6, <1>7, <1>8, <1>9, <1>10, <1>11 DEF WorkerStep

LEMMA SolventInductive ==
  ASSUME TInv, NoOverdraft, [Next]_vars
  PROVE  NoOverdraft'
<1>1. ASSUME NEW w \in Worker, WorkerStep(w) PROVE NoOverdraft'
  <2>1. (\A x \in Slot : available'[x] >= 0) /\ Solvent(w)'
    BY <1>1, SolventStep
  <2>2. ASSUME NEW v \in Worker, v # w PROVE Solvent(v)'
    BY <1>1, <2>2, OthersStay DEF NoOverdraft, Solvent
  <2> QED
    BY <2>1, <2>2 DEF NoOverdraft, Solvent
<1>2. ASSUME UNCHANGED <<available, view>> PROVE NoOverdraft'
  BY <1>2 DEF view, NoOverdraft
<1>3. CASE FinishBuild \/ UNCHANGED vars
  BY <1>2, <1>3 DEF FinishBuild, vars, balances
<1> QED
  BY <1>1, <1>3 DEF Next, Finished

\* No interleaving overdraws a balance, whatever the workload and the number
\* of worker threads.  Code: RevertableAsset::conditional_transfer_available
\* under the buffered views of process_transaction.
THEOREM NoOverdraftCorrect == Spec => []NoOverdraft
<1>1. Init => NoOverdraft
  <2>1. \A x \in Slot : NoAmounts[x] = 0
    BY DEF NoAmounts
  <2> QED
    BY <2>1, ConstantAssumption DEF Init, NoOverdraft
<1> QED
  BY <1>1, TypeInit, TypeInductive, SolventInductive, PTL DEF Spec

-----------------------------------------------------------------------------
(***************************************************************************)
(* Reservations: the inductive invariant.                                  *)
(***************************************************************************)
\* A transaction is run by one worker, and is unanswered while it runs.
OneRunner ==
  \A w \in Worker : cur_tx[w] # NoTx =>
    /\ status[cur_tx[w]] = "RUNNING"
    /\ \A v \in Worker : cur_tx[v] = cur_tx[w] => v = w

\* A transaction that is undone will not be reported as a success, and one
\* that is published has completed all of its operations.
OutcomeKnown ==
  \A w \in Worker :
    /\ pc[w] \in {"unwind_ops", "unwind"} => result[w] # "SUCCESS"
    /\ pc[w] = "commit" => op_idx[w] = Len(Cur(w).operations) + 1

\* Every held sequence number has its bit set, and no two share a bit.
BitsHeld ==
  /\ \A t \in TxId :
       HoldsSeqNum(t) => seq_num_offset(t) \in sequence_number_vec[Tx[t].sourceAccount]
  /\ \A t, u \in TxId :
       /\ HoldsSeqNum(t) /\ HoldsSeqNum(u)
       /\ Tx[t].sourceAccount = Tx[u].sourceAccount
       /\ seq_num_offset(t) = seq_num_offset(u)
       => t = u

\* Every granted cancellation has its offer marked, and no two the same one.
MarksHeld ==
  /\ \A t \in TxId : \A i \in Nat :
       HoldsCancel(t, i) => cancel_key(t, i) \in marked_for_deletion
  /\ \A t, u \in TxId : \A i, j \in Nat :
       HoldsCancel(t, i) /\ HoldsCancel(u, j) /\ cancel_key(t, i) = cancel_key(u, j)
       => t = u /\ i = j

\* An id that a worker creates or has created is reserved, is new, and
\* belongs to one worker or to the one entry of uncommitted_db.
IdsHeld ==
  /\ \A w \in Worker :
       /\ new_accounts[w] \subseteq reserved_account_ids
       /\ new_accounts[w] \cap Existing = {}
       /\ \A v \in Worker : v # w => new_accounts[v] \cap new_accounts[w] = {}
  /\ \A e \in uncommitted_db :
       /\ e.id \in reserved_account_ids
       /\ e.id \notin Existing
       /\ \A f \in uncommitted_db : e.id = f.id => e = f
       /\ \A w \in Worker : e.id \notin new_accounts[w]

ResInv == OneRunner /\ OutcomeKnown /\ BitsHeld /\ MarksHeld /\ IdsHeld

(***************************************************************************)
(* The steps of a worker, by what they do to its place in the transaction  *)
(* and to sequence numbers and marks.                                      *)
(***************************************************************************)
Working == {"op", "charge", "cas"}

\* Work within an operation, or on balances and account ids.
StaysPut(w) ==
  /\ UNCHANGED <<status, cur_tx, op_idx, result, sequence_number_vec,
                 marked_for_deletion>>
  /\ pc'[w] = pc[w] \/ (pc[w] \in Working /\ pc'[w] \in Working)

\* The fee or an operation completes; a cancellation marks its offer.
MovesOn(w) ==
  /\ UNCHANGED <<status, cur_tx, result, sequence_number_vec>>
  /\ pc[w] \in Working
  /\ op_idx[w] \in 0 .. Len(Cur(w).operations)
  /\ op_idx'[w] = op_idx[w] + 1
  /\ pc'[w] = IF op_idx[w] = Len(Cur(w).operations) THEN "commit" ELSE "op"
  /\ \/ /\ ~IsCancel(cur_tx[w], op_idx[w])
        /\ marked_for_deletion' = marked_for_deletion
     \/ /\ IsCancel(cur_tx[w], op_idx[w])
        /\ cancel_key(cur_tx[w], op_idx[w]) \notin marked_for_deletion
        /\ marked_for_deletion' =
             marked_for_deletion \cup {cancel_key(cur_tx[w], op_idx[w])}

\* The fee or an operation fails.
GivesUp(w) ==
  /\ UNCHANGED <<status, cur_tx, sequence_number_vec, marked_for_deletion>>
  /\ pc[w] \in Working
  /\ op_idx[w] \in 0 .. Len(Cur(w).operations)
  /\ result'[w] # "SUCCESS"
  /\ op_idx'[w] = op_idx[w] - 1
  /\ pc'[w] = IF op_idx[w] <= 1 THEN "unwind" ELSE "unwind_ops"

\* A completed operation is undone; a cancellation gives its mark back.
Undoes(w) ==
  /\ UNCHANGED <<status, cur_tx, result, sequence_number_vec>>
  /\ pc[w] = "unwind_ops"
  /\ op_idx[w] \in 1 .. Len(Cur(w).operations)
  /\ op_idx'[w] = op_idx[w] - 1
  /\ pc'[w] = IF op_idx[w] = 1 THEN "unwind" ELSE "unwind_ops"
  /\ marked_for_deletion' =
       IF IsCancel(cur_tx[w], op_idx[w])
       THEN marked_for_deletion \ {cancel_key(cur_tx[w], op_idx[w])}
       ELSE marked_for_deletion

\* process_transaction returns; a failure gives the sequence number back.
Finishes(w) ==
  /\ pc[w] \in {"reserve", "unwind", "commit"}
  /\ cur_tx[w] \in TxId
  /\ \E s : /\ s = "SUCCESS" => pc[w] = "commit"
            /\ status' = [status EXCEPT ![cur_tx[w]] = s]
  /\ cur_tx'[w] = NoTx
  /\ pc'[w] = "idle"
  /\ marked_for_deletion' = marked_for_deletion
  /\ sequence_number_vec' =
       IF pc[w] = "unwind"
       THEN [sequence_number_vec EXCEPT ![Source(w)] =
               @ \ {seq_num_offset(cur_tx[w])}]
       ELSE sequence_number_vec

\* A transaction is taken.
Begins(w) ==
  /\ pc[w] = "idle"
  /\ \E t \in TxId : /\ status[t] = "QUEUED"
                     /\ status' = [status EXCEPT ![t] = "RUNNING"]
                     /\ cur_tx'[w] = t
  /\ pc'[w] = "reserve"
  /\ UNCHANGED <<sequence_number_vec, marked_for_deletion>>

\* A transaction is rejected without being run.
Rejects(w) ==
  /\ \E t \in TxId : /\ status[t] = "QUEUED"
                     /\ \E s : s # "SUCCESS" /\ status' = [status EXCEPT ![t] = s]
  /\ UNCHANGED <<cur_tx, pc, op_idx, result, sequence_number_vec,
                 marked_for_deletion>>

\* The sequence number is reserved: its bit was clear.
Reserves(w) ==
  /\ UNCHANGED <<status, cur_tx, op_idx, result, marked_for_deletion>>
  /\ pc[w] = "reserve"
  /\ pc'[w] = "charge"
  /\ cur_tx[w] \in TxId
  /\ op_idx[w] = 0
  /\ seq_num_offset(cur_tx[w]) \notin sequence_number_vec[Source(w)]
  /\ sequence_number_vec' = [sequence_number_vec EXCEPT ![Source(w)] =
                               @ \cup {seq_num_offset(cur_tx[w])}]

\* Completing an operation.
LEMMA AdvanceMoves ==
  ASSUME TInv, NEW w \in Worker, Advance(w)
  PROVE  /\ op_idx'[w] = op_idx[w] + 1
         /\ pc'[w] = IF op_idx[w] = Len(Cur(w).operations) THEN "commit" ELSE "op"
BY DEF Advance, TInv, TypeOK

\* Failing one.
LEMMA FailGivesUp ==
  ASSUME TInv, NEW w \in Worker, NEW s, s # "SUCCESS", Fail(w, s), pc[w] \in Working,
         UNCHANGED <<status, cur_tx, sequence_number_vec, marked_for_deletion>>
  PROVE  GivesUp(w)
<1>1. op_idx[w] \in 0 .. Len(Cur(w).operations)
  <2>1. pc[w] \in {"charge", "cas"} => op_idx[w] \in 0 .. Len(Cur(w).operations)
    BY DEF TInv, LocInv, Located
  <2>2. pc[w] = "op" => op_idx[w] \in 1 .. Len(Cur(w).operations)
    BY DEF TInv, LocInv, Located
  <2> QED
    BY <2>1, <2>2 DEF Working
<1>2. /\ op_idx'[w] = op_idx[w] - 1
      /\ pc'[w] = IF op_idx[w] <= 1 THEN "unwind" ELSE "unwind_ops"
      /\ result'[w] = s
  BY DEF Fail, TInv, TypeOK
<1> QED
  BY <1>1, <1>2 DEF GivesUp

LEMMA RefusedGivesUp ==
  ASSUME TInv, NEW w \in Worker, NEW s, s # "SUCCESS", OpRefused(w, s), pc[w] = "op"
  PROVE  GivesUp(w)
<1>1. pc[w] \in Working
  BY DEF Working
<1>2. /\ UNCHANGED <<status, cur_tx, sequence_number_vec, marked_for_deletion>>
      /\ Fail(w, s)
  BY DEF OpRefused, driver, reservations
<1> QED
  BY <1>1, <1>2, FailGivesUp

\* What follows a withdrawal.
LEMMA SettleMoves ==
  ASSUME TInv, NEW w \in Worker, NEW b, Settle(w, b), pc[w] \in {"charge", "cas"},
         UNCHANGED <<status, cur_tx, sequence_number_vec, marked_for_deletion>>
  PROVE  MovesOn(w) \/ GivesUp(w)
<1>1. /\ op_idx[w] \in 0 .. Len(Cur(w).operations)
      /\ op_idx[w] # 0 =>
           CurOp(w).type \in {"CREATE_ACCOUNT", "CREATE_SELL_OFFER", "PAYMENT"}
      /\ cur_tx[w] \in TxId
  BY DEF TInv, LocInv, Located
<1>2. pc[w] \in Working
  BY DEF Working
<1>3. ~IsCancel(cur_tx[w], op_idx[w])
  BY <1>1, TxType DEF IsCancel, CurOp, Cur
<1>4. CASE result' = result /\ Advance(w)
  BY <1>1, <1>2, <1>3, <1>4, AdvanceMoves DEF MovesOn
<1>5. CASE Fail(w, "INVALID_AMOUNT")
  BY <1>2, <1>5, FailGivesUp
<1>6. (result' = result /\ Advance(w)) \/ Fail(w, "INVALID_AMOUNT")
  <2>1. CASE op_idx[w] = 0 \/ CurOp(w).type = "CREATE_SELL_OFFER"
    BY <1>1, <2>1 DEF Settle
  <2>2. CASE op_idx[w] # 0 /\ CurOp(w).type = "CREATE_ACCOUNT"
    BY <2>2 DEF Settle
  <2>3. CASE op_idx[w] # 0 /\ CurOp(w).type = "PAYMENT"
    BY <2>3 DEF Settle
  <2> QED
    BY <1>1, <2>1, <2>2, <2>3
<1> QED
  BY <1>4, <1>5, <1>6

\* Every step of a worker is of one of these kinds.
LEMMA StepKinds ==
  ASSUME TInv, OutcomeKnown, NEW w \in Worker, WorkerStep(w)
  PROVE  \/ StaysPut(w) \/ MovesOn(w) \/ GivesUp(w) \/ Undoes(w)
         \/ Finishes(w) \/ Begins(w) \/ Rejects(w) \/ Reserves(w)
<1>1. /\ pc \in [Worker -> PC] /\ cur_tx \in [Worker -> TxId \cup {NoTx}]
      /\ op_idx \in [Worker -> Int]
  BY DEF TInv, TypeOK
<1>2. ASSUME NEW t \in TxId, StartTx(w, t) PROVE Begins(w)
  <2>1. cur_tx'[w] = t /\ pc'[w] = "reserve"
    BY <1>1, <1>2 DEF StartTx
  <2> QED
    BY <1>2, <2>1 DEF StartTx, Begins, reservations
<1>3. ASSUME NEW t \in TxId, RejectTx(w, t) PROVE Rejects(w)
  BY <1>3 DEF RejectTx, Rejects, reservations
<1>4. CASE ReserveSeqNum(w)
  <2>1. /\ cur_tx[w] \in TxId /\ op_idx[w] = 0 /\ pc'[w] = "charge"
    BY <1>1, <1>4 DEF ReserveSeqNum, TInv, LocInv, Located
  <2>2. seq_num_offset(cur_tx[w]) \notin sequence_number_vec[Source(w)]
    BY <1>4 DEF ReserveSeqNum, SeqStatus, Source, Cur
  <2> QED
    BY <1>4, <2>1, <2>2 DEF ReserveSeqNum, Reserves, driver
<1>5. CASE SeqNumRefused(w)
  <2>1. /\ pc[w] = "reserve" /\ cur_tx[w] \in TxId
        /\ SeqStatus(cur_tx[w]) # "SUCCESS"
        /\ status' = [status EXCEPT ![cur_tx[w]] = SeqStatus(cur_tx[w])]
        /\ cur_tx'[w] = NoTx /\ pc'[w] = "idle"
    BY <1>1, <1>5 DEF SeqNumRefused, Return, TInv, LocInv, Located
  <2>2. UNCHANGED <<sequence_number_vec, marked_for_deletion>>
    BY <1>5 DEF SeqNumRefused, reservations
  <2> QED
    BY <2>1, <2>2 DEF Finishes
<1>6. CASE ChargeFromBuffer(w) \/ CasAvailable(w)
  <2>1. /\ pc[w] \in {"charge", "cas"} /\ \E b : Settle(w, b)
        /\ UNCHANGED <<status, cur_tx, sequence_number_vec, marked_for_deletion>>
    BY <1>6 DEF ChargeFromBuffer, CasAvailable, driver, reservations
  <2> QED
    BY <2>1, SettleMoves
<1>7. CASE LoadAvailable(w) \/ CasRetry(w)
  <2>1. pc[w] \in Working /\ pc'[w] \in Working
    BY <1>1, <1>7 DEF LoadAvailable, CasRetry, Working
  <2> QED
    BY <1>7, <2>1 DEF LoadAvailable, CasRetry, StaysPut, driver, reservations
<1>8. CASE InsufficientBalance(w)
  <2>1. /\ pc[w] \in Working /\ Fail(w, "INSUFFICIENT_BALANCE")
        /\ UNCHANGED <<status, cur_tx, sequence_number_vec, marked_for_deletion>>
    BY <1>8 DEF InsufficientBalance, driver, reservations, Working
  <2> QED
    BY <2>1, FailGivesUp
<1>9. CASE OpCreateAccount(w) \/ OpCreateSellOffer(w) \/ OpPayment(w)
  <2>1. pc[w] = "op" /\ pc[w] \in Working
    BY <1>9 DEF OpCreateAccount, OpCreateSellOffer, OpPayment, Working
  <2>2. CASE \E s : s # "SUCCESS" /\ OpRefused(w, s)
    BY <2>1, <2>2, RefusedGivesUp
  <2>3. CASE ~ \E s : s # "SUCCESS" /\ OpRefused(w, s)
    <3>1. /\ pc' = [pc EXCEPT ![w] = "charge"]
          /\ UNCHANGED <<status, cur_tx, op_idx, result, sequence_number_vec,
                         marked_for_deletion>>
      BY <1>9, <2>3 DEF OpCreateAccount, OpCreateSellOffer, OpPayment, driver,
                        reservations
    <3>2. pc'[w] \in Working
      BY <1>1, <3>1 DEF Working
    <3> QED
      BY <2>1, <3>1, <3>2 DEF StaysPut
  <2> QED
    BY <2>2, <2>3
<1>10. CASE OpCancelSellOffer(w)
  <2>1. /\ pc[w] = "op" /\ pc[w] \in Working /\ cur_tx[w] \in TxId
        /\ op_idx[w] \in 1 .. Len(Cur(w).operations)
        /\ CurOp(w).type = "CANCEL_SELL_OFFER"
    BY <1>10 DEF OpCancelSellOffer, Working, TInv, LocInv, Located
  <2>2. op_idx[w] \in 0 .. Len(Cur(w).operations) /\ IsCancel(cur_tx[w], op_idx[w])
    BY <2>1, TxType DEF IsCancel, CurOp, Cur
  <2>3. CASE ~Cancellable(cancel_key(cur_tx[w], op_idx[w]), CurOp(w).asset)
    <3>1. OpRefused(w, "CANCEL_OFFER_TARGET_NEXIST")
      BY <1>10, <2>3 DEF OpCancelSellOffer
    <3> QED
      BY <2>1, <3>1, RefusedGivesUp
  <2>4. CASE Cancellable(cancel_key(cur_tx[w], op_idx[w]), CurOp(w).asset)
    <3>1. /\ marked_for_deletion' =
               marked_for_deletion \cup {cancel_key(cur_tx[w], op_idx[w])}
          /\ Advance(w)
          /\ UNCHANGED <<status, cur_tx, result, sequence_number_vec>>
      BY <1>10, <2>4 DEF OpCancelSellOffer, driver
    <3>2. cancel_key(cur_tx[w], op_idx[w]) \notin marked_for_deletion
      BY <2>4 DEF Cancellable
    <3> QED
      BY <2>1, <2>2, <3>1, <3>2, AdvanceMoves DEF MovesOn
  <2> QED
    BY <2>3, <2>4
<1>11. CASE OpMoneyPrinter(w)
  <2>1. /\ pc[w] = "op" /\ pc[w] \in Working /\ cur_tx[w] \in TxId
        /\ op_idx[w] \in 1 .. Len(Cur(w).operations)
        /\ CurOp(w).type = "MONEY_PRINTER"
    BY <1>11 DEF OpMoneyPrinter, Working, TInv, LocInv, Located
  <2>2. op_idx[w] \in 0 .. Len(Cur(w).operations) /\ ~IsCancel(cur_tx[w], op_idx[w])
    BY <2>1, TxType DEF IsCancel, CurOp, Cur
  <2>3. CASE OpRefused(w, "INVALID_PRINT_MONEY_AMOUNT")
    BY <2>1, <2>3, RefusedGivesUp
  <2>4. CASE ~OpRefused(w, "INVALID_PRINT_MONEY_AMOUNT")
    <3>1. /\ Advance(w)
          /\ UNCHANGED <<status, cur_tx, result, sequence_number_vec,
                         marked_for_deletion>>
      BY <1>11, <2>4 DEF OpMoneyPrinter, driver, reservations
    <3> QED
      BY <2>1, <2>2, <3>1, AdvanceMoves DEF MovesOn
  <2> QED
    BY <2>3, <2>4
<1>12. CASE UnwindOp(w)
  <2>1. /\ pc[w] = "unwind_ops" /\ cur_tx[w] \in TxId
        /\ op_idx[w] \in 1 .. Len(Cur(w).operations)
    BY <1>12 DEF UnwindOp, TInv, LocInv, Located
  <2>2. /\ op_idx'[w] = op_idx[w] - 1
        /\ pc'[w] = IF op_idx[w] = 1 THEN "unwind" ELSE "unwind_ops"
    BY <1>1, <1>12, <2>1 DEF UnwindOp
  <2>3. IsCancel(cur_tx[w], op_idx[w]) <=> CurOp(w).type = "CANCEL_SELL_OFFER"
    BY <2>1, TxType DEF IsCancel, CurOp, Cur
  <2>4. marked_for_deletion' =
          IF IsCancel(cur_tx[w], op_idx[w])
          THEN marked_for_deletion \ {cancel_key(cur_tx[w], op_idx[w])}
          ELSE marked_for_deletion
    BY <1>12, <2>3 DEF UnwindOp
  <2>5. UNCHANGED <<status, cur_tx, result, sequence_number_vec>>
    BY <1>12 DEF UnwindOp, driver
  <2> QED
    BY <2>1, <2>2, <2>4, <2>5 DEF Undoes
<1>13. CASE UnwindBalance(w) \/ ReleaseAccount(w) \/ CommitBalance(w) \/ CommitAccount(w)
  <2>1. UNCHANGED <<pc, op_idx, result, sequence_number_vec, marked_for_deletion, driver>>
    BY <1>13 DEF UnwindBalance, ReleaseAccount, CommitBalance, CommitAccount, reservations
  <2> QED
    BY <2>1 DEF StaysPut, driver
<1>14. CASE ReleaseSeqNum(w)
  <2>1. /\ pc[w] = "unwind" /\ cur_tx[w] \in TxId
        /\ result[w] # "SUCCESS"
        /\ status' = [status EXCEPT ![cur_tx[w]] = result[w]]
        /\ cur_tx'[w] = NoTx /\ pc'[w] = "idle"
    BY <1>1, <1>14 DEF ReleaseSeqNum, Return, TInv, LocInv, Located, OutcomeKnown
  <2> QED
    BY <1>14, <2>1 DEF ReleaseSeqNum, Finishes
<1>15. CASE CommitDone(w)
  <2>1. /\ pc[w] = "commit" /\ cur_tx[w] \in TxId
        /\ status' = [status EXCEPT ![cur_tx[w]] = "SUCCESS"]
        /\ cur_tx'[w] = NoTx /\ pc'[w] = "idle"
    BY <1>1, <1>15 DEF CommitDone, Return, TInv, LocInv, Located
  <2> QED
    BY <1>15, <2>1 DEF CommitDone, Finishes, reservations
<1> QED
  BY <1>2, <1>3, <1>4, <1>5, <1>6, <1>7, <1>8, <1>9, <1>10, <1>11, <1>12, <1>13,
     <1>14, <1>15 DEF WorkerStep

\* A step of worker w leaves the results of the other workers alone.
LEMMA OthersResult ==
  ASSUME TInv, NEW w \in Worker, WorkerStep(w), NEW v \in Worker, v # w
  PROVE  result'[v] = result[v]
<1>0. result \in [Worker -> Statuses]
  BY DEF TInv, TypeOK
<1>1. CASE \E t \in TxId : StartTx(w, t) \/ RejectTx(w, t)
  BY <1>1 DEF StartTx, RejectTx
<1>2. CASE ReserveSeqNum(w) \/ SeqNumRefused(w)
  BY <1>0, <1>2 DEF ReserveSeqNum, SeqNumRefused, Return
<1>3. CASE ChargeFromBuffer(w) \/ CasAvailable(w)
  <2>1. PICK b : Settle(w, b)
    BY <1>3 DEF ChargeFromBuffer, CasAvailable
  <2>2. op_idx[w] # 0 =>
          CurOp(w).type \in {"CREATE_ACCOUNT", "CREATE_SELL_OFFER", "PAYMENT"}
    BY <1>3 DEF ChargeFromBuffer, CasAvailable, TInv, LocInv, Located
  <2> QED
    BY <1>0, <2>1, <2>2 DEF Settle, Fail
<1>4. CASE LoadAvailable(w) \/ InsufficientBalance(w) \/ CasRetry(w)
  BY <1>0, <1>4 DEF LoadAvailable, InsufficientBalance, CasRetry, Fail
<1>5. CASE \/ OpCreateAccount(w) \/ OpCreateSellOffer(w) \/ OpPayment(w)
           \/ OpCancelSellOffer(w) \/ OpMoneyPrinter(w)
  BY <1>0, <1>5 DEF OpCreateAccount, OpCreateSellOffer, OpPayment, OpRefused,
                    OpCancelSellOffer, OpMoneyPrinter, Fail
<1>6. CASE UnwindOp(w) \/ UnwindBalance(w) \/ ReleaseAccount(w) \/ ReleaseSeqNum(w)
  BY <1>0, <1>6 DEF UnwindOp, UnwindBalance, ReleaseAccount, ReleaseSeqNum, Return
<1>7. CASE CommitBalance(w) \/ CommitAccount(w) \/ CommitDone(w)
  BY <1>0, <1>7 DEF CommitBalance, CommitAccount, CommitDone, Return
<1> QED
  BY <1>1, <1>2, <1>3, <1>4, <1>5, <1>6, <1>7 DEF WorkerStep

(***************************************************************************)
(* The parts of the invariant, one at a time.                              *)
(***************************************************************************)
\* A step of another worker does not disturb what worker v holds.
Apart(w) ==
  \A v \in Worker : v # w =>
    /\ pc'[v] = pc[v] /\ cur_tx'[v] = cur_tx[v] /\ op_idx'[v] = op_idx[v]
    /\ result'[v] = result[v] /\ new_accounts'[v] = new_accounts[v]

LEMMA StepsApart ==
  ASSUME TInv, NEW w \in Worker, WorkerStep(w)
  PROVE  Apart(w)
BY OthersStay, OthersResult DEF Apart

LEMMA OneRunnerStep ==
  ASSUME TInv, OneRunner, NEW w \in Worker, Apart(w),
         \/ StaysPut(w) \/ MovesOn(w) \/ GivesUp(w) \/ Undoes(w)
         \/ Finishes(w) \/ Begins(w) \/ Rejects(w) \/ Reserves(w)
  PROVE  OneRunner'
<1>1. /\ status \in [TxId -> Statuses \cup {"ABSENT", "QUEUED", "RUNNING"}]
      /\ cur_tx \in [Worker -> TxId \cup {NoTx}]
      /\ NoTx \notin TxId
  BY ConstantAssumption DEF TInv, TypeOK
<1>2. CASE StaysPut(w) \/ MovesOn(w) \/ GivesUp(w) \/ Undoes(w) \/ Reserves(w)
  <2>1. UNCHANGED <<status, cur_tx>>
    BY <1>2 DEF StaysPut, MovesOn, GivesUp, Undoes, Reserves
  <2> QED
    BY <2>1 DEF OneRunner
<1>3. CASE Finishes(w)
  <2>1. PICK s : status' = [status EXCEPT ![cur_tx[w]] = s]
    BY <1>3 DEF Finishes
  <2>2. cur_tx[w] \in TxId /\ cur_tx'[w] = NoTx
    BY <1>3 DEF Finishes
  <2> SUFFICES ASSUME NEW v \in Worker, cur_tx'[v] # NoTx
               PROVE  /\ status'[cur_tx'[v]] = "RUNNING"
                      /\ \A u \in Worker : cur_tx'[u] = cur_tx'[v] => u = v
    BY DEF OneRunner
  <2>3. v # w /\ cur_tx'[v] = cur_tx[v] /\ cur_tx[v] # cur_tx[w] /\ cur_tx[v] \in TxId
    BY <1>1, <2>2 DEF Apart, OneRunner
  <2>4. status'[cur_tx[v]] = status[cur_tx[v]]
    BY <1>1, <2>1, <2>3
  <2>5. \A u \in Worker : cur_tx'[u] = NoTx \/ cur_tx'[u] = cur_tx[u]
    BY <2>2 DEF Apart
  <2> QED
    BY <1>1, <2>3, <2>4, <2>5 DEF OneRunner
<1>4. CASE Begins(w)
  <2>1. PICK t \in TxId : /\ status[t] = "QUEUED"
                          /\ status' = [status EXCEPT ![t] = "RUNNING"]
                          /\ cur_tx'[w] = t
    BY <1>4 DEF Begins
  <2>2. \A v \in Worker : cur_tx[v] # t
    BY <1>1, <2>1 DEF OneRunner
  <2> SUFFICES ASSUME NEW v \in Worker, cur_tx'[v] # NoTx
               PROVE  /\ status'[cur_tx'[v]] = "RUNNING"
                      /\ \A u \in Worker : cur_tx'[u] = cur_tx'[v] => u = v
    BY DEF OneRunner
  <2>3. \A u \in Worker : u # w => cur_tx'[u] = cur_tx[u]
    BY DEF Apart
  <2>4. CASE v = w
    BY <1>1, <2>1, <2>2, <2>3, <2>4
  <2>5. CASE v # w
    <3>1. cur_tx'[v] = cur_tx[v] /\ cur_tx[v] \in TxId /\ cur_tx[v] # t
      BY <1>1, <2>2, <2>3, <2>5
    <3>2. status'[cur_tx[v]] = status[cur_tx[v]]
      BY <1>1, <2>1, <3>1
    <3> QED
      BY <1>1, <2>1, <2>3, <3>1, <3>2 DEF OneRunner
  <2> QED
    BY <2>4, <2>5
<1>5. CASE Rejects(w)
  <2>1. PICK t \in TxId : /\ status[t] = "QUEUED"
                          /\ \E s : status' = [status EXCEPT ![t] = s]
    BY <1>5 DEF Rejects
  <2>2. PICK s : status' = [status EXCEPT ![t] = s]
    BY <2>1
  <2>3. cur_tx' = cur_tx
    BY <1>5 DEF Rejects
  <2>4. \A v \in Worker : cur_tx[v] # t
    BY <1>1, <2>1 DEF OneRunner
  <2>5. \A v \in Worker : cur_tx[v] # NoTx => status'[cur_tx[v]] = status[cur_tx[v]]
    BY <1>1, <2>2, <2>4
  <2> QED
    BY <2>3, <2>5 DEF OneRunner
<1> QED
  BY <1>2, <1>3, <1>4, <1>5

LEMMA OutcomeKnownStep ==
  ASSUME TInv, OutcomeKnown, NEW w \in Worker, Apart(w),
         \/ StaysPut(w) \/ MovesOn(w) \/ GivesUp(w) \/ Undoes(w)
         \/ Finishes(w) \/ Begins(w) \/ Rejects(w) \/ Reserves(w)
  PROVE  OutcomeKnown'
<1>1. ASSUME NEW v \in Worker, v # w
      PROVE  /\ pc'[v] \in {"unwind_ops", "unwind"} => result'[v] # "SUCCESS"
             /\ pc'[v] = "commit" => op_idx'[v] = Len(Tx[cur_tx'[v]].operations) + 1
  BY <1>1 DEF Apart, OutcomeKnown, Cur
<1>2. /\ pc'[w] \in {"unwind_ops", "unwind"} => result'[w] # "SUCCESS"
      /\ pc'[w] = "commit" => op_idx'[w] = Len(Tx[cur_tx'[w]].operations) + 1
  <2>1. CASE StaysPut(w) \/ Rejects(w)
    BY <2>1 DEF StaysPut, Rejects, Working, OutcomeKnown, Cur
  <2>2. CASE MovesOn(w)
    BY <2>2 DEF MovesOn, Cur
  <2>3. CASE GivesUp(w) \/ Undoes(w)
    BY <2>3 DEF GivesUp, Undoes, OutcomeKnown
  <2>4. CASE Finishes(w) \/ Begins(w) \/ Reserves(w)
    BY <2>4 DEF Finishes, Begins, Reserves
  <2> QED
    BY <2>1, <2>2, <2>3, <2>4
<1> QED
  BY <1>1, <1>2 DEF OutcomeKnown, Cur

\* When nobody takes a sequence number and no bit changes.
LEMMA BitsFrame ==
  ASSUME BitsHeld, sequence_number_vec' = sequence_number_vec,
         \A t \in TxId : HoldsSeqNum(t)' => HoldsSeqNum(t)
  PROVE  BitsHeld'
BY DEF BitsHeld, seq_num_offset

LEMMA BitsHeldStep ==
  ASSUME TInv, OneRunner, BitsHeld, NEW w \in Worker, Apart(w),
         \/ StaysPut(w) \/ MovesOn(w) \/ GivesUp(w) \/ Undoes(w)
         \/ Finishes(w) \/ Begins(w) \/ Rejects(w) \/ Reserves(w)
  PROVE  BitsHeld'
<1>1. /\ status \in [TxId -> Statuses \cup {"ABSENT", "QUEUED", "RUNNING"}]
      /\ cur_tx \in [Worker -> TxId \cup {NoTx}]
      /\ sequence_number_vec \in [Account -> SUBSET Int]
      /\ NoTx \notin TxId
  BY ConstantAssumption DEF TInv, TypeOK
<1>2. ASSUME NEW t \in TxId, HoldsSeqNum(t)',
             status'[t] = "SUCCESS" => HoldsSeqNum(t),
             cur_tx'[w] = t /\ pc'[w] \notin {"idle", "reserve"} => HoldsSeqNum(t)
      PROVE  HoldsSeqNum(t)
  BY <1>2 DEF HoldsSeqNum, Apart
<1>3. CASE StaysPut(w) \/ MovesOn(w) \/ GivesUp(w) \/ Undoes(w) \/ Rejects(w)
  <2>1. cur_tx' = cur_tx /\ sequence_number_vec' = sequence_number_vec
    BY <1>3 DEF StaysPut, MovesOn, GivesUp, Undoes, Rejects
  <2>2. pc'[w] \notin {"idle", "reserve"} => pc[w] \notin {"idle", "reserve"}
    BY <1>3 DEF StaysPut, MovesOn, GivesUp, Undoes, Rejects, Working
  <2>3. \A t \in TxId : status'[t] = "SUCCESS" => status[t] = "SUCCESS"
    BY <1>1, <1>3 DEF StaysPut, MovesOn, GivesUp, Undoes, Rejects
  <2>4. \A t \in TxId : HoldsSeqNum(t)' => HoldsSeqNum(t)
    BY <1>2, <2>1, <2>2, <2>3 DEF HoldsSeqNum
  <2> QED
    BY <2>1, <2>4, BitsFrame
<1>4. CASE Begins(w)
  <2>1. pc'[w] = "reserve" /\ sequence_number_vec' = sequence_number_vec
    BY <1>4 DEF Begins
  <2>2. \A t \in TxId : status'[t] = "SUCCESS" => status[t] = "SUCCESS"
    BY <1>1, <1>4 DEF Begins
  <2>3. \A t \in TxId : HoldsSeqNum(t)' => HoldsSeqNum(t)
    BY <1>2, <2>1, <2>2 DEF HoldsSeqNum
  <2> QED
    BY <2>1, <2>3, BitsFrame
<1>5. CASE Finishes(w)
  <2>1. PICK s : /\ s = "SUCCESS" => pc[w] = "commit"
                 /\ status' = [status EXCEPT ![cur_tx[w]] = s]
    BY <1>5 DEF Finishes
  <2>2. pc'[w] = "idle" /\ cur_tx[w] \in TxId /\ cur_tx'[w] = NoTx
    BY <1>5 DEF Finishes
  <2>3. ASSUME NEW t \in TxId, HoldsSeqNum(t)'
        PROVE  HoldsSeqNum(t) /\ (t = cur_tx[w] => pc[w] = "commit")
    <3>1. CASE status'[t] = "SUCCESS"
      <4>1. t = cur_tx[w] => pc[w] = "commit"
        BY <1>1, <2>1, <3>1
      <4>2. t # cur_tx[w] => status[t] = "SUCCESS"
        BY <1>1, <2>1, <3>1
      <4> QED
        BY <4>1, <4>2 DEF HoldsSeqNum
    <3>2. CASE status'[t] # "SUCCESS"
      <4>1. PICK v \in Worker : cur_tx'[v] = t /\ pc'[v] \notin {"idle", "reserve"}
        BY <2>3, <3>2 DEF HoldsSeqNum
      <4>2. v # w /\ cur_tx[v] = t /\ pc[v] \notin {"idle", "reserve"}
        BY <2>2, <4>1 DEF Apart
      <4>3. t # cur_tx[w]
        BY <1>1, <4>2 DEF OneRunner
      <4> QED
        BY <4>2, <4>3 DEF HoldsSeqNum
    <3> QED
      BY <3>1, <3>2
  <2>4. CASE pc[w] # "unwind"
    <3>1. sequence_number_vec' = sequence_number_vec
      BY <1>5, <2>4 DEF Finishes
    <3> QED
      BY <2>3, <3>1, BitsFrame
  <2>5. CASE pc[w] = "unwind"
    <3>1. sequence_number_vec' = [sequence_number_vec EXCEPT ![Source(w)] =
                                    @ \ {seq_num_offset(cur_tx[w])}]
      BY <1>5, <2>5 DEF Finishes
    <3>2. HoldsSeqNum(cur_tx[w]) /\ Source(w) = Tx[cur_tx[w]].sourceAccount
      BY <2>5 DEF HoldsSeqNum, Source, Cur
    <3>3. ASSUME NEW t \in TxId, HoldsSeqNum(t)'
          PROVE  seq_num_offset(t) \in sequence_number_vec'[Tx[t].sourceAccount]
      <4>1. HoldsSeqNum(t) /\ t # cur_tx[w]
        BY <2>3, <2>5, <3>3
      <4>2. seq_num_offset(t) \in sequence_number_vec[Tx[t].sourceAccount]
        BY <4>1 DEF BitsHeld
      <4>3. Tx[t].sourceAccount = Source(w) => seq_num_offset(t) # seq_num_offset(cur_tx[w])
        BY <2>2, <3>2, <4>1 DEF BitsHeld
      <4>4. Tx[t].sourceAccount \in Account
        BY TxType
      <4> QED
        BY <1>1, <3>1, <4>2, <4>3, <4>4
    <3>4. \A t \in TxId : seq_num_offset(t)' = seq_num_offset(t)
      BY DEF seq_num_offset
    <3> QED
      BY <2>3, <3>3, <3>4 DEF BitsHeld
  <2> QED
    BY <2>4, <2>5
<1>6. CASE Reserves(w)
  <2>1. /\ UNCHANGED <<status, cur_tx>> /\ cur_tx[w] \in TxId
        /\ pc[w] = "reserve" /\ pc'[w] = "charge"
        /\ seq_num_offset(cur_tx[w]) \notin sequence_number_vec[Source(w)]
        /\ sequence_number_vec' = [sequence_number_vec EXCEPT ![Source(w)] =
                                     @ \cup {seq_num_offset(cur_tx[w])}]
    BY <1>6 DEF Reserves
  <2>2. Source(w) = Tx[cur_tx[w]].sourceAccount /\ Source(w) \in Account
    BY <2>1, TxType DEF Source, Cur
  <2>3. ASSUME NEW t \in TxId, HoldsSeqNum(t)' PROVE HoldsSeqNum(t) \/ t = cur_tx[w]
    BY <2>1, <2>3 DEF HoldsSeqNum, Apart
  <2>4. ASSUME NEW t \in TxId, HoldsSeqNum(t)'
        PROVE  seq_num_offset(t) \in sequence_number_vec'[Tx[t].sourceAccount]
    <3>1. Tx[t].sourceAccount \in Account
      BY TxType
    <3>2. CASE t = cur_tx[w]
      BY <1>1, <2>1, <2>2, <3>2
    <3>3. CASE t # cur_tx[w]
      <4>1. seq_num_offset(t) \in sequence_number_vec[Tx[t].sourceAccount]
        BY <2>3, <2>4, <3>3 DEF BitsHeld
      <4> QED
        BY <1>1, <2>1, <3>1, <4>1
    <3> QED
      BY <3>2, <3>3
  <2>5. ASSUME NEW t \in TxId, HoldsSeqNum(t)
        PROVE  ~(/\ Tx[t].sourceAccount = Source(w)
                 /\ seq_num_offset(t) = seq_num_offset(cur_tx[w]))
    BY <2>1, <2>5 DEF BitsHeld
  <2>6. ASSUME NEW t \in TxId, NEW u \in TxId, HoldsSeqNum(t)', HoldsSeqNum(u)',
               Tx[t].sourceAccount = Tx[u].sourceAccount,
               seq_num_offset(t) = seq_num_offset(u)
        PROVE  t = u
    <3>1. HoldsSeqNum(t) \/ t = cur_tx[w]
      BY <2>3, <2>6
    <3>2. HoldsSeqNum(u) \/ u = cur_tx[w]
      BY <2>3, <2>6
    <3> QED
      BY <2>2, <2>5, <2>6, <3>1, <3>2 DEF BitsHeld
  <2>7. \A t \in TxId : seq_num_offset(t)' = seq_num_offset(t)
    BY DEF seq_num_offset
  <2> QED
    BY <2>4, <2>6, <2>7 DEF BitsHeld
<1> QED
  BY <1>3, <1>4, <1>5, <1>6

\* Cancellations: who holds them depends on the statuses and the workers.
LEMMA MarksFrame ==
  ASSUME MarksHeld, marked_for_deletion' = marked_for_deletion,
         \A t \in TxId : \A i \in Nat : HoldsCancel(t, i)' => HoldsCancel(t, i)
  PROVE  MarksHeld'
BY DEF MarksHeld, cancel_key

\* What worker w may come to hold by its step, besides what was held before.
LEMMA CancelSources ==
  ASSUME NEW w \in Worker, Apart(w), NEW t \in TxId, NEW i \in Nat, HoldsCancel(t, i)'
  PROVE  /\ IsCancel(t, i)
         /\ \/ HoldsCancel(t, i)
            \/ status'[t] = "SUCCESS"
            \/ (cur_tx'[w] = t /\ i \in CompletedOps(w)')
<1>1. IsCancel(t, i)
  BY DEF HoldsCancel, IsCancel
<1>2. ASSUME NEW v \in Worker, v # w PROVE CompletedOps(v)' = CompletedOps(v)
  BY <1>2 DEF Apart, CompletedOps
<1>3. ASSUME NEW v \in Worker, v # w, cur_tx'[v] = t, i \in CompletedOps(v)'
      PROVE  HoldsCancel(t, i)
  <2>1. cur_tx[v] = t /\ i \in CompletedOps(v)
    BY <1>2, <1>3 DEF Apart
  <2> QED
    BY <1>1, <2>1 DEF HoldsCancel
<1> QED
  BY <1>1, <1>3 DEF HoldsCancel

LEMMA MarksHeldStep ==
  ASSUME TInv, OneRunner, OutcomeKnown, MarksHeld, NEW w \in Worker, Apart(w),
         \/ StaysPut(w) \/ MovesOn(w) \/ GivesUp(w) \/ Undoes(w)
         \/ Finishes(w) \/ Begins(w) \/ Rejects(w) \/ Reserves(w)
  PROVE  MarksHeld'
<1>1. /\ status \in [TxId -> Statuses \cup {"ABSENT", "QUEUED", "RUNNING"}]
      /\ cur_tx \in [Worker -> TxId \cup {NoTx}]
      /\ op_idx[w] \in Int
      /\ NoTx \notin TxId
  BY ConstantAssumption DEF TInv, TypeOK
<1>2. ASSUME NEW t \in TxId, status[t] = "SUCCESS", NEW i, IsCancel(t, i)
      PROVE  HoldsCancel(t, i)
  BY <1>2 DEF HoldsCancel
<1>3. ASSUME NEW t \in TxId, cur_tx[w] = t, NEW i \in CompletedOps(w), IsCancel(t, i)
      PROVE  HoldsCancel(t, i)
  BY <1>3 DEF HoldsCancel
<1>4. \A t : \A i : cancel_key(t, i)' = cancel_key(t, i)
  BY DEF cancel_key
<1>5. CASE StaysPut(w) \/ GivesUp(w) \/ Rejects(w) \/ Reserves(w)
  <2>1. cur_tx' = cur_tx /\ marked_for_deletion' = marked_for_deletion
    BY <1>5 DEF StaysPut, GivesUp, Rejects, Reserves
  <2>2. \A t \in TxId : status'[t] = "SUCCESS" => status[t] = "SUCCESS"
    BY <1>1, <1>5 DEF StaysPut, GivesUp, Rejects, Reserves
  <2>3. CompletedOps(w)' \subseteq CompletedOps(w)
    <3>1. CASE StaysPut(w) \/ Rejects(w)
      BY <3>1 DEF StaysPut, Rejects, CompletedOps, Working
    <3>2. CASE GivesUp(w)
      <4>1. CompletedOps(w) = 1 .. op_idx[w] - 1
        BY <3>2 DEF GivesUp, CompletedOps, Working
      <4>2. CompletedOps(w)' = IF op_idx[w] <= 1 THEN {} ELSE 1 .. op_idx[w] - 1
        BY <1>1, <3>2 DEF GivesUp, CompletedOps
      <4> QED
        BY <4>1, <4>2
    <3>3. CASE Reserves(w)
      <4>1. pc'[w] = "charge" /\ op_idx'[w] = 0
        BY <3>3 DEF Reserves
      <4> QED
        BY <4>1 DEF CompletedOps
    <3> QED
      BY <1>5, <3>1, <3>2, <3>3
  <2>4. ASSUME NEW t \in TxId, NEW i \in Nat, HoldsCancel(t, i)' PROVE HoldsCancel(t, i)
    BY <1>2, <1>3, <2>1, <2>2, <2>3, <2>4, CancelSources
  <2> QED
    BY <2>1, <2>4, MarksFrame
<1>6. CASE Begins(w)
  <2>1. pc'[w] = "reserve" /\ marked_for_deletion' = marked_for_deletion
    BY <1>6 DEF Begins
  <2>2. \A t \in TxId : status'[t] = "SUCCESS" => status[t] = "SUCCESS"
    BY <1>1, <1>6 DEF Begins
  <2>3. CompletedOps(w)' = {}
    BY <2>1 DEF CompletedOps
  <2>4. ASSUME NEW t \in TxId, NEW i \in Nat, HoldsCancel(t, i)' PROVE HoldsCancel(t, i)
    BY <1>2, <2>2, <2>3, <2>4, CancelSources
  <2> QED
    BY <2>1, <2>4, MarksFrame
<1>7. CASE Finishes(w)
  <2>1. PICK s : /\ s = "SUCCESS" => pc[w] = "commit"
                 /\ status' = [status EXCEPT ![cur_tx[w]] = s]
    BY <1>7 DEF Finishes
  <2>2. /\ pc'[w] = "idle" /\ cur_tx[w] \in TxId
        /\ marked_for_deletion' = marked_for_deletion
    BY <1>7 DEF Finishes
  <2>3. CompletedOps(w)' = {}
    BY <2>2 DEF CompletedOps
  <2>4. ASSUME NEW t \in TxId, NEW i \in Nat, HoldsCancel(t, i)' PROVE HoldsCancel(t, i)
    <3>1. IsCancel(t, i) /\ (HoldsCancel(t, i) \/ status'[t] = "SUCCESS")
      BY <2>3, <2>4, CancelSources
    <3>2. CASE status'[t] = "SUCCESS" /\ t # cur_tx[w]
      <4>1. status[t] = "SUCCESS"
        BY <1>1, <2>1, <3>2
      <4> QED
        BY <1>2, <3>1, <4>1
    <3>3. CASE status'[t] = "SUCCESS" /\ t = cur_tx[w]
      <4>1. pc[w] = "commit"
        BY <1>1, <2>1, <3>3
      <4>2. op_idx[w] = Len(Tx[t].operations) + 1
        BY <3>3, <4>1 DEF OutcomeKnown, Cur
      <4>3. i \in 1 .. Len(Tx[t].operations) /\ Len(Tx[t].operations) \in Nat
        BY <3>1, TxType DEF IsCancel
      <4>4. CompletedOps(w) = 1 .. op_idx[w] - 1
        BY <4>1 DEF CompletedOps
      <4>5. i \in CompletedOps(w)
        BY <4>2, <4>3, <4>4
      <4> QED
        BY <1>3, <3>1, <3>3, <4>5
    <3> QED
      BY <3>1, <3>2, <3>3
  <2> QED
    BY <2>2, <2>4, MarksFrame
<1>8. CASE MovesOn(w)
  <2>1. PICK t0, k : t0 = cur_tx[w] /\ k = op_idx[w]
    OBVIOUS
  <2>2. /\ UNCHANGED <<status, cur_tx>> /\ pc[w] \in Working
        /\ op_idx'[w] = op_idx[w] + 1 /\ pc'[w] \in {"commit", "op"}
        /\ \/ ~IsCancel(t0, k) /\ marked_for_deletion' = marked_for_deletion
           \/ /\ IsCancel(t0, k) /\ cancel_key(t0, k) \notin marked_for_deletion
              /\ marked_for_deletion' = marked_for_deletion \cup {cancel_key(t0, k)}
    BY <1>8, <2>1 DEF MovesOn
  <2>3. CompletedOps(w) = 1 .. k - 1 /\ CompletedOps(w)' = 1 .. k + 1 - 1 /\ k \in Int
    BY <1>1, <2>1, <2>2 DEF CompletedOps, Working
  <2>4. \A i : i \in CompletedOps(w)' => i \in CompletedOps(w) \/ i = k
    BY <2>3
  <2>5. ASSUME NEW t \in TxId, NEW i \in Nat, HoldsCancel(t, i)'
        PROVE  HoldsCancel(t, i) \/ (t = t0 /\ i = k /\ IsCancel(t0, k))
    BY <1>2, <1>3, <2>1, <2>2, <2>4, <2>5, CancelSources
  <2>6. CASE ~IsCancel(t0, k)
    <3>1. \A t \in TxId : \A i \in Nat : HoldsCancel(t, i)' => HoldsCancel(t, i)
      BY <2>5, <2>6
    <3> QED
      BY <2>2, <2>6, <3>1, MarksFrame
  <2>7. CASE IsCancel(t0, k)
    <3>1. /\ cancel_key(t0, k) \notin marked_for_deletion
          /\ marked_for_deletion' = marked_for_deletion \cup {cancel_key(t0, k)}
      BY <2>2, <2>7
    <3>2. \A t \in TxId : \A i \in Nat :
            HoldsCancel(t, i) => /\ cancel_key(t, i) \in marked_for_deletion
                                 /\ cancel_key(t, i) # cancel_key(t0, k)
      BY <3>1 DEF MarksHeld
    <3>3. ASSUME NEW t \in TxId, NEW i \in Nat, HoldsCancel(t, i)'
          PROVE  cancel_key(t, i) \in marked_for_deletion'
      BY <2>5, <3>1, <3>2, <3>3
    <3>4. ASSUME NEW t \in TxId, NEW u \in TxId, NEW i \in Nat, NEW j \in Nat,
                 HoldsCancel(t, i)', HoldsCancel(u, j)', cancel_key(t, i) = cancel_key(u, j)
          PROVE  t = u /\ i = j
      <4>1. HoldsCancel(t, i) \/ (t = t0 /\ i = k)
        BY <2>5, <3>4
      <4>2. HoldsCancel(u, j) \/ (u = t0 /\ j = k)
        BY <2>5, <3>4
      <4> QED
        BY <3>2, <3>4, <4>1, <4>2 DEF MarksHeld
    <3> QED
      BY <1>4, <3>3, <3>4 DEF MarksHeld
  <2> QED
    BY <2>6, <2>7
<1>9. CASE Undoes(w)
  <2>1. PICK t0, k : t0 = cur_tx[w] /\ k = op_idx[w]
    OBVIOUS
  <2>2. /\ UNCHANGED <<status, cur_tx>> /\ pc[w] = "unwind_ops"
        /\ op_idx'[w] = k - 1 /\ pc'[w] = IF k = 1 THEN "unwind" ELSE "unwind_ops"
        /\ marked_for_deletion' = IF IsCancel(t0, k)
                                  THEN marked_for_deletion \ {cancel_key(t0, k)}
                                  ELSE marked_for_deletion
        /\ k \in 1 .. Len(Cur(w).operations)
    BY <1>9, <2>1 DEF Undoes
  <2>3. t0 \in TxId /\ k \in Nat /\ k # 0
    <3>1. cur_tx[w] \in TxId /\ Len(Cur(w).operations) \in Nat
      BY <2>2, CurType
    <3> QED
      BY <2>1, <2>2, <3>1
  <2>4. /\ CompletedOps(w) = 1 .. k
        /\ CompletedOps(w)' \subseteq 1 .. k - 1
    <3>1. CompletedOps(w) = 1 .. k
      BY <2>1, <2>2 DEF CompletedOps
    <3>2. CASE k = 1
      BY <2>2, <3>1, <3>2 DEF CompletedOps
    <3>3. CASE k # 1
      BY <2>2, <3>1, <3>3 DEF CompletedOps
    <3> QED
      BY <3>1, <3>2, <3>3
  <2>5. \A i : i \in CompletedOps(w)' => i \in CompletedOps(w) /\ i # k
    BY <2>3, <2>4
  <2>6. k \in CompletedOps(w)
    BY <2>3, <2>4
  <2>7. ASSUME NEW t \in TxId, NEW i \in Nat, HoldsCancel(t, i)'
        PROVE  HoldsCancel(t, i) /\ ~(t = t0 /\ i = k)
    <3>1. CASE status'[t] = "SUCCESS"
      <4>1. t # t0
        BY <1>1, <2>1, <2>2, <2>3, <3>1 DEF OneRunner
      <4> QED
        BY <1>2, <2>2, <2>7, <3>1, <4>1, CancelSources
    <3>2. CASE status'[t] # "SUCCESS"
      <4>1. PICK v \in Worker : cur_tx'[v] = t /\ i \in CompletedOps(v)'
        BY <2>7, <3>2 DEF HoldsCancel
      <4>2. IsCancel(t, i)
        BY <2>7, CancelSources
      <4>3. CASE v = w
        BY <1>3, <2>1, <2>2, <2>5, <4>1, <4>2, <4>3
      <4>4. CASE v # w
        <5>1. cur_tx[v] = t /\ i \in CompletedOps(v)
          BY <4>1, <4>4 DEF Apart, CompletedOps
        <5>2. t # t0
          BY <1>1, <2>1, <4>4, <5>1 DEF OneRunner
        <5> QED
          BY <4>2, <5>1, <5>2 DEF HoldsCancel
      <4> QED
        BY <4>3, <4>4
    <3> QED
      BY <3>1, <3>2
  <2>8. CASE ~IsCancel(t0, k)
    BY <2>2, <2>7, <2>8, MarksFrame
  <2>9. CASE IsCancel(t0, k)
    <3>1. HoldsCancel(t0, k)
      BY <1>3, <2>1, <2>3, <2>6, <2>9
    <3>2. marked_for_deletion' = marked_for_deletion \ {cancel_key(t0, k)}
      BY <2>2, <2>9
    <3>3. ASSUME NEW t \in TxId, NEW i \in Nat, HoldsCancel(t, i)'
          PROVE  cancel_key(t, i) \in marked_for_deletion'
      <4>1. HoldsCancel(t, i) /\ ~(t = t0 /\ i = k)
        BY <2>7, <3>3
      <4>2. cancel_key(t, i) # cancel_key(t0, k)
        BY <2>3, <3>1, <4>1 DEF MarksHeld
      <4>3. cancel_key(t, i) \in marked_for_deletion
        BY <4>1 DEF MarksHeld
      <4> QED
        BY <3>2, <4>2, <4>3
    <3> QED
      BY <1>4, <2>7, <3>3 DEF MarksHeld
  <2> QED
    BY <2>8, <2>9
<1> QED
  BY <1>5, <1>6, <1>7, <1>8, <1>9

\* Account ids: whoever does not reserve or publish one only gives ids up.
LEMMA IdsFrame ==
  ASSUME IdsHeld, NEW w \in Worker, Apart(w),
         new_accounts'[w] \subseteq new_accounts[w],
         UNCHANGED <<reserved_account_ids, uncommitted_db>>
  PROVE  IdsHeld'
<1>1. \A v \in Worker : new_accounts'[v] \subseteq new_accounts[v]
  BY DEF Apart
<1> QED
  BY <1>1 DEF IdsHeld

LEMMA IdsHeldStep ==
  ASSUME TInv, IdsHeld, NEW w \in Worker, Apart(w), WorkerStep(w)
  PROVE  IdsHeld'
<1>1. new_accounts \in [Worker -> SUBSET Account]
  BY DEF TInv, TypeOK
<1>2. CASE UNCHANGED <<reserved_account_ids, uncommitted_db, new_accounts>>
  BY <1>2, IdsFrame
<1>3. CASE SeqNumRefused(w) \/ ReleaseSeqNum(w) \/ CommitDone(w)
  <2>1. /\ UNCHANGED <<reserved_account_ids, uncommitted_db>>
        /\ new_accounts'[w] = {}
    BY <1>1, <1>3 DEF SeqNumRefused, ReleaseSeqNum, CommitDone, Return, reservations
  <2> QED
    BY <2>1, IdsFrame
<1>4. CASE OpCreateAccount(w)
  <2>1. CASE CreateAccountStatus(w) # "SUCCESS"
    <3>1. UNCHANGED <<reserved_account_ids, uncommitted_db, new_accounts>>
      BY <1>4, <2>1 DEF OpCreateAccount, OpRefused, reservations, view
    <3> QED
      BY <1>2, <3>1
  <2>2. CASE CreateAccountStatus(w) = "SUCCESS"
    <3>1. PICK a : a = CurOp(w).account
      OBVIOUS
    <3>2. a \notin reserved_account_ids /\ a \notin Existing
      BY <2>2, <3>1 DEF CreateAccountStatus
    <3>3. /\ reserved_account_ids' = reserved_account_ids \cup {a}
          /\ new_accounts' = [new_accounts EXCEPT ![w] = @ \cup {a}]
          /\ uncommitted_db' = uncommitted_db
      BY <1>4, <2>2, <3>1 DEF OpCreateAccount
    <3>4. new_accounts'[w] = new_accounts[w] \cup {a}
      BY <1>1, <3>3
    <3>5. \A v \in Worker : v # w => new_accounts'[v] = new_accounts[v]
      BY DEF Apart
    <3>6. \A v \in Worker : a \notin new_accounts[v]
      BY <3>2 DEF IdsHeld
    <3>7. \A e \in uncommitted_db : e.id # a
      BY <3>2 DEF IdsHeld
    <3> QED
      BY <3>2, <3>3, <3>4, <3>5, <3>6, <3>7 DEF IdsHeld
  <2> QED
    BY <2>1, <2>2
<1>5. CASE ReleaseAccount(w)
  <2>1. PICK a \in new_accounts[w] :
          /\ reserved_account_ids' = reserved_account_ids \ {a}
          /\ new_accounts' = [new_accounts EXCEPT ![w] = @ \ {a}]
    BY <1>5 DEF ReleaseAccount
  <2>2. uncommitted_db' = uncommitted_db
    BY <1>5 DEF ReleaseAccount
  <2>3. new_accounts'[w] = new_accounts[w] \ {a}
    BY <1>1, <2>1
  <2>4. \A v \in Worker : v # w => new_accounts'[v] = new_accounts[v] /\ a \notin new_accounts[v]
    BY DEF Apart, IdsHeld
  <2>5. \A e \in uncommitted_db : e.id # a
    BY DEF IdsHeld
  <2> QED
    BY <2>1, <2>2, <2>3, <2>4, <2>5 DEF IdsHeld
<1>6. CASE CommitAccount(w)
  <2>1. PICK a \in new_accounts[w] :
          /\ uncommitted_db' = uncommitted_db \cup {NewEntry(a, cur_tx[w], new_balance[w])}
          /\ new_accounts' = [new_accounts EXCEPT ![w] = @ \ {a}]
    BY <1>6 DEF CommitAccount
  <2>2. PICK n : n = NewEntry(a, cur_tx[w], new_balance[w])
    OBVIOUS
  <2>3. n.id = a /\ uncommitted_db' = uncommitted_db \cup {n}
    BY <2>1, <2>2 DEF NewEntry
  <2>4. reserved_account_ids' = reserved_account_ids
    BY <1>6 DEF CommitAccount
  <2>5. new_accounts'[w] = new_accounts[w] \ {a}
    BY <1>1, <2>1
  <2>6. \A v \in Worker : v # w => new_accounts'[v] = new_accounts[v] /\ a \notin new_accounts[v]
    BY DEF Apart, IdsHeld
  <2>7. \A e \in uncommitted_db : e.id # a
    BY DEF IdsHeld
  <2>8. a \in reserved_account_ids /\ a \notin Existing
    BY DEF IdsHeld
  <2> QED
    BY <2>3, <2>4, <2>5, <2>6, <2>7, <2>8 DEF IdsHeld
<1>7. CASE \/ \E t \in TxId : StartTx(w, t) \/ RejectTx(w, t)
           \/ ReserveSeqNum(w) \/ LoadAvailable(w) \/ InsufficientBalance(w)
           \/ CasRetry(w) \/ ChargeFromBuffer(w) \/ CasAvailable(w)
  <2>1. UNCHANGED <<reserved_account_ids, uncommitted_db, new_accounts>>
    BY <1>7 DEF StartTx, RejectTx, ReserveSeqNum, LoadAvailable, InsufficientBalance,
                CasRetry, ChargeFromBuffer, CasAvailable, reservations, view
  <2> QED
    BY <1>2, <2>1
<1>8. CASE \/ OpCreateSellOffer(w) \/ OpPayment(w) \/ OpCancelSellOffer(w)
           \/ OpMoneyPrinter(w) \/ UnwindOp(w) \/ UnwindBalance(w) \/ CommitBalance(w)
  <2>1. UNCHANGED <<reserved_account_ids, uncommitted_db, new_accounts>>
    BY <1>8 DEF OpCreateSellOffer, OpPayment, OpCancelSellOffer, OpMoneyPrinter,
                OpRefused, UnwindOp, UnwindBalance, CommitBalance, reservations, view
  <2> QED
    BY <1>2, <2>1
<1> QED
  BY <1>3, <1>4, <1>5, <1>6, <1>7, <1>8 DEF WorkerStep

(***************************************************************************)
(* The theorem.                                                            *)
(***************************************************************************)
LEMMA ResInductive ==
  ASSUME TInv, ResInv, [Next]_vars
  PROVE  ResInv'
<1>1. ASSUME NEW w \in Worker, WorkerStep(w) PROVE ResInv'
  <2>1. Apart(w)
    BY <1>1, StepsApart
  <2>2. \/ StaysPut(w) \/ MovesOn(w) \/ GivesUp(w) \/ Undoes(w)
        \/ Finishes(w) \/ Begins(w) \/ Rejects(w) \/ Reserves(w)
    BY <1>1, StepKinds DEF ResInv
  <2>3. OneRunner' /\ OutcomeKnown'
    BY <2>1, <2>2, OneRunnerStep, OutcomeKnownStep DEF ResInv
  <2>4. BitsHeld'
    BY <2>1, <2>2, BitsHeldStep DEF ResInv
  <2>5. MarksHeld'
    BY <2>1, <2>2, MarksHeldStep DEF ResInv
  <2>6. IdsHeld'
    BY <1>1, <2>1, IdsHeldStep DEF ResInv
  <2> QED
    BY <2>3, <2>4, <2>5, <2>6 DEF ResInv
<1>2. ASSUME UNCHANGED <<status, cur_tx, pc, op_idx, result, reservations, new_accounts>>
      PROVE  ResInv'
  <2>1. OneRunner' /\ OutcomeKnown'
    BY <1>2 DEF ResInv, OneRunner, OutcomeKnown, Cur
  <2>2. \A t \in TxId : HoldsSeqNum(t)' => HoldsSeqNum(t)
    BY <1>2 DEF HoldsSeqNum
  <2>3. \A t \in TxId : \A i \in Nat : HoldsCancel(t, i)' => HoldsCancel(t, i)
    BY <1>2 DEF HoldsCancel, IsCancel, CompletedOps
  <2>4. BitsHeld' /\ MarksHeld'
    BY <1>2, <2>2, <2>3, BitsFrame, MarksFrame DEF ResInv, reservations
  <2>5. IdsHeld'
    BY <1>2 DEF ResInv, IdsHeld, reservations
  <2> QED
    BY <2>1, <2>4, <2>5 DEF ResInv
<1>3. CASE FinishBuild
  BY <1>2, <1>3 DEF FinishBuild, view
<1>4. CASE UNCHANGED vars
  BY <1>2, <1>4 DEF vars, driver, view
<1> QED
  BY <1>1, <1>3, <1>4 DEF Next, Finished

LEMMA ResInit == Init => ResInv
<1> SUFFICES ASSUME Init PROVE ResInv
  OBVIOUS
<1>1. \A w \in Worker : cur_tx[w] = NoTx /\ pc[w] = "idle" /\ new_accounts[w] = {}
  BY DEF Init
<1>2. \A t \in TxId : status[t] # "SUCCESS"
  BY DEF Init
<1>3. \A t \in TxId : ~HoldsSeqNum(t)
  BY <1>1, <1>2 DEF HoldsSeqNum
<1>4. \A t \in TxId : \A i \in Nat : ~HoldsCancel(t, i)
  BY <1>1, <1>2 DEF HoldsCancel, CompletedOps
<1>5. uncommitted_db = {}
  BY DEF Init
<1> QED
  BY <1>1, <1>3, <1>4, <1>5 DEF ResInv, OneRunner, OutcomeKnown, BitsHeld, MarksHeld, IdsHeld

LEMMA ResImplies ==
  ASSUME TInv, ResInv
  PROVE  ReservationsHeldOnce
<1>1. SeqNumHeldOnce
  <2>1. ASSUME NEW t \in TxId, NEW u \in TxId, HoldsSeqNum(t), HoldsSeqNum(u),
               Tx[t].sourceAccount = Tx[u].sourceAccount,
               Tx[t].sequenceNumber = Tx[u].sequenceNumber
        PROVE  t = u
    <3>1. seq_num_offset(t) = seq_num_offset(u)
      BY <2>1 DEF seq_num_offset
    <3> QED
      BY <2>1, <3>1 DEF ResInv, BitsHeld
  <2> QED
    BY <2>1 DEF SeqNumHeldOnce
<1>2. OfferRefundedOnce
  <2> DEFINE held == {c \in TxId \X (1 .. MAX_OPS_PER_TX) : HoldsCancel(c[1], c[2])}
  <2>1. ASSUME NEW c \in held, NEW d \in held,
               cancel_key(c[1], c[2]) = cancel_key(d[1], d[2])
        PROVE  c = d
    <3>1. MAX_OPS_PER_TX \in Nat
      BY ConstantAssumption
    <3>2. /\ c[1] \in TxId /\ c[2] \in Nat /\ c = <<c[1], c[2]>> /\ HoldsCancel(c[1], c[2])
          /\ d[1] \in TxId /\ d[2] \in Nat /\ d = <<d[1], d[2]>> /\ HoldsCancel(d[1], d[2])
      BY <3>1
    <3>3. c[1] = d[1] /\ c[2] = d[2]
      BY <2>1, <3>2 DEF ResInv, MarksHeld
    <3> QED
      BY <3>2, <3>3
  <2> QED
    BY <2>1 DEF OfferRefundedOnce
<1>3. AccountCreatedOnce
  BY DEF ResInv, IdsHeld, AccountCreatedOnce
<1> QED
  BY <1>1, <1>2, <1>3 DEF ReservationsHeldOnce

\* One sequence number, one resting offer and one account id are held by one
\* transaction at a time, for every workload and number of worker threads,
\* whatever is released and taken again in between.
\* Code: reserve_sequence_number / release_sequence_number,
\* mark_for_deletion / unmark_for_deletion, reserve_account_creation /
\* release_account_creation / commit_account_creation.
THEOREM ReservationsCorrect == Spec => []ReservationsHeldOnce
<1>1. Spec => [](TInv /\ ResInv)
  BY TypeInit, TypeInductive, ResInit, ResInductive, PTL DEF Spec
<1> QED
  BY <1>1, ResImplies, PTL

(***************************************************************************)
(* The modification log.  Every trace that a transaction leaves in shared  *)
(* state is at an account that the transaction names as a source, a        *)
(* receiver or a new account, and those are logged when it is published.   *)
(* What other transactions took from an account, they return: until then   *)
(* it is owed.                                                             *)
(***************************************************************************)
\* The account is logged, or will be by a transaction that is being published.
Known(a) ==
  \E w \in Worker : \/ a \in modified[w]
                    \/ pc[w] = "commit" /\ a \in LoggedAccounts(cur_tx[w])

\* The units of slot x that each worker has withdrawn and may return.
Owed(x) == [w \in Worker |-> 1 .. (0 - available_side_effects[w][x])]

\* A worker that holds no sequence number has an empty view.
EmptyView ==
  \A w \in Worker : pc[w] \in {"idle", "reserve"} =>
    /\ available_buffer[w] = NoAmounts
    /\ available_side_effects[w] = NoAmounts
    /\ new_accounts[w] = {}

\* A view touches only accounts that its transaction logs.
ViewLogged ==
  \A w \in Worker : pc[w] \notin {"idle", "reserve"} =>
    /\ \A x \in Slot :
         available_buffer[w][x] # 0 \/ available_side_effects[w][x] # 0
         => x[1] \in LoggedAccounts(cur_tx[w])
    /\ new_accounts[w] \subseteq LoggedAccounts(cur_tx[w])

\* A bit is set for an account that is known, or by a running transaction.
BitsKnown ==
  \A a \in Account : \A o \in sequence_number_vec[a] :
    \/ Known(a)
    \/ \E w \in Worker : /\ pc[w] \notin {"idle", "reserve"}
                         /\ Source(w) = a
                         /\ seq_num_offset(cur_tx[w]) = o

IdsKnown == \A e \in uncommitted_db : Known(e.id)

\* The balance of an account that is not known lacks what is owed to it.
BalancesKnown ==
  \A x \in Slot :
    /\ IsFiniteSet(Cells(Owed(x)))
    /\ ~Known(x[1]) => available[x] + Cardinality(Cells(Owed(x))) = InitAvailable[x]

AllReturned == phase = "done" => \A w \in Worker : pc[w] = "idle"

LogInv ==
  EmptyView /\ ViewLogged /\ BitsKnown /\ IdsKnown /\ BalancesKnown /\ AllReturned

\* The accounts that a transaction logs.
LEMMA LoggedNames ==
  ASSUME NEW t \in TxId
  PROVE  /\ Tx[t].sourceAccount \in LoggedAccounts(t)
         /\ \A i \in 1 .. Len(Tx[t].operations) :
              Tx[t].operations[i].type \in {"CREATE_ACCOUNT", "PAYMENT"}
              => Tx[t].operations[i].account \in LoggedAccounts(t)
<1>1. DOMAIN Tx[t].operations = 1 .. Len(Tx[t].operations)
  BY TxType
<1> QED
  BY <1>1 DEF LoggedAccounts

\* What EmptyView and ViewLogged say of one worker.
ViewFine(w) ==
  /\ pc[w] \in {"idle", "reserve"} =>
       /\ available_buffer[w] = NoAmounts
       /\ available_side_effects[w] = NoAmounts
       /\ new_accounts[w] = {}
  /\ pc[w] \notin {"idle", "reserve"} =>
       /\ \A x \in Slot :
            available_buffer[w][x] # 0 \/ available_side_effects[w][x] # 0
            => x[1] \in LoggedAccounts(cur_tx[w])
       /\ new_accounts[w] \subseteq LoggedAccounts(cur_tx[w])

\* A running worker touches its view at logged accounts only.
LEMMA ViewKeeps ==
  ASSUME NEW w \in Worker, ViewFine(w),
         pc[w] \notin {"idle", "reserve"}, pc'[w] \notin {"idle", "reserve"},
         cur_tx'[w] = cur_tx[w],
         \A x \in Slot : \/ x[1] \in LoggedAccounts(cur_tx[w])
                         \/ /\ available_buffer'[w][x] \in {0, available_buffer[w][x]}
                            /\ available_side_effects'[w][x] \in {0, available_side_effects[w][x]},
         new_accounts'[w] \subseteq new_accounts[w] \cup LoggedAccounts(cur_tx[w])
  PROVE  ViewFine(w)'
<1>1. LoggedAccounts(cur_tx[w])' = LoggedAccounts(cur_tx[w])
  BY DEF LoggedAccounts
<1> QED
  BY <1>1 DEF ViewFine

\* What follows a withdrawal touches the source and the receiver.
LEMMA SettleLogged ==
  ASSUME TInv, NEW w \in Worker, pc[w] \in {"charge", "cas"}, NEW b, Settle(w, b)
  PROVE  /\ ChargeSlot(w)[1] \in LoggedAccounts(cur_tx[w])
         /\ \A x \in Slot : \/ x[1] \in LoggedAccounts(cur_tx[w])
                            \/ available_buffer'[w][x] = available_buffer[w][x]
         /\ pc'[w] \in {"op", "commit", "unwind", "unwind_ops"}
<1>1. /\ cur_tx[w] \in TxId /\ op_idx[w] \in 0 .. Len(Cur(w).operations)
      /\ op_idx[w] # 0 =>
           CurOp(w).type \in {"CREATE_ACCOUNT", "CREATE_SELL_OFFER", "PAYMENT"}
      /\ available_buffer \in [Worker -> [Slot -> Int]]
      /\ Len(Cur(w).operations) \in Nat
  BY CurType DEF TInv, TypeOK, LocInv, Located
<1>2. ChargeSlot(w)[1] \in LoggedAccounts(cur_tx[w])
  BY <1>1, LoggedNames DEF ChargeSlot, Source, Cur
<1>3. PICK y : y = <<CurOp(w).account, CurOp(w).asset>>
  OBVIOUS
<1>4. op_idx[w] # 0 /\ CurOp(w).type = "PAYMENT" => y[1] \in LoggedAccounts(cur_tx[w])
  <2>1. op_idx[w] # 0 => op_idx[w] \in 1 .. Len(Tx[cur_tx[w]].operations)
    BY <1>1 DEF Cur
  <2> QED
    BY <1>1, <1>3, <2>1, LoggedNames DEF CurOp, Cur
<1>5. PICK buf : buf = [available_buffer[w] EXCEPT ![ChargeSlot(w)] = b]
  OBVIOUS
<1>6. \A x \in Slot : x # ChargeSlot(w) => buf[x] = available_buffer[w][x]
  BY <1>1, <1>5
<1>7. DOMAIN buf = Slot
  BY <1>1, <1>5
<1>8. \/ available_buffer'[w] = buf
      \/ /\ op_idx[w] # 0 /\ CurOp(w).type = "PAYMENT"
         /\ \A x \in Slot : x # y => available_buffer'[w][x] = buf[x]
  <2>1. CASE op_idx[w] = 0 \/ CurOp(w).type = "CREATE_SELL_OFFER"
    BY <1>1, <1>5, <2>1 DEF Settle
  <2>2. CASE op_idx[w] # 0 /\ CurOp(w).type = "CREATE_ACCOUNT"
    BY <1>1, <1>5, <2>2 DEF Settle
  <2>3. CASE op_idx[w] # 0 /\ CurOp(w).type = "PAYMENT"
    <3>1. CASE CurOp(w).account \in new_accounts[w]
      <4>1. available_buffer' = [available_buffer EXCEPT ![w] = buf]
        BY <1>5, <2>3, <3>1 DEF Settle
      <4> QED
        BY <1>1, <4>1
    <3>2. CASE CurOp(w).account \notin new_accounts[w]
      <4>1. PICK c : available_buffer' = [available_buffer EXCEPT ![w] = [buf EXCEPT ![y] = c]]
        BY <1>3, <1>5, <2>3, <3>2 DEF Settle
      <4> QED
        BY <1>1, <1>7, <2>3, <4>1
    <3> QED
      BY <3>1, <3>2
  <2> QED
    BY <1>1, <2>1, <2>2, <2>3
<1>9. pc'[w] \in {"op", "commit", "unwind", "unwind_ops"}
  <2>1. Advance(w) \/ Fail(w, "INVALID_AMOUNT")
    <3>1. CASE op_idx[w] = 0 \/ CurOp(w).type = "CREATE_SELL_OFFER"
      BY <1>1, <3>1 DEF Settle
    <3>2. CASE op_idx[w] # 0 /\ CurOp(w).type = "CREATE_ACCOUNT"
      BY <3>2 DEF Settle
    <3>3. CASE op_idx[w] # 0 /\ CurOp(w).type = "PAYMENT"
      BY <3>3 DEF Settle
    <3> QED
      BY <1>1, <3>1, <3>2, <3>3
  <2> QED
    BY <2>1 DEF Advance, Fail, TInv, TypeOK
<1> QED
  BY <1>2, <1>4, <1>6, <1>8, <1>9

\* The steps of a worker and its view.
LEMMA ViewStep ==
  ASSUME TInv, NEW w \in Worker, ViewFine(w), WorkerStep(w)
  PROVE  ViewFine(w)'
<1>1. /\ pc \in [Worker -> PC]
      /\ available_buffer \in [Worker -> [Slot -> Int]]
      /\ available_side_effects \in [Worker -> [Slot -> Int]]
      /\ new_accounts \in [Worker -> SUBSET Account]
      /\ cur_tx \in [Worker -> TxId \cup {NoTx}]
  BY DEF TInv, TypeOK
<1>2. CASE SeqNumRefused(w) \/ ReleaseSeqNum(w) \/ CommitDone(w)
  <2>1. /\ pc'[w] = "idle" /\ available_buffer'[w] = NoAmounts
        /\ available_side_effects'[w] = NoAmounts /\ new_accounts'[w] = {}
    BY <1>1, <1>2 DEF SeqNumRefused, ReleaseSeqNum, CommitDone, Return
  <2> QED
    BY <2>1 DEF ViewFine
<1>3. CASE \E t \in TxId : StartTx(w, t) \/ RejectTx(w, t)
  <2>1. pc[w] = "idle" /\ pc'[w] \in {"idle", "reserve"} /\ UNCHANGED view
    BY <1>1, <1>3 DEF StartTx, RejectTx
  <2> QED
    BY <2>1 DEF ViewFine, view
<1>4. CASE ReserveSeqNum(w)
  <2>1. pc[w] = "reserve" /\ pc'[w] = "charge" /\ UNCHANGED view
    BY <1>1, <1>4 DEF ReserveSeqNum
  <2>2. \A x \in Slot : NoAmounts[x] = 0
    BY DEF NoAmounts
  <2> QED
    BY <2>1, <2>2 DEF ViewFine, view
<1>5. ASSUME pc[w] \notin {"idle", "reserve"}, pc'[w] \notin {"idle", "reserve"},
             UNCHANGED <<cur_tx, available_buffer, available_side_effects, new_accounts>>
      PROVE  ViewFine(w)'
  BY <1>5, ViewKeeps
<1>6. CASE LoadAvailable(w) \/ InsufficientBalance(w) \/ CasRetry(w) \/ UnwindOp(w)
  <2>1. UNCHANGED <<cur_tx, available_buffer, available_side_effects, new_accounts>>
    BY <1>6 DEF LoadAvailable, InsufficientBalance, CasRetry, UnwindOp, view, driver
  <2>2. pc[w] \notin {"idle", "reserve"} /\ pc'[w] \notin {"idle", "reserve"}
    BY <1>1, <1>6 DEF LoadAvailable, InsufficientBalance, CasRetry, UnwindOp, Fail
  <2> QED
    BY <1>5, <2>1, <2>2
<1>7. ASSUME NEW s, OpRefused(w, s), pc[w] = "op" PROVE ViewFine(w)'
  <2>1. UNCHANGED <<cur_tx, available_buffer, available_side_effects, new_accounts>>
    BY <1>7 DEF OpRefused, view, driver
  <2>2. pc[w] \notin {"idle", "reserve"} /\ pc'[w] \notin {"idle", "reserve"}
    BY <1>1, <1>7 DEF OpRefused, Fail
  <2> QED
    BY <1>5, <2>1, <2>2
<1>8. CASE OpCreateSellOffer(w) \/ OpPayment(w)
  <2>1. CASE \E s : OpRefused(w, s)
    BY <1>7, <1>8, <2>1 DEF OpCreateSellOffer, OpPayment
  <2>2. CASE ~ \E s : OpRefused(w, s)
    <3>1. /\ pc' = [pc EXCEPT ![w] = "charge"] /\ pc[w] = "op"
          /\ UNCHANGED <<cur_tx, available_buffer, available_side_effects, new_accounts>>
      BY <1>8, <2>2 DEF OpCreateSellOffer, OpPayment, view, driver
    <3>2. pc[w] \notin {"idle", "reserve"} /\ pc'[w] \notin {"idle", "reserve"}
      BY <1>1, <3>1
    <3> QED
      BY <1>5, <3>1, <3>2
  <2> QED
    BY <2>1, <2>2
<1>9. CASE OpCreateAccount(w)
  <2>1. CASE \E s : OpRefused(w, s)
    BY <1>7, <1>9, <2>1 DEF OpCreateAccount
  <2>2. CASE ~ \E s : OpRefused(w, s)
    <3>1. /\ pc' = [pc EXCEPT ![w] = "charge"] /\ pc[w] = "op"
          /\ new_accounts' = [new_accounts EXCEPT ![w] = @ \cup {CurOp(w).account}]
          /\ UNCHANGED <<cur_tx, available_buffer, available_side_effects>>
      BY <1>9, <2>2 DEF OpCreateAccount, driver
    <3>2. pc[w] \notin {"idle", "reserve"} /\ pc'[w] \notin {"idle", "reserve"}
      BY <1>1, <3>1
    <3>3. cur_tx[w] \in TxId /\ op_idx[w] \in 1 .. Len(Tx[cur_tx[w]].operations)
      BY <3>1 DEF TInv, LocInv, Located, Cur
    <3>4. CurOp(w).account \in LoggedAccounts(cur_tx[w])
      BY <1>9, <3>3, LoggedNames DEF OpCreateAccount, CurOp, Cur
    <3>5. new_accounts'[w] \subseteq new_accounts[w] \cup LoggedAccounts(cur_tx[w])
      BY <1>1, <3>1, <3>4
    <3> QED
      BY <3>1, <3>2, <3>5, ViewKeeps
  <2> QED
    BY <2>1, <2>2
<1>10. CASE OpCancelSellOffer(w) \/ OpMoneyPrinter(w)
  <2>1. CASE \E s : OpRefused(w, s)
    BY <1>7, <1>10, <2>1 DEF OpCancelSellOffer, OpMoneyPrinter
  <2>2. CASE ~ \E s : OpRefused(w, s)
    <3>1. /\ pc[w] = "op" /\ Advance(w)
          /\ UNCHANGED <<cur_tx, available_side_effects, new_accounts>>
      BY <1>10, <2>2 DEF OpCancelSellOffer, OpMoneyPrinter, driver
    <3>2. PICK y : y = <<Source(w), CurOp(w).asset>>
      OBVIOUS
    <3>3. PICK c : available_buffer' = [available_buffer EXCEPT ![w][y] = c]
      BY <1>10, <2>2, <3>2 DEF OpCancelSellOffer, OpMoneyPrinter
    <3>4. pc[w] \notin {"idle", "reserve"} /\ pc'[w] \notin {"idle", "reserve"}
      BY <1>1, <3>1 DEF Advance
    <3>5. cur_tx[w] \in TxId
      BY <3>1 DEF TInv, LocInv, Located
    <3>6. y[1] \in LoggedAccounts(cur_tx[w])
      BY <3>2, <3>5, LoggedNames DEF Source, Cur
    <3>7. \A x \in Slot : x # y => available_buffer'[w][x] = available_buffer[w][x]
      BY <1>1, <3>3
    <3> QED
      BY <3>1, <3>4, <3>6, <3>7, ViewKeeps
  <2> QED
    BY <2>1, <2>2
<1>11. CASE ChargeFromBuffer(w) \/ CasAvailable(w)
  <2>1. pc[w] \in {"charge", "cas"} /\ \E b : Settle(w, b)
    BY <1>11 DEF ChargeFromBuffer, CasAvailable
  <2>2. /\ ChargeSlot(w)[1] \in LoggedAccounts(cur_tx[w])
        /\ \A x \in Slot : \/ x[1] \in LoggedAccounts(cur_tx[w])
                           \/ available_buffer'[w][x] = available_buffer[w][x]
        /\ pc'[w] \in {"op", "commit", "unwind", "unwind_ops"}
    BY <2>1, SettleLogged
  <2>3. \A x \in Slot : \/ x = ChargeSlot(w)
                        \/ available_side_effects'[w][x] = available_side_effects[w][x]
    BY <1>1, <1>11 DEF ChargeFromBuffer, CasAvailable
  <2>4. cur_tx' = cur_tx /\ new_accounts' = new_accounts
    BY <1>11 DEF ChargeFromBuffer, CasAvailable, driver
  <2>5. pc[w] \notin {"idle", "reserve"} /\ pc'[w] \notin {"idle", "reserve"}
    BY <2>1, <2>2
  <2> QED
    BY <2>2, <2>3, <2>4, <2>5, ViewKeeps
<1>12. CASE UnwindBalance(w) \/ CommitBalance(w)
  <2>1. /\ pc[w] \notin {"idle", "reserve"} /\ pc' = pc
        /\ cur_tx' = cur_tx /\ new_accounts' = new_accounts
    BY <1>12 DEF UnwindBalance, CommitBalance, driver
  <2>2. \A x \in Slot :
          /\ available_buffer'[w][x] \in {0, available_buffer[w][x]}
          /\ available_side_effects'[w][x] \in {0, available_side_effects[w][x]}
    BY <1>1, <1>12 DEF UnwindBalance, CommitBalance
  <2> QED
    BY <2>1, <2>2, ViewKeeps
<1>13. CASE ReleaseAccount(w) \/ CommitAccount(w)
  <2>1. /\ pc[w] \notin {"idle", "reserve"} /\ pc' = pc /\ cur_tx' = cur_tx
        /\ UNCHANGED <<available_buffer, available_side_effects>>
    BY <1>13 DEF ReleaseAccount, CommitAccount, driver
  <2>2. new_accounts'[w] \subseteq new_accounts[w]
    BY <1>1, <1>13 DEF ReleaseAccount, CommitAccount
  <2> QED
    BY <2>1, <2>2, ViewKeeps
<1> QED
  BY <1>2, <1>3, <1>4, <1>6, <1>8, <1>9, <1>10, <1>11, <1>12, <1>13 DEF WorkerStep

\* What becomes known stays known: a published transaction is logged.
LEMMA KnownGrows ==
  ASSUME TInv, NEW w \in Worker, Apart(w), WorkerStep(w), NEW a, Known(a)
  PROVE  Known(a)'
<1>1. modified \in [Worker -> SUBSET Account] /\ pc \in [Worker -> PC]
  BY DEF TInv, TypeOK
<1>2. \/ modified' = modified
      \/ CommitDone(w)
  <2>1. CASE \/ \E t \in TxId : StartTx(w, t) \/ RejectTx(w, t)
             \/ ReserveSeqNum(w) \/ SeqNumRefused(w) \/ ChargeFromBuffer(w)
             \/ LoadAvailable(w) \/ InsufficientBalance(w) \/ CasAvailable(w) \/ CasRetry(w)
    BY <2>1 DEF StartTx, RejectTx, ReserveSeqNum, SeqNumRefused, ChargeFromBuffer,
                LoadAvailable, InsufficientBalance, CasAvailable, CasRetry
  <2>2. CASE \/ OpCreateAccount(w) \/ OpCreateSellOffer(w) \/ OpCancelSellOffer(w)
             \/ OpPayment(w) \/ OpMoneyPrinter(w)
    BY <2>2 DEF OpCreateAccount, OpCreateSellOffer, OpCancelSellOffer, OpPayment,
                OpMoneyPrinter, OpRefused
  <2>3. CASE \/ UnwindOp(w) \/ UnwindBalance(w) \/ ReleaseAccount(w) \/ ReleaseSeqNum(w)
             \/ CommitBalance(w) \/ CommitAccount(w) \/ CommitDone(w)
    BY <2>3 DEF UnwindOp, UnwindBalance, ReleaseAccount, ReleaseSeqNum, CommitBalance,
                CommitAccount
  <2> QED
    BY <2>1, <2>2, <2>3 DEF WorkerStep
<1>3. CommitDone(w) => modified' = [modified EXCEPT ![w] = @ \cup LoggedAccounts(cur_tx[w])]
  BY DEF CommitDone
<1>4. \A v \in Worker : modified[v] \subseteq modified'[v]
  BY <1>1, <1>2, <1>3
<1>5. pc[w] = "commit" =>
        \/ pc'[w] = "commit" /\ cur_tx'[w] = cur_tx[w]
        \/ LoggedAccounts(cur_tx[w]) \subseteq modified'[w]
  <2> SUFFICES ASSUME pc[w] = "commit"
               PROVE  \/ pc'[w] = "commit" /\ cur_tx'[w] = cur_tx[w]
                      \/ LoggedAccounts(cur_tx[w]) \subseteq modified'[w]
    OBVIOUS
  <2>1. CommitBalance(w) \/ CommitAccount(w) \/ CommitDone(w)
    BY DEF WorkerStep, StartTx, RejectTx, ReserveSeqNum, SeqNumRefused,
           ChargeFromBuffer, LoadAvailable, InsufficientBalance, CasAvailable, CasRetry,
           OpCreateAccount, OpCreateSellOffer, OpCancelSellOffer, OpPayment,
           OpMoneyPrinter, UnwindOp, UnwindBalance, ReleaseAccount, ReleaseSeqNum
  <2>2. CASE CommitBalance(w) \/ CommitAccount(w)
    BY <2>2 DEF CommitBalance, CommitAccount, driver
  <2>3. CASE CommitDone(w)
    BY <1>1, <1>3, <2>3
  <2> QED
    BY <2>1, <2>2, <2>3
<1>6. PICK v \in Worker : \/ a \in modified[v]
                          \/ pc[v] = "commit" /\ a \in LoggedAccounts(cur_tx[v])
  BY DEF Known
<1>7. LoggedAccounts(cur_tx[v])' = LoggedAccounts(cur_tx'[v])
  BY DEF LoggedAccounts
<1>8. \/ a \in modified'[v]
      \/ pc'[v] = "commit" /\ a \in LoggedAccounts(cur_tx'[v])
  <2>1. CASE v = w
    BY <1>4, <1>5, <1>6, <2>1
  <2>2. CASE v # w
    <3>1. pc'[v] = pc[v] /\ cur_tx'[v] = cur_tx[v]
      BY <2>2 DEF Apart
    <3> QED
      BY <1>4, <1>6, <3>1
  <2> QED
    BY <2>1, <2>2
<1> QED
  BY <1>7, <1>8 DEF Known

\* At an account that stays unknown, what a step takes it owes, and what it
\* returns it owed.
LEMMA Conserved ==
  ASSUME TInv, NEW w \in Worker, ViewFine(w), Apart(w), WorkerStep(w),
         NEW x \in Slot, ~Known(x[1])'
  PROVE  available'[x] - available_side_effects'[w][x]
           = available[x] - available_side_effects[w][x]
<1>1. /\ available \in [Slot -> Int]
      /\ available_side_effects \in [Worker -> [Slot -> Int]]
      /\ available[x] \in Int /\ available_side_effects[w][x] \in Int
  BY DEF TInv, TypeOK
<1>2. ~Known(x[1])
  BY KnownGrows
<1>3. \A y \in Slot : NoAmounts[y] = 0
  BY DEF NoAmounts
<1>4. pc[w] = "commit" => /\ available_buffer[w][x] = 0 /\ available_side_effects[w][x] = 0
  BY <1>2 DEF ViewFine, Known
<1>5. CASE UNCHANGED <<available, available_side_effects>>
  BY <1>5
<1>6. CASE SeqNumRefused(w) \/ ReleaseSeqNum(w) \/ CommitDone(w)
  <2>1. /\ available' = available
        /\ available_side_effects'[w] = NoAmounts
    BY <1>1, <1>6 DEF SeqNumRefused, ReleaseSeqNum, CommitDone, Return, balances
  <2>2. available_side_effects[w][x] = 0
    BY <1>3, <1>4, <1>6 DEF SeqNumRefused, ReleaseSeqNum, CommitDone, ViewFine
  <2> QED
    BY <1>3, <2>1, <2>2
<1>7. CASE CasAvailable(w)
  <2>1. pc[w] = "cas" /\ available[ChargeSlot(w)] = loaded[w]
    BY <1>7 DEF CasAvailable, CasExpected
  <2>2. PICK y, d : y = ChargeSlot(w) /\ d = Shortfall(w)
    OBVIOUS
  <2>3. y \in Slot /\ d \in Int
    BY <2>1, <2>2, ChargeType
  <2>4. /\ available' = [available EXCEPT ![y] = available[y] - d]
        /\ available_side_effects' = [available_side_effects EXCEPT ![w][y] = @ - d]
    BY <1>7, <2>1, <2>2 DEF CasAvailable
  <2>5. available_side_effects'[w] = [available_side_effects[w] EXCEPT ![y] = @ - d]
    BY <1>1, <2>4
  <2>6. available_side_effects[w] \in [Slot -> Int]
    BY <1>1
  <2>7. CASE x = y
    BY <1>1, <2>3, <2>4, <2>5, <2>6, <2>7
  <2>8. CASE x # y
    BY <1>1, <2>3, <2>4, <2>5, <2>6, <2>8
  <2> QED
    BY <2>7, <2>8
<1>8. CASE UnwindBalance(w)
  <2>1. PICK y \in Slot :
          /\ available' = [available EXCEPT ![y] = @ - available_side_effects[w][y]]
          /\ available_side_effects' = [available_side_effects EXCEPT ![w][y] = 0]
    BY <1>8 DEF UnwindBalance
  <2>2. available_side_effects'[w] = [available_side_effects[w] EXCEPT ![y] = 0]
    BY <1>1, <2>1
  <2>3. available_side_effects[w] \in [Slot -> Int]
    BY <1>1
  <2>4. CASE x = y
    BY <1>1, <2>1, <2>2, <2>3, <2>4
  <2>5. CASE x # y
    BY <1>1, <2>1, <2>2, <2>3, <2>5
  <2> QED
    BY <2>4, <2>5
<1>9. CASE CommitBalance(w)
  <2>1. PICK y \in Slot : /\ available_buffer[w][y] # 0
                          /\ available' = [available EXCEPT ![y] = @ + available_buffer[w][y]]
    BY <1>9 DEF CommitBalance
  <2>2. pc[w] = "commit" /\ available_side_effects' = available_side_effects
    BY <1>9 DEF CommitBalance
  <2>3. x # y
    BY <1>4, <2>1, <2>2
  <2> QED
    BY <1>1, <2>1, <2>2, <2>3
<1>10. CASE \/ \E t \in TxId : StartTx(w, t) \/ RejectTx(w, t)
            \/ ReserveSeqNum(w) \/ LoadAvailable(w) \/ InsufficientBalance(w)
            \/ CasRetry(w) \/ ChargeFromBuffer(w)
  <2>1. UNCHANGED <<available, available_side_effects>>
    BY <1>10 DEF StartTx, RejectTx, ReserveSeqNum, LoadAvailable, InsufficientBalance,
                 CasRetry, ChargeFromBuffer, balances, view
  <2> QED
    BY <1>5, <2>1
<1>11. CASE \/ OpCreateAccount(w) \/ OpCreateSellOffer(w) \/ OpPayment(w)
            \/ OpCancelSellOffer(w) \/ OpMoneyPrinter(w) \/ UnwindOp(w)
            \/ ReleaseAccount(w) \/ CommitAccount(w)
  <2>1. UNCHANGED <<available, available_side_effects>>
    BY <1>11 DEF OpCreateAccount, OpCreateSellOffer, OpPayment, OpCancelSellOffer,
                 OpMoneyPrinter, OpRefused, UnwindOp, ReleaseAccount, CommitAccount,
                 balances, view
  <2> QED
    BY <1>5, <2>1
<1> QED
  BY <1>6, <1>7, <1>8, <1>9, <1>10, <1>11 DEF WorkerStep

\* The balances, and what is owed to them.
LEMMA BalancesStep ==
  ASSUME TInv, NoOverdraft, NEW w \in Worker, ViewFine(w), Apart(w), WorkerStep(w),
         NoOverdraft', TInv', BalancesKnown
  PROVE  BalancesKnown'
<1> SUFFICES ASSUME NEW x \in Slot
             PROVE  /\ IsFiniteSet(Cells(Owed(x)'))
                    /\ ~Known(x[1])' =>
                         available'[x] + Cardinality(Cells(Owed(x)')) = InitAvailable[x]
  BY DEF BalancesKnown, Cells
<1>1. PICK f, g : f = Owed(x) /\ g = Owed(x)'
  OBVIOUS
<1>2. DOMAIN f = Worker /\ DOMAIN g = Worker
  BY <1>1 DEF Owed
<1>3. PICK m, n : m = 0 - available_side_effects[w][x] /\ n = 0 - available_side_effects'[w][x]
  OBVIOUS
<1>4. m \in Nat /\ n \in Nat
  <2>1. available_side_effects[w][x] \in Int /\ available_side_effects'[w][x] \in Int
    BY DEF TInv, TypeOK
  <2>2. available_side_effects[w][x] <= 0 /\ available_side_effects'[w][x] <= 0
    BY DEF NoOverdraft
  <2> QED
    BY <1>3, <2>1, <2>2
<1>5. f[w] = 1 .. m /\ g[w] = 1 .. n
  BY <1>1, <1>3 DEF Owed
<1>6. \A v \in Worker : v # w => g[v] = f[v]
  <2>1. \A v \in Worker : v # w => available_side_effects'[v] = available_side_effects[v]
    BY OthersStay
  <2> QED
    BY <1>1, <2>1 DEF Owed
<1>7. IsFiniteSet(Cells(f))
  BY <1>1 DEF BalancesKnown
<1>8. /\ IsFiniteSet(f[w]) /\ Cardinality(f[w]) = m
      /\ IsFiniteSet(g[w]) /\ Cardinality(g[w]) = n
  BY <1>4, <1>5, SizeUpTo
<1>9. /\ IsFiniteSet(Cells(g))
      /\ Cardinality(Cells(g)) = Cardinality(Cells(f)) - m + n
  <2>1. /\ IsFiniteSet(Cells(g))
        /\ Cardinality(Cells(g)) = Cardinality(Cells(f)) - Cardinality(f[w]) + Cardinality(g[w])
    BY <1>2, <1>6, <1>7, <1>8, CellsUpdate
  <2> QED
    BY <1>8, <2>1
<1>10. ASSUME ~Known(x[1])' PROVE available'[x] + Cardinality(Cells(g)) = InitAvailable[x]
  <2>1. available[x] + Cardinality(Cells(f)) = InitAvailable[x]
    BY <1>1, <1>10, KnownGrows DEF BalancesKnown
  <2>2. available'[x] - available_side_effects'[w][x]
          = available[x] - available_side_effects[w][x]
    BY <1>10, Conserved
  <2>3. /\ available[x] \in Int /\ available'[x] \in Int
        /\ available_side_effects[w][x] \in Int /\ available_side_effects'[w][x] \in Int
    BY DEF TInv, TypeOK
  <2>4. Cardinality(Cells(f)) \in Nat
    BY <1>7, FS_CardinalityType
  <2> QED
    BY <1>3, <1>9, <2>1, <2>2, <2>3, <2>4
<1> QED
  BY <1>1, <1>9, <1>10

LEMMA BitsKnownStep ==
  ASSUME TInv, NEW w \in Worker, Apart(w), WorkerStep(w), BitsKnown,
         \/ StaysPut(w) \/ MovesOn(w) \/ GivesUp(w) \/ Undoes(w)
         \/ Finishes(w) \/ Begins(w) \/ Rejects(w) \/ Reserves(w)
  PROVE  BitsKnown'
<1> SUFFICES ASSUME NEW a \in Account, NEW o \in sequence_number_vec'[a]
             PROVE  \/ Known(a)'
                    \/ \E v \in Worker : /\ pc'[v] \notin {"idle", "reserve"}
                                         /\ Source(v)' = a
                                         /\ seq_num_offset(cur_tx[v])' = o
  BY DEF BitsKnown
<1>1. sequence_number_vec \in [Account -> SUBSET Int]
  BY DEF TInv, TypeOK
<1>2. \A v \in Worker : cur_tx'[v] = cur_tx[v] =>
        Source(v)' = Source(v) /\ seq_num_offset(cur_tx[v])' = seq_num_offset(cur_tx[v])
  BY DEF Source, Cur, seq_num_offset
<1>3. ASSUME o \in sequence_number_vec[a],
             \/ Known(a)
             \/ \E v \in Worker : /\ v # w /\ pc[v] \notin {"idle", "reserve"}
                                  /\ Source(v) = a /\ seq_num_offset(cur_tx[v]) = o
      PROVE  \/ Known(a)'
             \/ \E v \in Worker : /\ pc'[v] \notin {"idle", "reserve"}
                                  /\ Source(v)' = a /\ seq_num_offset(cur_tx[v])' = o
  <2>1. CASE Known(a)
    BY <2>1, KnownGrows
  <2>2. CASE \E v \in Worker : /\ v # w /\ pc[v] \notin {"idle", "reserve"}
                               /\ Source(v) = a /\ seq_num_offset(cur_tx[v]) = o
    BY <1>2, <2>2 DEF Apart
  <2> QED
    BY <1>3, <2>1, <2>2
<1>4. CASE StaysPut(w) \/ MovesOn(w) \/ GivesUp(w) \/ Undoes(w) \/ Rejects(w)
  <2>1. cur_tx'[w] = cur_tx[w] /\ sequence_number_vec' = sequence_number_vec
    BY <1>4 DEF StaysPut, MovesOn, GivesUp, Undoes, Rejects
  <2>2. pc[w] \notin {"idle", "reserve"} => pc'[w] \notin {"idle", "reserve"}
    BY <1>4 DEF StaysPut, MovesOn, GivesUp, Undoes, Rejects, Working
  <2>3. CASE /\ pc[w] \notin {"idle", "reserve"} /\ Source(w) = a
             /\ seq_num_offset(cur_tx[w]) = o
    BY <1>2, <2>1, <2>2, <2>3
  <2>4. CASE ~(/\ pc[w] \notin {"idle", "reserve"} /\ Source(w) = a
               /\ seq_num_offset(cur_tx[w]) = o)
    BY <1>3, <2>1, <2>4 DEF BitsKnown
  <2> QED
    BY <2>3, <2>4
<1>5. CASE Begins(w)
  <2>1. pc[w] = "idle" /\ sequence_number_vec' = sequence_number_vec
    BY <1>5 DEF Begins
  <2> QED
    BY <1>3, <2>1 DEF BitsKnown
<1>6. CASE Reserves(w)
  <2>1. /\ pc[w] = "reserve" /\ pc'[w] = "charge" /\ cur_tx'[w] = cur_tx[w]
        /\ sequence_number_vec' = [sequence_number_vec EXCEPT ![Source(w)] =
                                     @ \cup {seq_num_offset(cur_tx[w])}]
    BY <1>6 DEF Reserves
  <2>2. CASE o \in sequence_number_vec[a]
    BY <1>3, <2>1, <2>2 DEF BitsKnown
  <2>3. CASE o \notin sequence_number_vec[a]
    <3>1. Source(w) = a /\ seq_num_offset(cur_tx[w]) = o
      BY <1>1, <2>1, <2>3
    <3> QED
      BY <1>2, <2>1, <3>1
  <2> QED
    BY <2>2, <2>3
<1>7. CASE Finishes(w)
  <2>1. /\ pc[w] \in {"reserve", "unwind", "commit"} /\ cur_tx[w] \in TxId
        /\ sequence_number_vec' =
             IF pc[w] = "unwind"
             THEN [sequence_number_vec EXCEPT ![Source(w)] = @ \ {seq_num_offset(cur_tx[w])}]
             ELSE sequence_number_vec
    BY <1>7 DEF Finishes
  <2>2. o \in sequence_number_vec[a]
    BY <1>1, <2>1
  <2>3. pc[w] = "unwind" => ~(Source(w) = a /\ seq_num_offset(cur_tx[w]) = o)
    BY <1>1, <2>1
  <2>4. pc[w] = "commit" /\ Source(w) = a => Known(a)
    BY <2>1, LoggedNames DEF Known, Source, Cur
  <2>5. \/ Known(a)
        \/ \E v \in Worker : /\ pc[v] \notin {"idle", "reserve"}
                             /\ Source(v) = a /\ seq_num_offset(cur_tx[v]) = o
    BY <2>2 DEF BitsKnown
  <2>6. \/ Known(a)
        \/ \E v \in Worker : /\ v # w /\ pc[v] \notin {"idle", "reserve"}
                             /\ Source(v) = a /\ seq_num_offset(cur_tx[v]) = o
    BY <2>1, <2>3, <2>4, <2>5
  <2> QED
    BY <1>3, <2>2, <2>6
<1> QED
  BY <1>4, <1>5, <1>6, <1>7

LEMMA IdsKnownStep ==
  ASSUME TInv, NEW w \in Worker, Apart(w), ViewFine(w), WorkerStep(w), IdsKnown
  PROVE  IdsKnown'
<1>1. CASE uncommitted_db' = uncommitted_db
  BY <1>1, KnownGrows DEF IdsKnown
<1>2. CASE CommitAccount(w)
  <2>1. PICK a \in new_accounts[w] :
          uncommitted_db' = uncommitted_db \cup {NewEntry(a, cur_tx[w], new_balance[w])}
    BY <1>2 DEF CommitAccount
  <2>2. NewEntry(a, cur_tx[w], new_balance[w]).id = a
    BY DEF NewEntry
  <2>3. Known(a)
    BY <1>2 DEF CommitAccount, ViewFine, Known
  <2>4. \A e \in uncommitted_db' : Known(e.id)
    BY <2>1, <2>2, <2>3 DEF IdsKnown
  <2> QED
    BY <2>4, KnownGrows DEF IdsKnown
<1>3. CASE \/ \E t \in TxId : StartTx(w, t) \/ RejectTx(w, t)
           \/ ReserveSeqNum(w) \/ SeqNumRefused(w) \/ LoadAvailable(w)
           \/ InsufficientBalance(w) \/ CasRetry(w) \/ ChargeFromBuffer(w) \/ CasAvailable(w)
  <2>1. uncommitted_db' = uncommitted_db
    BY <1>3 DEF StartTx, RejectTx, ReserveSeqNum, SeqNumRefused, LoadAvailable,
                InsufficientBalance, CasRetry, ChargeFromBuffer, CasAvailable, reservations
  <2> QED
    BY <1>1, <2>1
<1>4. CASE \/ OpCreateAccount(w) \/ OpCreateSellOffer(w) \/ OpPayment(w)
           \/ OpCancelSellOffer(w) \/ OpMoneyPrinter(w)
  <2>1. uncommitted_db' = uncommitted_db
    BY <1>4 DEF OpCreateAccount, OpCreateSellOffer, OpPayment, OpCancelSellOffer,
                OpMoneyPrinter, OpRefused, reservations
  <2> QED
    BY <1>1, <2>1
<1>5. CASE \/ UnwindOp(w) \/ UnwindBalance(w) \/ ReleaseAccount(w) \/ ReleaseSeqNum(w)
           \/ CommitBalance(w) \/ CommitDone(w)
  <2>1. uncommitted_db' = uncommitted_db
    BY <1>5 DEF UnwindOp, UnwindBalance, ReleaseAccount, ReleaseSeqNum, CommitBalance,
                CommitDone, reservations
  <2> QED
    BY <1>1, <2>1
<1> QED
  BY <1>2, <1>3, <1>4, <1>5 DEF WorkerStep

\* After the workers have returned, none of them starts again.
LEMMA AllReturnedStep ==
  ASSUME TInv, NEW w \in Worker, WorkerStep(w), AllReturned
  PROVE  AllReturned'
<1>1. CASE phase # "done"
  <2>1. phase' = phase
    <3>1. CASE \/ \E t \in TxId : StartTx(w, t) \/ RejectTx(w, t)
               \/ ReserveSeqNum(w) \/ SeqNumRefused(w) \/ LoadAvailable(w)
               \/ InsufficientBalance(w) \/ CasRetry(w) \/ ChargeFromBuffer(w) \/ CasAvailable(w)
      BY <3>1 DEF StartTx, RejectTx, ReserveSeqNum, SeqNumRefused, LoadAvailable,
                  InsufficientBalance, CasRetry, ChargeFromBuffer, CasAvailable, driver
    <3>2. CASE \/ OpCreateAccount(w) \/ OpCreateSellOffer(w) \/ OpPayment(w)
               \/ OpCancelSellOffer(w) \/ OpMoneyPrinter(w)
      BY <3>2 DEF OpCreateAccount, OpCreateSellOffer, OpPayment, OpCancelSellOffer,
                  OpMoneyPrinter, OpRefused, driver
    <3>3. CASE \/ UnwindOp(w) \/ UnwindBalance(w) \/ ReleaseAccount(w) \/ ReleaseSeqNum(w)
               \/ CommitBalance(w) \/ CommitAccount(w) \/ CommitDone(w)
      BY <3>3 DEF UnwindOp, UnwindBalance, ReleaseAccount, ReleaseSeqNum, CommitBalance,
                  CommitAccount, CommitDone, driver
    <3> QED
      BY <3>1, <3>2, <3>3 DEF WorkerStep
  <2> QED
    BY <1>1, <2>1 DEF AllReturned
<1>2. CASE phase = "done"
  <2>1. pc[w] = "idle"
    BY <1>2 DEF AllReturned
  <2> QED
    BY <1>2, <2>1
    DEF WorkerStep, StartTx, RejectTx, ReserveSeqNum, SeqNumRefused, ChargeFromBuffer,
        LoadAvailable, InsufficientBalance, CasAvailable, CasRetry, OpCreateAccount,
        OpCreateSellOffer, OpCancelSellOffer, OpPayment, OpMoneyPrinter, UnwindOp,
        UnwindBalance, ReleaseAccount, ReleaseSeqNum, CommitBalance, CommitAccount, CommitDone
<1> QED
  BY <1>1, <1>2

LEMMA ViewsFine == (EmptyView /\ ViewLogged) <=> \A w \in Worker : ViewFine(w)
BY DEF EmptyView, ViewLogged, ViewFine

LEMMA LogInductive ==
  ASSUME TInv, NoOverdraft, ResInv, LogInv, [Next]_vars, TInv', NoOverdraft'
  PROVE  LogInv'
<1>1. \A w \in Worker : ViewFine(w)
  BY ViewsFine DEF LogInv
<1>2. ASSUME NEW w \in Worker, WorkerStep(w) PROVE LogInv'
  <2>1. Apart(w)
    BY <1>2, StepsApart
  <2>2. \/ StaysPut(w) \/ MovesOn(w) \/ GivesUp(w) \/ Undoes(w)
        \/ Finishes(w) \/ Begins(w) \/ Rejects(w) \/ Reserves(w)
    BY <1>2, StepKinds DEF ResInv
  <2>3. ASSUME NEW v \in Worker PROVE ViewFine(v)'
    <3>1. CASE v = w
      BY <1>1, <1>2, <3>1, ViewStep
    <3>2. CASE v # w
      <4>1. /\ pc'[v] = pc[v] /\ cur_tx'[v] = cur_tx[v]
            /\ available_buffer'[v] = available_buffer[v]
            /\ available_side_effects'[v] = available_side_effects[v]
            /\ new_accounts'[v] = new_accounts[v]
        BY <1>2, <3>2, OthersStay
      <4> QED
        BY <1>1, <4>1 DEF ViewFine, LoggedAccounts
    <3> QED
      BY <3>1, <3>2
  <2>4. EmptyView' /\ ViewLogged'
    BY <2>3 DEF EmptyView, ViewLogged, ViewFine
  <2>5. BitsKnown'
    BY <1>2, <2>1, <2>2, BitsKnownStep DEF LogInv
  <2>6. IdsKnown'
    BY <1>1, <1>2, <2>1, IdsKnownStep DEF LogInv
  <2>7. BalancesKnown'
    BY <1>1, <1>2, <2>1, BalancesStep DEF LogInv
  <2>8. AllReturned'
    BY <1>2, AllReturnedStep DEF LogInv
  <2> QED
    BY <2>4, <2>5, <2>6, <2>7, <2>8 DEF LogInv
<1>3. ASSUME UNCHANGED <<available, reservations, cur_tx, view, pc, modified>>, AllReturned'
      PROVE  LogInv'
  <2>1. \A a : Known(a)' <=> Known(a)
    BY <1>3 DEF Known, LoggedAccounts
  <2>2. EmptyView' /\ ViewLogged'
    BY <1>3 DEF LogInv, EmptyView, ViewLogged, LoggedAccounts, view
  <2>3. BitsKnown' /\ IdsKnown'
    BY <1>3, <2>1 DEF LogInv, BitsKnown, IdsKnown, reservations, Source, Cur, seq_num_offset
  <2>4. \A x \in Slot : Owed(x)' = Owed(x)
    BY <1>3 DEF Owed, view
  <2>5. BalancesKnown'
    BY <1>3, <2>1, <2>4 DEF LogInv, BalancesKnown, Cells
  <2> QED
    BY <1>3, <2>2, <2>3, <2>5 DEF LogInv
<1>4. CASE FinishBuild
  <2>1. AllReturned'
    BY <1>4 DEF FinishBuild, AllReturned
  <2> QED
    BY <1>3, <1>4, <2>1 DEF FinishBuild, balances
<1>5. CASE UNCHANGED vars
  <2>1. AllReturned'
    BY <1>5 DEF vars, driver, LogInv, AllReturned
  <2> QED
    BY <1>3, <1>5, <2>1 DEF vars, balances, driver
<1> QED
  BY <1>2, <1>4, <1>5 DEF Next, Finished

LEMMA LogInit == Init => LogInv
<1> SUFFICES ASSUME Init PROVE LogInv
  OBVIOUS
<1>1. \A w \in Worker : /\ pc[w] = "idle" /\ available_buffer[w] = NoAmounts
                        /\ available_side_effects[w] = NoAmounts /\ new_accounts[w] = {}
  BY DEF Init
<1>2. EmptyView /\ ViewLogged
  BY <1>1 DEF EmptyView, ViewLogged
<1>3. BitsKnown /\ IdsKnown /\ AllReturned
  BY DEF Init, BitsKnown, IdsKnown, AllReturned
<1>4. ASSUME NEW x \in Slot
      PROVE  IsFiniteSet(Cells(Owed(x))) /\ available[x] + Cardinality(Cells(Owed(x))) = InitAvailable[x]
  <2>1. NoAmounts[x] = 0
    BY DEF NoAmounts
  <2>2. PICK f : f = Owed(x)
    OBVIOUS
  <2>3. DOMAIN f = Worker /\ \A w \in Worker : f[w] = 1 .. (0 - 0)
    BY <1>1, <2>1, <2>2 DEF Owed
  <2>4. \A w \in DOMAIN f : f[w] = {}
    BY <2>3
  <2>5. IsFiniteSet(Cells(f)) /\ Cardinality(Cells(f)) = 0
    BY <2>4, CellsEmpty
  <2>6. available[x] = InitAvailable[x] /\ InitAvailable[x] \in Nat
    BY ConstantAssumption DEF Init
  <2> QED
    BY <2>2, <2>5, <2>6
<1>5. BalancesKnown
  BY <1>4 DEF BalancesKnown
<1> QED
  BY <1>2, <1>3, <1>5 DEF LogInv

LEMMA LogImplies ==
  ASSUME TInv, LogInv
  PROVE  ModLogComplete
<1> SUFFICES ASSUME phase = "done", NEW a \in Account,
                    \/ \E s \in Asset : available[<<a, s>>] # InitAvailable[<<a, s>>]
                    \/ sequence_number_vec[a] # {}
                    \/ \E e \in uncommitted_db : e.id = a
             PROVE  \E w \in Worker : a \in modified[w]
  BY DEF ModLogComplete
<1>1. \A w \in Worker : pc[w] = "idle"
  BY DEF LogInv, AllReturned
<1>2. Known(a) => \E w \in Worker : a \in modified[w]
  BY <1>1 DEF Known
<1>3. CASE \E e \in uncommitted_db : e.id = a
  BY <1>2, <1>3 DEF LogInv, IdsKnown
<1>4. CASE sequence_number_vec[a] # {}
  BY <1>1, <1>2, <1>4 DEF LogInv, BitsKnown
<1>5. CASE \E s \in Asset : available[<<a, s>>] # InitAvailable[<<a, s>>]
  <2>1. PICK s \in Asset : available[<<a, s>>] # InitAvailable[<<a, s>>]
    BY <1>5
  <2>2. PICK x : x = <<a, s>>
    OBVIOUS
  <2>3. x \in Slot /\ x[1] = a
    BY <2>2 DEF Slot
  <2>4. \A w \in Worker : available_side_effects[w] = NoAmounts
    BY <1>1 DEF LogInv, EmptyView
  <2>5. NoAmounts[x] = 0
    BY <2>3 DEF NoAmounts
  <2>6. PICK f : f = Owed(x)
    OBVIOUS
  <2>7. DOMAIN f = Worker /\ \A w \in Worker : f[w] = 1 .. (0 - 0)
    BY <2>4, <2>5, <2>6 DEF Owed
  <2>8. \A w \in DOMAIN f : f[w] = {}
    BY <2>7
  <2>9. Cardinality(Cells(f)) = 0
    BY <2>8, CellsEmpty
  <2>10. available[x] \in Int
    BY <2>3 DEF TInv, TypeOK
  <2>11. Known(a)
    BY <2>1, <2>2, <2>3, <2>6, <2>9, <2>10 DEF LogInv, BalancesKnown
  <2> QED
    BY <1>2, <2>11
<1> QED
  BY <1>3, <1>4, <1>5

\* Every account that block production changed is in some worker's
\* modification log when the workers have returned, for every workload and
\* number of worker threads: what failing transactions took from an account
\* they do not log has been returned to it.  Code: log_modified_accounts,
\* called on success only, and the unwinding of the buffered views.
THEOREM ModLogCorrect == Spec => []ModLogComplete
<1>1. Init => NoOverdraft
  <2>1. \A x \in Slot : NoAmounts[x] = 0
    BY DEF NoAmounts
  <2> QED
    BY <2>1, ConstantAssumption DEF Init, NoOverdraft
<1>2. Init => TInv /\ NoOverdraft /\ ResInv /\ LogInv
  BY <1>1, TypeInit, ResInit, LogInit
<1>3. TInv /\ NoOverdraft /\ ResInv /\ LogInv /\ [Next]_vars
        => (TInv /\ NoOverdraft /\ ResInv /\ LogInv)'
  BY TypeInductive, SolventInductive, ResInductive, LogInductive
<1>4. Spec => [](TInv /\ NoOverdraft /\ ResInv /\ LogInv)
  BY <1>2, <1>3, PTL DEF Spec
<1> QED
  BY <1>4, LogImplies, PTL
=============================================================================
