--------------------------- MODULE TxRefinement ---------------------------
(***************************************************************************)
(* Concurrent speculative processing implements the atomic ledger.  A      *)
(* transaction takes effect when its last operation succeeds (pc becomes   *)
(* "commit"); what is still to be flushed or given back at any moment is   *)
(* accounted for by the mapping.                                           *)
(***************************************************************************)
EXTENDS TxProcessing, Counting

Committing(w) == pc[w] = "commit"
Speculating(w) == cur_tx[w] # NoTx /\ pc[w] # "commit"

\* What worker w has yet to add to slot x of the shared balances: withdrawals
\* that may still be returned or, once its transaction takes effect, credits
\* that are not flushed yet.
Pending(w, x) ==
  IF Committing(w)
  THEN available_buffer[w][x]
         + (IF x[1] \in new_accounts[w] THEN new_balance[w][x] ELSE 0)
  ELSE 0 - available_side_effects[w][x]

\* The units of slot x that are pending, and those in published new accounts.
PendingUnits(x) == [w \in Worker |-> 1 .. Pending(w, x)]
NewUnits(x) ==
  [e \in uncommitted_db |-> 1 .. (IF e.id = x[1] THEN e.balance[x[2]] ELSE 0)]

\* Shared balance, plus what is pending, plus what new accounts hold.
LedgerBalance ==
  [x \in Slot |-> available[x] + Cardinality(Cells(PendingUnits(x)))
                  + Cardinality(Cells(NewUnits(x)))]

LedgerCreated ==
  reserved_account_ids \
    UNION {new_accounts[w] : w \in {v \in Worker : ~Committing(v)}}

SeqNumUsable(t) ==
  /\ Tx[t].sequenceNumber > LastCommittedId[Tx[t].sourceAccount]
  /\ seq_num_in_range(t)

\* The sequence number behind bit o of account a (seq_num_offset inverted).
SeqNumOf(a, o) == LastCommittedId[a] + (o + 1) * MAX_OPS_PER_TX

\* The bits of the shared vectors, less those held speculatively.
LedgerUsed ==
  (UNION {{<<a, SeqNumOf(a, o)>> : o \in sequence_number_vec[a]} : a \in Account})
    \ {<<Source(w), Cur(w).sequenceNumber>> : w \in
         {v \in Worker : Speculating(v) /\ pc[v] # "reserve"}}

LedgerCancelled ==
  marked_for_deletion \
    UNION {{cancel_key(cur_tx[w], i) : i \in {j \in CompletedOps(w) :
                                                IsCancel(cur_tx[w], j)}} :
           w \in {v \in Worker : Speculating(v)}}

LedgerOffers ==
  (uncommitted_offers \cup UNION {new_offers[w] : w \in Worker}) \
    UNION {{make_offer(cur_tx[w], i) : i \in DOMAIN Cur(w).operations} :
           w \in {v \in Worker : Speculating(v) /\ pc[v] # "reserve"}}

LedgerOutcome ==
  [t \in TxId |->
     IF status[t] = "SUCCESS" \/ \E w \in Worker : cur_tx[w] = t /\ Committing(w)
     THEN "committed"
     ELSE IF status[t] \in {"QUEUED", "RUNNING"} THEN "open" ELSE "left out"]

Ledger == INSTANCE AtomicLedger WITH
  Fee <- fee_required, SeqNumUsable <- SeqNumUsable,
  balance <- LedgerBalance, created <- LedgerCreated, used <- LedgerUsed,
  cancelled <- LedgerCancelled, offers <- LedgerOffers,
  outcome <- LedgerOutcome

\* Every interleaving of the workers is equivalent to some sequential order of
\* whole transactions in which each committed one could be paid for and each
\* refused one did nothing.  Code: process_transaction over
\* BufferedMemoryDatabaseView, with all its failure paths.
ImplementsLedger == Ledger!Spec

(***************************************************************************)
(* What the block as a whole amounts to.                                   *)
(***************************************************************************)
InBlock == {t \in TxId : status[t] = "SUCCESS"}

\* The parts of a transaction: its fee, as part 0, and its operations.
Parts(t) == {t} \X (0 .. Len(Tx[t].operations))

\* What part c of a committed transaction takes from slot x, and gives to it.
Takes(c, x) ==
  LET src == Tx[c[1]].sourceAccount
      op == Tx[c[1]].operations[c[2]]
  IN IF c[2] = 0 THEN (IF x = <<src, NATIVE_ASSET>> THEN fee_required(c[1]) ELSE 0)
     ELSE IF \/ op.type = "CREATE_ACCOUNT" /\ x = <<src, NATIVE_ASSET>>
             \/ op.type \in {"PAYMENT", "CREATE_SELL_OFFER"} /\ x = <<src, op.asset>>
     THEN op.amount ELSE 0

Gives(c, x) ==
  LET src == Tx[c[1]].sourceAccount
      op == Tx[c[1]].operations[c[2]]
  IN IF c[2] = 0 THEN 0
     ELSE IF \/ op.type = "CREATE_ACCOUNT" /\ x = <<op.account, NATIVE_ASSET>>
             \/ op.type = "PAYMENT" /\ x = <<op.account, op.asset>>
             \/ op.type = "MONEY_PRINTER" /\ x = <<src, op.asset>>
     THEN op.amount
     ELSE IF op.type = "CANCEL_SELL_OFFER" /\ x = <<src, op.asset>>
     THEN RestingOffer[cancel_key(c[1], c[2])].amount
     ELSE 0

\* What the parts P take from slot x together, and give to it.
Taken(P, x) == Cardinality(Cells([c \in P |-> 1 .. Takes(c, x)]))
Given(P, x) == Cardinality(Cells([c \in P |-> 1 .. Gives(c, x)]))

PartsOf(T) == UNION {Parts(t) : t \in T}

OpsInBlock(type) ==
  {c \in InBlock \X (1 .. MAX_OPS_PER_TX) :
     c[2] \in DOMAIN Tx[c[1]].operations /\ Tx[c[1]].operations[c[2]].type = type}

\* When the workers have returned, shared state holds exactly the effects of
\* the transactions in the block: every balance, every offer, every mark, every
\* reserved id and sequence number.  A failed or retried transaction left
\* nothing behind, and nothing committed was lost.
\* Code: commit and unwind of BufferedMemoryDatabaseView, unwind_transaction.
OnlyCommittedEffects ==
  phase = "done" =>
    /\ \A x \in Slot :
         available[x] + Cardinality(Cells(NewUnits(x))) + Taken(PartsOf(InBlock), x)
         = InitAvailable[x] + Given(PartsOf(InBlock), x)
    /\ uncommitted_offers =
         {make_offer(c[1], c[2]) : c \in OpsInBlock("CREATE_SELL_OFFER")}
    /\ marked_for_deletion =
         {cancel_key(c[1], c[2]) : c \in OpsInBlock("CANCEL_SELL_OFFER")}
    /\ {e.id : e \in uncommitted_db} =
         {Tx[c[1]].operations[c[2]].account : c \in OpsInBlock("CREATE_ACCOUNT")}
    /\ reserved_account_ids = {e.id : e \in uncommitted_db}
    /\ \A a \in Account :
         sequence_number_vec[a] =
           {seq_num_offset(t) : t \in {u \in InBlock : Tx[u].sourceAccount = a}}
=============================================================================
