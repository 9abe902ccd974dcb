----------------------------- MODULE Filtering -----------------------------
(***************************************************************************)
(* The filter of a whole block's transactions (filtering/filter_log.cc and *)
(* account_filter_entry.cc).  Threads sort the transactions by account,    *)
(* each into a trie of its own; the tries are merged; then every           *)
(* account is judged by itself: its transactions may not ask for more than *)
(* it has, nor use a sequence number twice, and no account may be created  *)
(* twice by the block.                                                     *)
(*                                                                         *)
(* A transaction is [src, seq, fee, ops], an operation [type, asset,       *)
(* amount] or [type, id].  Asset 0 is the native one.                      *)
(***************************************************************************)
EXTENDS Integers, FiniteSets, SequencesExt

CONSTANTS
  FilterThreads,  \* threads of the parallel_for
  FilterBlocks,   \* blocks, sequences of transactions, to try
  Holdings,       \* accounts that exist, with their balance of every asset
  LastSeq,        \* their last committed sequence number
  Nobody,         \* an account that does not exist
  NewIds,         \* ids of accounts that a block may create
  MaxAmount       \* INT64_MAX

ASSUME FilterAssumption ==
  /\ FilterThreads # {} /\ IsFiniteSet(FilterThreads)
  /\ Nobody \notin DOMAIN Holdings /\ MaxAmount \in Nat /\ <<>> \notin FilterBlocks

VARIABLES
  fpc,       \* add, merge, validate, done, or threw
  candidates, \* the transactions of the block
  untaken,   \* indices no thread has taken yet
  local,     \* every thread's entries
  entries,   \* the merged entries
  unjudged,  \* accounts parallel_apply has still to visit
  creators   \* created_counts

filter_vars == <<fpc, candidates, untaken, local, entries, unjudged, creators>>

FilterAccounts == DOMAIN Holdings \cup {Nobody}
FilterAssets == UNION {DOMAIN Holdings[a] : a \in DOMAIN Holdings}
Unset == -1        \* UINT64_MAX as min_seq_no

NoEntry == [exists |-> FALSE]
NewEntry ==
  [exists |-> TRUE, min_seq |-> Unset, txs |-> <<>>, required |-> [x \in FilterAssets |-> 0],
   cancels |-> {}, bad_duplicate |-> FALSE, invalid_reqs |-> FALSE, account_nexist |-> FALSE,
   overflow |-> FALSE, double_cancel |-> FALSE, checked |-> FALSE]

found_error(e) ==
  e.bad_duplicate \/ e.invalid_reqs \/ e.account_nexist \/ e.overflow \/ e.double_cancel

filter_Init ==
  /\ fpc = "add"
  /\ candidates \in FilterBlocks
  /\ untaken = DOMAIN candidates
  /\ local = [t \in FilterThreads |-> [a \in FilterAccounts |-> NoEntry]]
  /\ entries = [a \in FilterAccounts |-> NoEntry]
  /\ unjudged = {}
  /\ creators = [id \in NewIds |-> 0]

----------------------------------------------------------------------------
(* Sorting the transactions.                                               *)

\* std::map::emplace and merge keep the value that is there.
KeepFirst(f, g) == [s \in DOMAIN f \cup DOMAIN g |-> IF s \in DOMAIN f THEN f[s] ELSE g[s]]

\* Two maps hold different transactions under one sequence number.
Conflict_Unchecked(f, g) == FALSE
Conflict(f, g) == \E s \in DOMAIN f \cap DOMAIN g : f[s] # g[s]

\* AccountFilterEntry::add_tx.
add_tx(e, tx) ==
  IF found_error(e) THEN e
  ELSE IF e.min_seq = Unset /\ tx.src = Nobody
       THEN [e EXCEPT !.checked = TRUE, !.invalid_reqs = TRUE]
  ELSE LET min_seq == IF e.min_seq = Unset THEN LastSeq ELSE e.min_seq
           own == tx.seq :> tx
       IN IF tx.seq <= min_seq THEN [e EXCEPT !.min_seq = min_seq]
          ELSE IF Conflict(e.txs, own)
               THEN [e EXCEPT !.min_seq = min_seq, !.bad_duplicate = TRUE]
          ELSE [e EXCEPT !.min_seq = min_seq, !.txs = KeepFirst(@, own)]

\* A thread puts a transaction of its range into its own trie.
AddTx(t, i) ==
  /\ fpc = "add" /\ i \in untaken
  /\ untaken' = untaken \ {i}
  /\ LET tx == candidates[i]
         e == local[t][tx.src]
     IN local' = [local EXCEPT ![t][tx.src] = add_tx(IF e.exists THEN e ELSE NewEntry, tx)]
  /\ fpc' = IF untaken' = {} THEN "merge" ELSE fpc
  /\ UNCHANGED <<candidates, entries, unjudged, creators>>

\* AccountFilterEntry::merge_in.
Earlier(m, n) == IF m = Unset THEN n ELSE IF n = Unset THEN m ELSE Min({m, n})
merge_in(e, o) ==
  LET m == [e EXCEPT !.min_seq = Earlier(@, o.min_seq),
                     !.bad_duplicate = @ \/ o.bad_duplicate,
                     !.invalid_reqs = @ \/ o.invalid_reqs,
                     !.account_nexist = @ \/ o.account_nexist,
                     !.overflow = @ \/ o.overflow]
  IN IF found_error(m) THEN m
     ELSE [m EXCEPT !.txs = KeepFirst(@, o.txs), !.bad_duplicate = Conflict(e.txs, o.txs)]

\* batch_merge_in: one more thread's trie goes into the common one.
MergeTrie(t) ==
  /\ fpc = "merge" /\ local[t] # [a \in FilterAccounts |-> NoEntry]
  /\ entries' = [a \in FilterAccounts |->
                   IF ~local[t][a].exists THEN entries[a]
                   ELSE IF entries[a].exists THEN merge_in(entries[a], local[t][a])
                   ELSE local[t][a]]
  /\ local' = [local EXCEPT ![t] = [a \in FilterAccounts |-> NoEntry]]
  /\ fpc' = IF \A u \in FilterThreads \ {t} : local[u] = [a \in FilterAccounts |-> NoEntry]
            THEN "validate" ELSE fpc
  /\ unjudged' = {a \in FilterAccounts : entries'[a].exists}
  /\ UNCHANGED <<candidates, untaken, creators>>

----------------------------------------------------------------------------
(* Judging the accounts.                                                   *)

add_req(e, asset, amount) ==
  IF amount < 0 \/ found_error(e) THEN e
  ELSE IF e.required[asset] + amount > MaxAmount
       THEN [e EXCEPT !.required[asset] = MaxAmount, !.overflow = TRUE]
  ELSE [e EXCEPT !.required[asset] = @ + amount]

add_cancel_id(e, id) ==
  IF id \in e.cancels THEN [e EXCEPT !.double_cancel = TRUE]
  ELSE [e EXCEPT !.cancels = @ \cup {id}]

add_op(e, op) ==
  CASE op.type \in {"CREATE_SELL_OFFER", "PAYMENT"} -> add_req(e, op.asset, op.amount)
    [] op.type = "CREATE_ACCOUNT" -> add_req(e, 0, op.amount)
    [] op.type = "CANCEL_SELL_OFFER" -> add_cancel_id(e, op.id)
    [] op.type = "MONEY_PRINTER" -> e

TxsInOrder(e) == LET seqs == SetToSortSeq(DOMAIN e.txs, <) IN [i \in DOMAIN seqs |-> e.txs[seqs[i]]]

\* compute_reqs: what the transactions ask for, in order of sequence number,
\* and the accounts they create.
compute_reqs(e) ==
  FoldLeft(LAMBDA acc, tx : add_req(FoldLeft(add_op, acc, tx.ops), 0, tx.fee), e, TxsInOrder(e))

CreatedBy(tx) == SelectSeq(tx.ops, LAMBDA op : op.type = "CREATE_ACCOUNT")
Creations(txs, id) ==
  Cardinality(UNION {{<<tx, i>> : i \in {j \in DOMAIN CreatedBy(tx) : CreatedBy(tx)[j].id = id}}
                     : tx \in txs})

\* compute_validity of one entry; parallel_apply takes them in any order.  An
\* entry that add_tx found to be of no account is marked as checked already,
\* and the second check throws.
compute_validity(a) ==
  /\ fpc = "validate" /\ a \in unjudged
  /\ unjudged' = unjudged \ {a}
  /\ LET e == entries[a]
         r == compute_reqs(e)
         short == \E x \in FilterAssets : r.required[x] > 0 /\ Holdings[a][x] < r.required[x]
         txs == {e.txs[s] : s \in DOMAIN e.txs}
     IN \/ /\ e.checked
           /\ UNCHANGED <<entries, creators>>
        \/ /\ ~e.checked /\ found_error(e)
           /\ entries' = [entries EXCEPT ![a].checked = TRUE]
           /\ UNCHANGED creators
        \/ /\ ~e.checked /\ ~found_error(e)
           /\ entries' = [entries EXCEPT ![a] = [r EXCEPT !.checked = TRUE, !.invalid_reqs = short]]
           /\ creators' = [id \in DOMAIN creators |-> creators[id] + Creations(txs, id)]
  /\ fpc' = IF entries[a].checked THEN "threw" ELSE IF unjudged' = {} THEN "done" ELSE fpc
  /\ UNCHANGED <<candidates, untaken, local>>

\* check_valid_account.  A double cancellation is an error for found_error,
\* and none here.
check_valid(e) ==
  IF e.bad_duplicate THEN "INVALID_DUPLICATE"
  ELSE IF e.account_nexist THEN "ACCOUNT_NEXIST"
  ELSE IF e.invalid_reqs THEN "MISSING_REQUIREMENT"
  ELSE IF e.overflow THEN "OVERFLOW_REQ"
  ELSE "VALID_HAS_TXS"
check_valid_account(a) == IF entries[a].exists THEN check_valid(entries[a]) ELSE "VALID_NO_TXS"

\* FilterLog::check_valid_tx.
check_valid_tx(tx) ==
  /\ check_valid_account(tx.src) \in {"VALID_NO_TXS", "VALID_HAS_TXS"}
  /\ \A i \in DOMAIN CreatedBy(tx) : creators[CreatedBy(tx)[i].id] \in {0, 1}

filter_Next ==
  \/ \E t \in FilterThreads : MergeTrie(t) \/ \E i \in DOMAIN candidates : AddTx(t, i)
  \/ \E a \in FilterAccounts : compute_validity(a)

filter_Spec == filter_Init /\ [][filter_Next]_filter_vars

----------------------------------------------------------------------------
(* Properties.                                                             *)

\* The transactions of an account that count: those after its last committed
\* sequence number, one that occurs twice in the block only once.
Counted(a) == {candidates[i] : i \in {j \in DOMAIN candidates : candidates[j].src = a /\ candidates[j].seq > LastSeq}}

Asked(tx, x) ==
  LET amount(op) == CASE op.type \in {"CREATE_SELL_OFFER", "PAYMENT"} /\ op.asset = x -> op.amount
                      [] op.type = "CREATE_ACCOUNT" /\ x = 0 -> op.amount
                      [] OTHER -> 0
      positive == MapThenSumSet(LAMBDA i : Max({0, amount(tx.ops[i])}), DOMAIN tx.ops)
  IN positive + IF x = 0 THEN tx.fee ELSE 0

DoubleCancels(a) ==
  LET cancels == UNION {{<<tx, i>> : i \in {j \in DOMAIN tx.ops : tx.ops[j].type = "CANCEL_SELL_OFFER"}}
                        : tx \in Counted(a)}
  IN \E c, d \in cancels : c # d /\ c[1].ops[c[2]].id = d[1].ops[d[2]].id

\* Every account that has transactions is judged as if they had been looked at
\* one after the other.
JudgedExactly ==
  \A a \in DOMAIN Holdings :
    (Counted(a) # {} /\ ~DoubleCancels(a)) =>
      LET clash == \E t, u \in Counted(a) : t # u /\ t.seq = u.seq
          short == \E x \in FilterAssets :
                     MapThenSumSet(LAMBDA tx : Asked(tx, x), Counted(a)) > Holdings[a][x]
      IN check_valid_account(a) = IF clash THEN "INVALID_DUPLICATE"
                                  ELSE IF short THEN "MISSING_REQUIREMENT"
                                  ELSE "VALID_HAS_TXS"

CreatedOnce ==
  LET passed == {tx \in UNION {Counted(a) : a \in FilterAccounts} : check_valid_tx(tx)}
      creates(tx, i, id) == tx.ops[i].type = "CREATE_ACCOUNT" /\ tx.ops[i].id = id
  IN \A id \in DOMAIN creators : \A t, u \in passed :
       \A i \in DOMAIN t.ops, j \in DOMAIN u.ops :
         creates(t, i, id) /\ creates(u, j, id) => t = u /\ i = j

\* Whatever thread took which transaction, and in whatever order the tries
\* were merged, an account that exists and cancels no offer twice is refused
\* exactly if two different transactions share a sequence number or its
\* transactions together ask for more of an asset than it has (add_tx,
\* merge_in, compute_reqs, compute_validity); and the transactions that pass
\* can all be in one block, for no account is created by two of them, or twice
\* by one (log_account_creation, check_valid_tx).
FilterExact == fpc = "done" => JudgedExactly /\ CreatedOnce
============================================================================
