-------------------------- MODULE MCTxProcessing --------------------------
(***************************************************************************)
(* Small instances of TxProcessing for TLC: three accounts, two assets and *)
(* workloads in which transactions compete for balances, sequence numbers, *)
(* account ids and resting offers.                                         *)
(***************************************************************************)
EXTENDS TxRefinement, TLC

MCAccount == {"alice", "bob", "carol"}
MCExisting == {"alice", "bob"}
MCAsset == {"N", "U"}

\* alice's resting offer sells 2 U under offer id 1.
MCRestingOffer ==
  (<<"alice", 1>> :> [owner |-> "alice", offerId |-> 1, sellAsset |-> "U",
                      amount |-> 2])

MCInitAvailable ==
  [x \in MCAccount \X MCAsset |->
     CASE x = <<"alice", "N">> -> 10
       [] x = <<"alice", "U">> -> 3
       [] x = <<"bob", "N">> -> 4
       [] OTHER -> 0]

MCLastCommittedId == [a \in MCAccount |-> IF a = "alice" THEN 4 ELSE 0]

Basic == [account |-> "bob", asset |-> "N", amount |-> 0, offerId |-> 0,
          goodCategory |-> TRUE, goodPrice |-> TRUE, type |-> "PAYMENT"]
Payment(a, s, n) == [Basic EXCEPT !.account = a, !.asset = s, !.amount = n]
NewAccount(a, n) == [Basic EXCEPT !.type = "CREATE_ACCOUNT", !.account = a,
                                  !.amount = n]
Sell(s, n) == [Basic EXCEPT !.type = "CREATE_SELL_OFFER", !.asset = s,
                            !.amount = n]
Cancel(id) == [Basic EXCEPT !.type = "CANCEL_SELL_OFFER", !.asset = "U",
                            !.offerId = id]
Mint(s, n) == [Basic EXCEPT !.type = "MONEY_PRINTER", !.asset = s, !.amount = n]

T(a, seq, ops) == [sourceAccount |-> a, sequenceNumber |-> seq, maxFee |-> 9,
                   goodSignature |-> TRUE, operations |-> ops]

(***************************************************************************)
(* t1 and t3 share a sequence number, t1 and t2 an account id to create,   *)
(* t3, t4 and t5 an offer to cancel; t3 always fails after its             *)
(* cancellation, t2 can pay only with what t1 sends, t4 can escrow only    *)
(* what its own cancellation refunds, t5 spends what it mints.             *)
(* The r's cover every early return of process_transaction and the f's     *)
(* those of the operations, after an operation that must be undone; p1 and *)
(* fc pay from what their own buffer holds.                                *)
(***************************************************************************)
MCTx ==
  [t1 |-> T("alice", 8, <<Payment("bob", "N", 3), NewAccount("carol", 2)>>),
   t2 |-> T("bob", 4, <<NewAccount("carol", 2), Payment("carol", "N", 1)>>),
   t3 |-> T("alice", 8, <<Cancel(1), Payment("bob", "U", 9)>>),
   t4 |-> T("alice", 12, <<Cancel(1), Sell("U", 5)>>),
   t5 |-> T("alice", 12, <<Mint("U", 2), Payment("bob", "U", 4), Cancel(1)>>),
   r1 |-> T("alice", 9, <<>>),
   r2 |-> [T("alice", 8, <<>>) EXCEPT !.maxFee = 0],
   r3 |-> T("carol", 4, <<>>),
   r4 |-> [T("alice", 8, <<>>) EXCEPT !.goodSignature = FALSE],
   r5 |-> T("alice", 4, <<>>),
   r6 |-> T("bob", 12, <<>>),
   r7 |-> T("bob", 4, <<>>),
   f1 |-> T("alice", 8, <<Sell("U", 1), Mint("U", -1)>>),
   f2 |-> T("alice", 8, <<Cancel(1), [Sell("U", 1) EXCEPT !.goodCategory = FALSE]>>),
   f3 |-> T("alice", 8, <<NewAccount("carol", 2), [Sell("U", 1) EXCEPT !.goodPrice = FALSE]>>),
   f4 |-> T("alice", 8, <<Payment("bob", "U", 1), Sell("U", 0)>>),
   f5 |-> T("alice", 8, <<Sell("U", 3), Sell("U", 1)>>),
   f6 |-> T("alice", 12, <<Cancel(1), Payment("carol", "N", 1)>>),
   f7 |-> T("alice", 8, <<Cancel(1), Sell("U", 4), NewAccount("bob", 2)>>),
   f8 |-> T("alice", 8, <<NewAccount("carol", 3), NewAccount("carol", 1)>>),
   f9 |-> T("alice", 8, <<Mint("N", 9), NewAccount("carol", 10)>>),
   fa |-> T("bob", 4, <<Mint("N", 3), Payment("alice", "N", 5), Cancel(1)>>),
   fb |-> T("alice", 12, <<Payment("bob", "N", 2), Payment("bob", "N", 10)>>),
   fc |-> T("bob", 4, <<Mint("U", 3), Payment("alice", "U", 2), Cancel(2)>>),
   p1 |-> T("bob", 4, <<Mint("U", 3), Payment("alice", "U", 2)>>)]

MCTxId == DOMAIN MCTx

\* Transactions that compete pairwise; and every other transaction beside
\* one that competes with it.
Mempools ==
  {{"t1", "t2", "t3", "t4"}, {"t2", "t3", "t5"}, {"t4", "t5"}}
    \cup {{"t1", u} : u \in DOMAIN MCTx}
    \cup {{"t3", "f6"}, {"t4", "f2"}, {"t5", "f1"}, {"t2", "fa"}, {"t2", "f3"}}
=============================================================================
