--------------------------- MODULE MCBlockSpace ---------------------------
(***************************************************************************)
(* The threads that build a block, those that validate one and those that  *)
(* filter one: a behaviour is one of the three, the others at their end.   *)
(*                                                                         *)
(* Mempools with chunks larger than, equal to and smaller than the block,  *)
(* empty chunks (chunkify_and_add_to_mempool_buffer adds one whenever the  *)
(* number of transactions is a multiple of the chunk size), and none.      *)
(*                                                                         *)
(* Two accounts and a third to be created; transactions that compete for   *)
(* balances, sequence numbers, an account id and an offer to cancel, and   *)
(* one for every check that refuses a transaction.  The filter gets blocks *)
(* of three transactions, with a fourth account that nobody has.           *)
(***************************************************************************)
EXTENDS BlockSpace, Validation, Filtering

MCChunkSizes == {<<>>, <<2, 2, 2, 2>>, <<1, 0, 3, 1>>, <<3, 3, 1>>}

Basic == [type |-> "PAYMENT", account |-> 2, asset |-> "N", amount |-> 0, offerId |-> 0,
          buy |-> "N", key |-> 0, goodCategory |-> TRUE, goodPrice |-> TRUE]
Pay(a, x, n) == [Basic EXCEPT !.account = a, !.asset = x, !.amount = n]
NewAccount(a, n) == [Basic EXCEPT !.type = "CREATE_ACCOUNT", !.account = a, !.amount = n]
Sell(n, k) == [Basic EXCEPT !.type = "CREATE_SELL_OFFER", !.asset = "U", !.amount = n, !.key = k]
Cancel(id) == [Basic EXCEPT !.type = "CANCEL_SELL_OFFER", !.asset = "U", !.offerId = id]
Mint(x, n) == [Basic EXCEPT !.type = "MONEY_PRINTER", !.asset = x, !.amount = n]

T(a, s, ops) == [sourceAccount |-> a, sequenceNumber |-> s, maxFee |-> 9,
                 goodSignature |-> TRUE, operations |-> ops]

(***************************************************************************)
(* a and d overspend together; a and e create the same account; b, e and m *)
(* share a sequence number; c and f cancel the same offer; b's offer       *)
(* clears at once, c's rests at the threshold; m overflows a balance, and  *)
(* f and m together wrap one round.                                        *)
(***************************************************************************)
MCTx ==
  [a |-> T(1, 4, <<Pay(2, "N", 3), NewAccount(3, 2)>>),
   b |-> T(2, 4, <<Sell(2, 1), Pay(1, "N", 2)>>),
   c |-> T(2, 8, <<Cancel(1), Sell(3, 5)>>),
   d |-> T(1, 8, <<Pay(2, "N", 5)>>),
   e |-> T(2, 4, <<NewAccount(3, 2), Pay(3, "N", 1)>>),
   f |-> T(2, 12, <<Cancel(1), Mint("U", 15)>>),
   m |-> T(2, 4, <<Mint("U", 15)>>),
   x1 |-> [T(1, 4, <<>>) EXCEPT !.goodSignature = FALSE],
   x2 |-> [T(1, 4, <<>>) EXCEPT !.maxFee = 0],
   x3 |-> T(1, 5, <<>>),
   x4 |-> T(3, 4, <<>>),
   x5 |-> T(1, 16, <<>>),
   x6 |-> T(1, 4, <<Pay(3, "N", 1)>>),
   x7 |-> T(1, 4, <<NewAccount(3, 1)>>),
   x8 |-> T(1, 4, <<NewAccount(3, 10)>>),
   x9 |-> T(1, 4, <<NewAccount(2, 2)>>),
   y1 |-> T(1, 4, <<Sell(0, 1)>>),
   y2 |-> T(1, 4, <<[Sell(1, 1) EXCEPT !.goodPrice = FALSE]>>),
   y3 |-> T(1, 4, <<Cancel(1)>>),
   y4 |-> T(1, 4, <<Mint("N", -1)>>),
   y5 |-> T(1, 4, <<Pay(2, "N", 0)>>),
   y6 |-> T(2, 4, <<[Cancel(1) EXCEPT !.asset = "N"]>>)]

MCTxId == DOMAIN MCTx
Contenders == {"a", "b", "c", "d", "e", "f", "m"}

MCInitAvailable ==
  [s \in Account \X Asset |->
     CASE s = <<1, "N">> -> 9
       [] s = <<2, "N">> -> 3
       [] s = <<2, "U">> -> 2
       [] OTHER -> 0]

MCRestingOffer == [k \in {<<2, 1>>} |-> [owner |-> 2, offerId |-> 1, sellAsset |-> "U", amount |-> 2]]
MCLastCommittedId == [a \in Account |-> 0]
MCThresholdKey == [x \in Asset |-> IF x = "U" THEN 5 ELSE NullKey]
MCPrices == [x \in Asset |-> IF x = "U" THEN 2 ELSE 1]

\* Every transaction alone, every two contenders, some threes, and items of
\* two transactions.
MCForeignBlocks ==
  {<<>>} \cup {<< <<t>> >> : t \in MCTxId}
  \cup {<< <<t>>, <<u>> >> : t, u \in Contenders}
  \cup {<< <<t, u>>, <<"d">> >> : t, u \in {"a", "x1", "b"}}
  \cup {<< <<t>>, <<u>>, <<v>> >> : t \in {"a", "d"}, u \in {"b", "e"}, v \in {"c", "d", "f"}}

(***************************************************************************)
(* For the filter: a's first two transactions take more than it has, its   *)
(* second and third share a sequence number; one of b's overflows a        *)
(* requirement, one cancels an offer twice; three create the account "n".  *)
(***************************************************************************)
Asks(type, x, n) == [type |-> type, asset |-> x, amount |-> n]
Creates(n) == [type |-> "CREATE_ACCOUNT", id |-> "n", amount |-> n]
Cancels(id) == [type |-> "CANCEL_SELL_OFFER", id |-> id]
F(a, s, fee, ops) == [src |-> a, seq |-> s, fee |-> fee, ops |-> ops]
FilterTxs ==
  {F("a", 1, 1, <<Asks("PAYMENT", 1, 1)>>),
   F("a", 2, 1, <<Asks("PAYMENT", 1, 2)>>),
   F("a", 2, 2, <<Creates(1)>>),
   F("a", 3, 0, <<Creates(1), Asks("CREATE_SELL_OFFER", 1, 1)>>),
   F("b", 2, 0, <<Asks("PAYMENT", 0, 7), Asks("PAYMENT", 0, 7)>>),
   F("b", 3, 0, <<Cancels(1), Cancels(1), Creates(0)>>),
   F("b", 2, 1, <<Creates(0), [type |-> "MONEY_PRINTER"]>>),
   F("c", 2, 0, <<Creates(0), Creates(0)>>),
   F("x", 2, 0, <<>>)}
MCFilterBlocks == [1..3 -> FilterTxs]
MCHoldings == [a \in {"a", "b", "c"} |-> [x \in 0..1 |-> 2]]

NothingToBuild == Init /\ chunk_size = <<>>

NothingToValidate ==
  Untouched /\ origin = "anyone" /\ block = <<>> /\ stage = "done" /\ verdict = "accepted"

NothingToFilter ==
  /\ fpc = "done" /\ candidates = <<>> /\ untaken = {} /\ unjudged = {}
  /\ local = [t \in FilterThreads |-> [a \in FilterAccounts |-> NoEntry]]
  /\ entries = [a \in FilterAccounts |-> NoEntry]
  /\ creators = [id \in NewIds |-> 0]

MCInit ==
  \/ Init /\ NothingToValidate /\ NothingToFilter
  \/ NothingToBuild /\ validation_Init /\ NothingToFilter
  \/ NothingToBuild /\ NothingToValidate /\ filter_Init

MCNext ==
  \/ Next /\ UNCHANGED <<validation_vars, filter_vars>>
  \/ validation_Next /\ UNCHANGED <<vars, filter_vars>>
  \/ filter_Next /\ UNCHANGED <<vars, validation_vars>>

MCSpec == MCInit /\ [][MCNext]_<<vars, validation_vars, filter_vars>> /\ validation_Fairness
=============================================================================
