---------------------------- MODULE MCOrderbook ----------------------------
(***************************************************************************)
(* One orderbook over several blocks, or the orderbooks of one block with  *)
(* their prices and amounts: a behaviour is one of the two.                *)
(*                                                                         *)
(* Two assets.  Offers of asset 0 at two limit prices and of asset 1 by    *)
(* two owners at one limit price; prices that are equal, that leave every  *)
(* offer of asset 1 out of the money, that divide with a remainder, and    *)
(* whose ratio is larger than a word.                                      *)
(***************************************************************************)
EXTENDS Orderbook, Market

OfferAt(p, owner) == <<write_price_big_endian(p), owner>>
OffersOf(keys, amounts) == UNION {[S -> amounts] : S \in SUBSET keys}
MCBooks ==
  {[c \in Categories |-> IF c.sell = 0 THEN x ELSE y] :
     x \in OffersOf({OfferAt(4, 1), OfferAt(8, 2)}, {1, 3}),
     y \in OffersOf({OfferAt(8, 1), OfferAt(8, 2)}, {3})}

MCStartPrices == {<<8, 8>>, <<12, 30>>, <<12, 8>>, <<32, 1>>}
ByAsset(S) == {[a \in Assets |-> p[a + 1]] : p \in S}
MCPrices == ByAsset(MCStartPrices)
MCRelativizers ==
  {[use_volume |-> FALSE, use_dynamic |-> d, volume |-> [a \in Assets |-> 1]] : d \in BOOLEAN}
  \cup
  {[use_volume |-> TRUE, use_dynamic |-> TRUE,
    volume |-> [a \in Assets |-> IF a = 0 THEN MaxRelativizer ELSE 1]]}

\* No market, while the orderbook moves.
NoMarket ==
  /\ mpc = "none" /\ input = <<>> /\ book = <<>> /\ vbook = <<>> /\ search_state = <<>>
  /\ params = <<>> /\ header = <<>> /\ tally = <<>> /\ vtally = <<>> /\ todo = {}

\* The last block of the bound is written, or what follows is an input that
\* Allow does not name.
OrderbookEnds ==
  /\ mpc = "none"
  /\ \/ pc = "idle" /\ persisted = MaxBlock
     \/ pc = "fail" /\ ~ TopThunk.uncommitted_offers_vec \subseteq rollback_marks
     \/ pc = "idle" /\ last_committed = MaxBlock
        /\ \A n \in (persisted + 1)..MaxBlock : ~BatchAllowed(UpTo(n))
  /\ UNCHANGED <<vars, market_vars>>
MarketEnds == mpc \in {"accepted", "rejected", "threw", "unsound"} /\ UNCHANGED <<vars, market_vars>>

MCInit == Init /\ (NoMarket \/ market_Init)
MCNext ==
  \/ mpc = "none" /\ Next /\ UNCHANGED market_vars
  \/ market_Next /\ UNCHANGED vars
  \/ OrderbookEnds \/ MarketEnds
MCSpec == MCInit /\ [][MCNext]_<<vars, market_vars>>
=============================================================================
