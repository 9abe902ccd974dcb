------------------------------- MODULE Market -------------------------------
(***************************************************************************)
(* One block's market, in the arithmetic of the code: the price index of   *)
(* the orderbooks and the demand they compute from it                      *)
(* (orderbook/orderbook.cc), the rounds of a price search                  *)
(* (price_computation/tatonnement_oracle.cc), the linear program           *)
(* (price_computation/lp_solver.cc), the clearing of offers by the         *)
(* producer, and the check of the block header and the clearing by a       *)
(* validator (orderbook/commitment_checker.cc).                            *)
(*                                                                         *)
(* An orderbook is a function from keys <<minPrice, owner>> to amounts,     *)
(* the price written big-endian.                                           *)
(* The orderbooks, the first prices, the tax and smooth_mult are inputs    *)
(* chosen in the initial state.                                            *)
(***************************************************************************)
EXTENDS PriceArith, FiniteSets, FiniteSetsExt, SequencesExt

CONSTANTS
  NumAssets,     \* number of assets
  Books,         \* orderbooks to try, by pair of assets
  StartPrices,   \* first prices to try
  TaxRates,      \* target tax rates to try, -log2 of the tax
  SmoothMults,   \* values of smooth_mult to try
  Relativizers,  \* use_volume, use_dynamic of the control parameters to try, and
                 \* the volume relativizers of the search
  StepRadix,     \* step_radix of the control parameters
  MinStep,       \* min_step of the control parameters (2^7 in the code)
  MaxRelativizer,\* UINT16_MAX
  LPCheckFreq,   \* rounds between two LP checks (1000 in the code)
  RelativizeFreq,\* rounds between two updates of the relativizers (10)
  NormalizeFreq, \* rounds between two normalizations (1000)
  MaxRounds      \* bound on the rounds of a search

ASSUME MarketAssumption ==
  /\ NumAssets \in Nat \ {0, 1} /\ MaxRounds \in Nat /\ MinStep \in Nat \ {0}
  /\ LPCheckFreq \in Nat \ {0, 1} /\ RelativizeFreq \in Nat \ 0..2
  /\ NormalizeFreq \in Nat \ {0, 1}
  /\ WORD <= StepRadix + PRICE_RADIX /\ StepRadix + PRICE_RADIX <= 3 * WORD

Assets == 0..NumAssets - 1
BookIds == 0..get_num_orderbooks_by_asset_count(NumAssets) - 1
Category(o) == category_from_idx(o, NumAssets)
BooksSelling(a) == {o \in BookIds : Category(o).sell = a}
BooksBuying(a) == {o \in BookIds : Category(o).buy = a}

\* Every offer goes to the orderbook of its pair of assets.
Categories == {c \in [sell : Assets, buy : Assets] : validate_category(c, NumAssets)}
LoadBooks(offers) ==
  [o \in BookIds |-> offers[CHOOSE c \in Categories : category_to_idx(c, NumAssets) = o]]

\* Keys compare byte by byte, the price first.
NullKey == <<write_price_big_endian(0), 0>>
LimitPrice(k) == read_price_big_endian(k[1])
KeyBefore(k, l) ==
  LET x == k[1] \o <<k[2]>>
      y == l[1] \o <<l[2]>>
  IN \E i \in DOMAIN x : x[i] < y[i] /\ \A j \in 1..i - 1 : x[j] = y[j]

Endow(bk, keys) == MapThenSumSet(LAMBDA k : bk[k], keys)
OnlyKeys(bk, keys) == [k \in keys |-> bk[k]]

----------------------------------------------------------------------------
(* The price index of an orderbook.                                        *)

\* generate_metadata_index: an empty entry, then for every limit price, in
\* order, what the offers up to it sell, and that times their prices.
Index(bk) ==
  LET limits == SetToSortSeq({LimitPrice(k) : k \in DOMAIN bk}, <)
      upto(p) == {k \in DOMAIN bk : LimitPrice(k) <= p}
  IN <<[key |-> 0, endow |-> 0, endow_times_price |-> 0]>>
     \o [i \in 1..Len(limits) |->
          [key |-> limits[i], endow |-> Endow(bk, upto(limits[i])),
           endow_times_price |-> MapThenSumSet(LAMBDA k : bk[k] * LimitPrice(k), upto(limits[i]))]]

\* The binary search over positions 1..last of the index that goes right at
\* the middle where goes_right holds.
SearchIndex(last, goes_right) ==
  LET narrow[p \in (1..last) \X (1..last)] ==
        LET mp == (p[1] + p[2]) \div 2
        IN IF p[1] = p[2] THEN p[1]
           ELSE IF goes_right[mp] THEN narrow[<<mp + 1, p[2]>>] ELSE narrow[<<p[1], mp>>]
  IN narrow[<<1, last>>]

\* Positions of the index count from 0 in the code.
At(index, i) == index[i + 1]

NoMetadata == [endow |-> 0, endow_times_price |-> 0]
Metadata(entry) == [endow |-> entry.endow, endow_times_price |-> entry.endow_times_price]

\* A search for price p goes on to the right of an entry at or below p.
PriceReaches_Strict(p, entry) == p > entry.key
PriceReaches(p, entry) == p >= entry.key

\* What the offers with a limit price of at most p sell.
get_metadata(index, p) ==
  LET last == Len(index) - 1
  IN IF last = 0 THEN NoMetadata
     ELSE IF p >= At(index, last).key THEN Metadata(At(index, last))
     ELSE Metadata(At(index, SearchIndex(last, [i \in 1..last |-> PriceReaches(p, At(index, i))]) - 1))

\* The limit prices below which offers trade in full, above which not at all.
get_execution_prices(sell, buy, smooth) ==
  LET upper == divide_prices(sell, buy)
  IN [full |-> IF smooth > 0 THEN smooth_mult(upper, smooth) ELSE upper, partial |-> upper]

get_supply_bounds_AllOffers(index, sell, buy, smooth) ==
  [lower |-> get_metadata(index, get_execution_prices(sell, buy, smooth).full).endow,
   upper |-> At(index, Len(index) - 1).endow]
get_supply_bounds(index, sell, buy, smooth) ==
  LET exec == get_execution_prices(sell, buy, smooth)
  IN [lower |-> get_metadata(index, exec.full).endow,
      upper |-> get_metadata(index, exec.partial).endow]

\* (etp * price) >> PRICE_RADIX in two halves.
wide_multiply_safe(etp, price) ==
  Wide((etp \div 2^WORD) * price * 2^(WORD - PRICE_RADIX))
  + ((etp % 2^WORD) * price) \div 2^PRICE_RADIX

\* calculate_demands_and_supplies_times_prices: the value an orderbook trades
\* at the given prices, or an exception.
VolumeOf(full, partial, sell, buy, smooth) ==
  LET part1 == sell * (partial.endow - full.endow)
      part2 == wide_multiply_safe(partial.endow_times_price - full.endow_times_price, buy)
  IN [ok |-> full.endow_times_price <= partial.endow_times_price /\ (smooth > 0 => part1 >= part2),
      value |-> full.endow * sell + IF smooth > 0 THEN (part1 - part2) * 2^smooth ELSE 0]
TradeVolume(index, sell, buy, smooth) ==
  LET exec == get_execution_prices(sell, buy, smooth)
  IN VolumeOf(get_metadata(index, exec.full), get_metadata(index, exec.partial), sell, buy, smooth)

\* calculate_demands_and_supplies: the same as amounts of the two assets.
AmountsOf(full, partial, sell, buy, smooth) ==
  LET endow == LowWord((partial.endow - full.endow) * 2^smooth)
      etp == Wide((partial.endow_times_price - full.endow_times_price) * 2^smooth)
      sold == wide_multiply_val_by_a_over_b(etp, buy, sell)
      bought == wide_multiply_val_by_a_over_b(endow * PRICE_ONE, sell, buy)
  IN [ok |-> smooth > 0 => endow * PRICE_ONE >= sold /\ bought >= etp,
      sell |-> full.endow * PRICE_ONE + IF smooth > 0 THEN endow * PRICE_ONE - sold ELSE 0,
      buy |-> wide_multiply_val_by_a_over_b(full.endow * PRICE_ONE, sell, buy)
              + IF smooth > 0 THEN bought - etp ELSE 0]
TradeAmounts(index, sell, buy, smooth) ==
  LET exec == get_execution_prices(sell, buy, smooth)
  IN AmountsOf(get_metadata(index, exec.full), get_metadata(index, exec.partial), sell, buy, smooth)

\* The largest smooth_mult with which the given trade of an orderbook agrees;
\* 255 where no offer is left behind.
max_feasible_smooth_mult(index, amount, sell, buy) ==
  LET last == Len(index) - 1
      rate == divide_prices(sell, buy)
      i == SearchIndex(last, [j \in 1..last |-> amount >= At(index, j).endow])
      first == At(index, i).key
      fits(m) == rate - first <= rate \div 2^m
  IN IF last = 0 \/ amount > At(index, last).endow THEN 255
     ELSE IF At(index, i).endow <= amount \/ rate <= first THEN 255
     ELSE CHOOSE m \in 0..WORD : fits(m) /\ ~fits(m + 1)

\* The utility (gain over the limit price, times 2^PRICE_RADIX) of the offers
\* the trade satisfies, and of those in the money it leaves out.
satisfied_and_lost_utility(index, amount, sell, buy) ==
  LET last == Len(index) - 1
      rate == divide_prices(sell, buy)
      in_money == get_metadata(index, rate)
      total == in_money.endow * rate - in_money.endow_times_price
      i == SearchIndex(last, [j \in 1..last |-> amount > At(index, j).endow])
      below == At(index, i - 1)
      satisfied == below.endow * rate - below.endow_times_price
                   + (amount - below.endow) * (rate - At(index, i).key)
  IN IF last = 0 THEN [ok |-> TRUE, satisfied |-> 0, lost |-> 0]
     ELSE IF amount > At(index, last).endow THEN [ok |-> FALSE, satisfied |-> 0, lost |-> 0]
     ELSE IF amount = 0 THEN [ok |-> TRUE, satisfied |-> 0, lost |-> total]
     ELSE [ok |-> TRUE, satisfied |-> sell * satisfied, lost |-> sell * (total - satisfied)]

----------------------------------------------------------------------------
(* State.                                                                  *)

VARIABLES
  mpc,      \* where the block is: start, search, solve, produce, validate, or its end
  input,    \* orderbooks and their indexes, tax, smooth_mult, relativizer settings
  book,     \* the producer's orderbooks
  vbook,    \* the validator's orderbooks, the same before the block
  search_state, \* prices, trial prices, step, supplies and demands of the search
  params,   \* ClearingParams: the supply activated in every orderbook, the tax
  header,   \* the clearing commitments of the block header
  tally,    \* what the producer took from sellers and credited to buyers
  vtally,   \* what the validator did, and the supply it counted
  todo      \* orderbooks not yet cleared

market_vars == <<mpc, input, book, vbook, search_state, params, header, tally, vtally, todo>>

IndexOf(o) == input.index[o]

\* Supplies and demands (times prices) over all orderbooks.
Volume(o, ps) == TradeVolume(IndexOf(o), ps[Category(o).sell], ps[Category(o).buy], input.smooth)
SumVolumes(vol) ==
  [ok |-> \A o \in BookIds : vol[o].ok,
   supply |-> [a \in Assets |-> MapThenSumSet(LAMBDA o : vol[o].value, BooksSelling(a))],
   demand |-> [a \in Assets |-> MapThenSumSet(LAMBDA o : vol[o].value, BooksBuying(a))]]
get_supply_demand(ps) == SumVolumes([o \in BookIds |-> Volume(o, ps)])

NoFlow == [o \in BookIds |-> 0]
NoHeader == [o \in BookIds |-> [supply |-> 0, partial |-> 0, key |-> NullKey, null |-> TRUE]]
NoTally == [taken |-> [a \in Assets |-> 0], paid |-> [a \in Assets |-> 0],
            sold |-> [o \in BookIds |-> <<>>], stats |-> NoFlow]

----------------------------------------------------------------------------
(* The price search: better_grid_search_tatonnement_query.                 *)

\* MultifuncTatonnementObjective: the squared l2 norm of the excess demand.
Objective(sd) == MapThenSumSet(LAMBDA a : (sd.supply[a] - sd.demand[a])^2, Assets)
is_better_than(new, old) == new * 100 <= old * 101

get_trial_price(demand, supply, old_price, step, relativizer) ==
  LET diff == IF demand > supply THEN demand - supply ELSE supply - demand
      delta == safe_multiply_and_drop_lowbits(
                 Wide(step * old_price), Wide(relativizer * diff), StepRadix + PRICE_RADIX)
  IN IF demand > supply THEN impose_price_bounds(old_price + delta)
     ELSE IF delta >= old_price THEN 1 ELSE old_price - delta

set_trial_prices(ps, sd, step, rel) ==
  [a \in Assets |-> get_trial_price(sd.demand[a], sd.supply[a], ps[a], step, rel[a])]

check_clearing(sd) ==
  \A a \in Assets : sd.demand[a] - sd.demand[a] \div 2^input.tax <= sd.supply[a]

\* 1.4 and 0.8 times the step, in 32nds; a product that overflows is dropped.
increment_step(step) == LET up == LowWord(step * 44) \div 32 IN IF up < step THEN step ELSE up
decrement_step(step) == LowWord(step * 25) \div 32

\* Assets traded little move faster: by the ratio to the largest trade, at
\* most MAX_MUL (1000 in the code), where the search is told to.
MAX_MUL == 4
set_relativizers(sd) ==
  LET traded(a) == Smaller(sd.demand[a], sd.supply[a])
      most == Max({traded(a) : a \in Assets})
      base(a) == IF input.use_volume THEN input.volume[a] ELSE 1
      scaled(a) == IF ~input.use_dynamic THEN base(a)
                   ELSE IF traded(a) = 0 \/ most >= MAX_MUL * traded(a) THEN MAX_MUL * base(a)
                   ELSE (most * base(a)) \div traded(a)
  IN [a \in Assets |-> Smaller(scaled(a), MaxRelativizer)]

\* The bits above the largest price that are free.
SpaceToTop(ps) ==
  LET p_max == Max({ps[a] : a \in Assets})
  IN PRICE_BIT_LEN - CHOOSE b \in 0..PRICE_BIT_LEN : 2^b > p_max /\ (b > 0 => 2^(b - 1) <= p_max)

\* More free bits than RoomHigh (10 in the code) and fewer than RoomLow (3) are
\* corrected: half of the bits up, or two bits down.
RoomHigh == 2
RoomLow == 1
normalize_prices(ps) ==
  LET space == SpaceToTop(ps)
  IN IF space > RoomHigh THEN [prices |-> [a \in Assets |-> ps[a] * 2^(space \div 2)], up |-> space \div 2]
     ELSE IF space < RoomLow THEN [prices |-> [a \in Assets |-> ps[a] \div 4], up |-> -2]
     ELSE [prices |-> ps, up |-> 0]

\* The step after a normalization.  A shift left by a negative count is
\* undefined: the result is either lost or shifted by the count modulo WORD.
NormalizedSteps(step, up) ==
  LET shifted == IF up >= 0 THEN {step \div 2^up} ELSE {0, LowWord(step * 2^(WORD + up))}
  IN {Larger(x, MinStep) : x \in shifted}

----------------------------------------------------------------------------
(* The linear program.                                                     *)

\* Amounts in FRACTION bits of every orderbook's supply that the program
\* allows, up to the rounding of the solver's floating point numbers.  Their
\* bounds become doubles, which holds them exactly below 2^53.
Flows(ps, use_lower) ==
  LET bounds(o) == get_supply_bounds(IndexOf(o), ps[Category(o).sell], ps[Category(o).buy],
                                     input.smooth)
      range(o) == from_integral(IF use_lower THEN bounds(o).lower ELSE 0)
                  .. from_integral(bounds(o).upper)
      sell(o) == ps[Category(o).sell]
      buy(o) == sell(o) - sell(o) \div 2^input.tax
      surplus(f, a) ==
        MapThenSumSet(LAMBDA o : sell(o) * (2 * f[o] + 1), BooksSelling(a))
        - MapThenSumSet(LAMBDA o : buy(o) * (2 * f[o] - 1), BooksBuying(a))
      top == Max({from_integral(bounds(o).upper) : o \in BookIds})
  IN {f \in [BookIds -> 0..top] :
        /\ \A o \in BookIds : f[o] \in range(o)
        /\ \A a \in Assets : surplus(f, a) >= 0}

check_feasibility(ps) == Flows(ps, TRUE) # {}

Supplied(f, a) == MapThenSumSet(LAMBDA o : f[o], BooksSelling(a))
Demanded(f, ps, a) ==
  MapThenSumSet(LAMBDA o : wide_multiply_val_by_a_over_b(
                             f[o], ps[Category(o).sell], ps[Category(o).buy]), BooksBuying(a))

\* The lowest tax that clears one asset, or -1 where the code throws.
max_tax_param(supply, demand, target) ==
  IF ceil(supply) >= tax_and_round(demand, target) THEN target
  ELSE IF ceil(supply) >= tax_and_round(demand, target - 1) THEN target - 1
  ELSE LET rate == CHOOSE t \in 0..2 * WORD : /\ (demand - supply) * 2^t <= demand
                                              /\ (demand - supply) * 2^(t + 1) > demand
       IN IF rate < target - 1 THEN -1 ELSE rate

\* ClearingParams::check_clearing, and the validator's check of the header:
\* whole units supplied cover the taxed demand.
SupplyCoversDemand(f, ps, rate) ==
  \A a \in Assets :
    MapThenSumSet(LAMBDA o : ceil(f[o]), BooksSelling(a))
      >= tax_and_round(Demanded(f, ps, a), rate)

\* NormalizationRollingAverage::update_averages: the geometric mean of every
\* asset's average and its volume relative to the largest; -1 is NaN, which a
\* block without trades leaves behind.  AverageOne is RELATIVE_VOLUME_BASEPT.
AverageOne == 4
update_averages(avg, f, ps) ==
  LET volume(a) == Supplied(f, a) * ps[a]
      most == Max({volume(a) : a \in Assets})
      mean == MapThenSumSet(volume, Assets) \div NumAssets
      over(a) == IF volume(a) > 0 THEN volume(a) ELSE mean
      factor(a) == Smaller((AverageOne * most) \div over(a), MaxRelativizer)
      root(x) == CHOOSE r \in 0..x : r * r <= x /\ (r + 1) * (r + 1) > x
  IN [a \in Assets |-> IF avg[a] = -1 \/ over(a) = 0 THEN -1 ELSE root(avg[a] * factor(a))]

\* update_formatted_avgs; the conversion of NaN to an integer may give any.
FormattedAverages(avg) ==
  {v \in [Assets -> {1, MaxRelativizer} \cup {avg[a] : a \in Assets}] :
     \A a \in Assets : avg[a] >= 0 => v[a] = Smaller(Larger(avg[a], 1), MaxRelativizer)}

----------------------------------------------------------------------------
(* Actions.                                                                *)

\* The volume relativizers of the first block are read uninitialized: any
\* value of Relativizers.
market_Init ==
  /\ mpc = "start"
  /\ \E b \in Books, t \in TaxRates, m \in SmoothMults, r \in Relativizers :
       input = [books |-> LoadBooks(b), index |-> [o \in BookIds |-> Index(LoadBooks(b)[o])],
                tax |-> t, smooth |-> m, use_volume |-> r.use_volume,
                use_dynamic |-> r.use_dynamic, volume |-> r.volume]
  /\ book = input.books /\ vbook = input.books
  /\ \E ps \in StartPrices : search_state = [prices |-> ps]
  /\ params = [flow |-> NoFlow, tax |-> input.tax, averages |-> [a \in Assets |-> AverageOne],
               volume |-> input.volume, lower |-> FALSE]
  /\ header = NoHeader
  /\ tally = NoTally /\ vtally = NoTally
  /\ todo = {}

\* The demand at the first prices is the reference of the search.
StartSearch ==
  /\ mpc = "start"
  /\ mpc' = "search"
  /\ LET ps == search_state.prices
         sd == get_supply_demand(ps)
     IN search_state' = [prices |-> ps, trial |-> ps, step |-> MinStep, round |-> 0, sd |-> sd,
                         objective |-> Objective(sd), clearing |-> FALSE, force |-> 0,
                         rel |-> input.volume, lower |-> TRUE]
  /\ UNCHANGED <<input, book, vbook, params, header, tally, vtally, todo>>

LPClears == /\ search_state.round % LPCheckFreq = LPCheckFreq - 1
            /\ check_feasibility(search_state.trial)

\* A step is taken if it does not worsen the objective, or has to be taken.
Accepts(s, sd, reference, clears, force) ==
  is_better_than(Objective(sd), reference) \/ s.step < MinStep \/ clears \/ force > 0

\* With the relativizers, the reference is renewed: from the supplies and
\* demands of the last trial, taken or not.
SearchRound ==
  /\ mpc = "search" /\ search_state.round < MaxRounds
  /\ ~search_state.clearing /\ ~LPClears
  /\ LET s == search_state
         r == s.round + 1
         renew == r % RelativizeFreq = RelativizeFreq - 1
         rel == IF renew THEN set_relativizers(s.sd) ELSE s.rel
         reference == IF renew THEN Objective(get_supply_demand(s.trial)) ELSE s.objective
         trial == set_trial_prices(s.prices, s.sd, s.step, rel)
         force == IF trial = s.prices THEN 10 ELSE s.force
         sd == get_supply_demand(trial)
         clears == check_clearing(sd)
         accepts == Accepts(s, sd, reference, clears, force)
         prices == IF accepts THEN trial ELSE s.prices
         step == IF accepts THEN increment_step(s.step) ELSE decrement_step(s.step)
         norm == IF r % NormalizeFreq = 0 THEN normalize_prices(prices)
                 ELSE [prices |-> prices, up |-> 0]
     IN \E next \in IF norm.up = 0 THEN {step} ELSE NormalizedSteps(step, norm.up) :
          search_state' =
            [s EXCEPT !.prices = norm.prices, !.trial = trial, !.step = next, !.round = r,
                      !.sd = IF accepts THEN sd ELSE @,
                      !.objective = IF accepts \/ norm.up # 0 THEN Objective(sd) ELSE reference,
                      !.clearing = clears, !.rel = rel,
                      !.force = IF accepts /\ force > 0 THEN force - 1 ELSE force]
  /\ UNCHANGED <<mpc, input, book, vbook, params, header, tally, vtally, todo>>

\* The market clears, or the program is feasible, at the trial prices.
SearchClears ==
  /\ mpc = "search" /\ (search_state.clearing \/ LPClears)
  /\ mpc' = "solve"
  /\ search_state' = [search_state EXCEPT !.prices = search_state.trial, !.lower = TRUE]
  /\ UNCHANGED <<input, book, vbook, params, header, tally, vtally, todo>>

\* The search is stopped from outside, and never right after a normalization.
SearchTimesOut ==
  /\ mpc = "search" /\ search_state.round > 0
  /\ \A a \in Assets : search_state.prices[a] # 0
  /\ mpc' = "solve"
  /\ search_state' = [search_state EXCEPT !.lower = FALSE]
  /\ UNCHANGED <<input, book, vbook, params, header, tally, vtally, todo>>

\* LPSolver::solve, without the lower bounds if it is infeasible with them;
\* then the sanity check of its result.
SolveMarket ==
  /\ mpc = "solve"
  /\ LET ps == search_state.prices
         lower == search_state.lower /\ check_feasibility(ps)
     IN \E f \in Flows(ps, lower) :
          LET rates == {max_tax_param(Supplied(f, a), Demanded(f, ps, a), input.tax) : a \in Assets}
              rate == Min(rates)
              sound == rate >= 0 /\ SupplyCoversDemand(f, ps, rate)
              averages == update_averages(params.averages, f, ps)
          IN /\ \E v \in FormattedAverages(averages) :
                  params' = [flow |-> f, tax |-> rate, averages |-> averages, volume |-> v,
                             lower |-> lower]
             /\ mpc' = IF sound THEN "produce" ELSE "unsound"
  /\ todo' = BookIds
  /\ UNCHANGED <<input, book, vbook, search_state, header, tally, vtally>>

\* What the buyer of a fully or partially cleared offer is credited.
Credited_Untaxed(v, o, ps, rate) ==
  floor(wide_multiply_val_by_a_over_b(v, ps[Category(o).sell], ps[Category(o).buy]))
Credited(v, o, ps, rate) ==
  tax_and_round(wide_multiply_val_by_a_over_b(v, ps[Category(o).sell], ps[Category(o).buy]), rate)

\* endow_split: the offers of lowest key that sell at most the given amount.
endow_split(bk, amount) ==
  {k \in DOMAIN bk : Endow(bk, {l \in DOMAIN bk : l = k \/ KeyBefore(l, k)}) <= amount}

Lowest(keys) == CHOOSE k \in keys : \A l \in keys : l = k \/ KeyBefore(k, l)

\* A tally after the offers full of an orderbook, and part of one more, sold.
Traded(led, o, bk, full, part, ps, rate) ==
  LET cat == Category(o)
      sells(k) == IF k \in full THEN bk[k] ELSE ceil(part[2])
      keys == full \cup IF part = <<>> THEN {} ELSE {part[1]}
      credit(k) == Credited(IF k \in full THEN from_integral(bk[k]) ELSE part[2], o, ps, rate)
  IN [led EXCEPT !.taken[cat.sell] = @ + MapThenSumSet(sells, keys),
                 !.paid[cat.buy] = @ + MapThenSumSet(credit, keys),
                 !.sold[o] = [k \in keys |-> sells(k)]]

\* An orderbook without the offers full and what was sold of one more.
Remaining(bk, full, key, sold) ==
  LET kept == {k \in DOMAIN bk \ full : k # key \/ bk[k] > sold}
  IN [k \in kept |-> IF k = key THEN bk[k] - sold ELSE bk[k]]

\* process_clear_offers: clear whole offers up to the activated supply, then
\* part of the next one, and commit to both in the header.
ClearForProduction(o) ==
  /\ mpc = "produce" /\ o \in todo
  /\ LET bk == book[o]
         ps == search_state.prices
         flow == params.flow[o]
         full == endow_split(bk, floor(flow))
         rest == DOMAIN bk \ full
         left == flow - from_integral(Endow(bk, full))
         bad_price == \E k \in full :
                        a_over_b_lt_c(ps[Category(o).sell], ps[Category(o).buy], LimitPrice(k))
         key == IF rest = {} THEN NullKey ELSE Lowest(rest)
         throws == \/ bad_price
                   \/ rest = {} /\ left # 0
                   \/ rest # {} /\ bk[key] < ceil(left)
         part == IF rest = {} THEN <<>> ELSE <<key, left>>
     IN IF throws
        THEN mpc' = "threw" /\ UNCHANGED <<book, header, tally, todo>>
        ELSE /\ tally' = Traded(tally, o, bk, full, part, ps, params.tax)
             /\ book' = [book EXCEPT ![o] = Remaining(bk, full, key, ceil(left))]
             /\ header' = [header EXCEPT ![o] = [supply |-> flow, partial |-> left, key |-> key,
                                                 null |-> rest = {}]]
             /\ todo' = IF todo = {o} THEN BookIds ELSE todo \ {o}
             /\ mpc' = IF todo = {o} THEN "validate" ELSE mpc
  /\ UNCHANGED <<input, vbook, search_state, params, vtally>>

\* tentative_clear_offers_for_validation: the same from the header.
TentativeClearOffers(o) ==
  /\ mpc = "validate" /\ o \in todo
  /\ LET bk == vbook[o]
         ps == search_state.prices
         claim == header[o]
         below == {k \in DOMAIN bk : KeyBefore(k, claim.key)}
         partial == claim.key \in DOMAIN bk
         full == IF partial THEN below ELSE DOMAIN bk
         counted == Endow(bk, below) + IF partial THEN 0 ELSE Endow(bk, DOMAIN bk \ below)
         refuses == IF partial THEN ceil(claim.partial) > bk[claim.key]
                    ELSE claim.key # NullKey \/ claim.partial # 0
         throws == \E k \in full :
                     a_over_b_lt_c(ps[Category(o).sell], ps[Category(o).buy], LimitPrice(k))
         part == IF partial THEN <<claim.key, claim.partial>> ELSE <<>>
         done == [Traded(vtally, o, bk, full, part, ps, params.tax) EXCEPT
                    !.stats[o] = from_integral(counted)]
     IN IF refuses \/ throws
        THEN mpc' = "rejected" /\ UNCHANGED <<vbook, vtally, todo>>
        ELSE /\ vtally' = done
             /\ vbook' = [vbook EXCEPT ![o] = Remaining(bk, full, claim.key, ceil(claim.partial))]
             /\ todo' = todo \ {o}
             /\ UNCHANGED mpc
  /\ UNCHANGED <<input, book, search_state, params, header, tally>>

\* check_stats and check_clearing of the header.
check_threshold_key(claim) == claim.null = (claim.key = NullKey)
check_stats_NoPartial == \A o \in BookIds : vtally.stats[o] = header[o].supply
check_stats == \A o \in BookIds : /\ vtally.stats[o] + header[o].partial = header[o].supply
                                  /\ check_threshold_key(header[o])

CheckHeader ==
  /\ mpc = "validate" /\ todo = {}
  /\ mpc' = IF /\ check_stats
               /\ SupplyCoversDemand([o \in BookIds |-> header[o].supply], search_state.prices,
                                     params.tax)
            THEN "accepted" ELSE "rejected"
  /\ UNCHANGED <<input, book, vbook, search_state, params, header, tally, vtally, todo>>

market_Next ==
  \/ StartSearch \/ SearchRound \/ SearchClears \/ SearchTimesOut \/ SolveMarket \/ CheckHeader
  \/ \E o \in BookIds : ClearForProduction(o) \/ TentativeClearOffers(o)

market_Spec == market_Init /\ [][market_Next]_market_vars

----------------------------------------------------------------------------
(* Properties.                                                             *)

\* A rate of exchange that divide_prices does not cut off.
RateFits(sell, buy) == sell * 2^PRICE_RADIX < buy * 2^WORD

\* The prices a market is asked for its demand at are valid, none is 0, and
\* the demand is computed without an exception.  Where the rate of exchange fits
\* into a word, the binary searches count exactly the offers in the money; where
\* it does not, none that is out of it.  Of both assets, the two ways to compute
\* an orderbook's demand differ by no more than the roundings on the way
\* (get_trial_price, normalize_prices, get_metadata and the demand functions).
DemandSound ==
  mpc = "search" =>
    LET ps == search_state.trial
    IN /\ \A a \in Assets : is_valid_price(ps[a])
       /\ get_supply_demand(ps).ok
       /\ \A o \in BookIds :
            LET sell == ps[Category(o).sell]
                buy == ps[Category(o).buy]
                bk == input.books[o]
                counted == get_metadata(IndexOf(o), divide_prices(sell, buy)).endow
                in_money == Endow(bk, {k \in DOMAIN bk : ~a_over_b_lt_c(sell, buy, LimitPrice(k))})
                amounts == TradeAmounts(IndexOf(o), sell, buy, input.smooth)
                value == Volume(o, ps).value * PRICE_ONE
                dropped == PRICE_ONE * 2^input.smooth
            IN /\ counted <= in_money
               /\ RateFits(sell, buy) => counted = in_money
               /\ amounts.ok
               /\ amounts.sell * sell - value \in 1 - dropped .. sell - 1
               /\ amounts.buy * buy - value \in 1 - dropped - 2 * buy .. 0

\* Clearing a block mints nothing and robs nobody: no asset is credited to
\* buyers in a larger amount than sellers gave up, in spite of every rounding
\* on the way; no offer sells more than it has; and none sells below its limit
\* price, not even the one that is cleared in part and never checked
\* (process_clear_offers, clear_offer_full, clear_offer_partial, max_tax_param).
TradesSound ==
  mpc \in {"validate", "accepted"} =>
    /\ \A a \in Assets : tally.paid[a] <= tally.taken[a]
    /\ \A o \in BookIds : \A k \in DOMAIN tally.sold[o] :
         LET cat == Category(o)
         IN /\ tally.sold[o][k] <= input.books[o][k]
            /\ tally.sold[o][k] > 0 =>
                 ~a_over_b_lt_c(search_state.prices[cat.sell], search_state.prices[cat.buy], LimitPrice(k))

\* A validator that replays the clearing from the header alone accepts every
\* block the producer makes, with the same offers left and the same payments
\* (tentative_clear_offers_for_validation, check_stats, check_clearing).
ValidatorAgrees ==
  /\ mpc # "rejected"
  /\ mpc = "accepted" =>
       /\ vbook = book
       /\ vtally.taken = tally.taken /\ vtally.paid = tally.paid

\* What the linear program returns can be carried out and is what is said of
\* it: no exception of process_clear_offers is reached (a partial offer has
\* enough left, and an offer is left for a remainder); the utility of what
\* trades is at most what is in the money (satisfied_and_lost_utility); and a
\* solution within the lower bounds has the smooth_mult that was asked for
\* (max_feasible_smooth_mult).
SolutionSound ==
  /\ mpc # "threw"
  /\ mpc = "produce" =>
       \A o \in BookIds :
         LET cat == Category(o)
             sell == search_state.prices[cat.sell]
             buy == search_state.prices[cat.buy]
             sold == ceil(params.flow[o])
             u == satisfied_and_lost_utility(IndexOf(o), sold, sell, buy)
         IN /\ u.ok /\ u.satisfied >= 0 /\ u.lost >= 0
            /\ params.lower => max_feasible_smooth_mult(IndexOf(o), sold, sell, buy) >= input.smooth
=============================================================================
