----------------------------- MODULE PriceArith -----------------------------
(***************************************************************************)
(* Fixed-point arithmetic on prices and amounts (utils/price.h,            *)
(* utils/fixed_point_value.h) and the numbering of orderbooks              *)
(* (orderbook/utils.h).  The widths are parameters, so that overflow and   *)
(* rounding happen on small numbers: WORD stands for the 64 bits of a      *)
(* machine word, 2 * WORD for uint128_t.                                   *)
(***************************************************************************)
EXTENDS Integers, Sequences

CONSTANTS
  WORD,         \* bits of a word (64 in the code)
  PRICE_RADIX,  \* bits of a price below the point (24 in the code)
  FRACTION      \* bits of a FractionalAsset below the point (10 in the code)

ASSUME ArithAssumption ==
  /\ WORD \in Nat \ {0} /\ PRICE_RADIX \in Nat \ {0} /\ FRACTION \in Nat \ {0}
  /\ 2 * PRICE_RADIX <= WORD

PRICE_BIT_LEN == 2 * PRICE_RADIX
MAX_PRICE == 2^PRICE_BIT_LEN - 1
PRICE_ONE == 2^PRICE_RADIX

Smaller(a, b) == IF a < b THEN a ELSE b
Larger(a, b) == IF a < b THEN b ELSE a
LowWord(x) == x % 2^WORD
HighWord(x) == (x \div 2^WORD) % 2^WORD
Wide(x) == x % 2^(2 * WORD)

----------------------------------------------------------------------------
(* Prices.                                                                 *)

impose_price_bounds(val) == IF val > MAX_PRICE THEN MAX_PRICE ELSE IF val = 0 THEN 1 ELSE val

is_valid_price(price) == price <= MAX_PRICE /\ price # 0

\* A price as the bytes of an orderbook key; a byte is PRICE_RADIX bits here.
PRICE_BYTES == 2
write_price_big_endian(price) ==
  [loc \in 1..PRICE_BYTES |-> (price \div 2^((PRICE_BYTES - loc) * PRICE_RADIX)) % 2^PRICE_RADIX]
read_price_big_endian(buf) == buf[1] * 2^PRICE_RADIX + buf[2]

a_over_b_lt_c(a, b, c) == a * 2^PRICE_RADIX < b * c

\* sell price / buy price, rounded down to a price.
divide_prices(sell, buy) ==
  LowWord(((sell * 2^WORD) \div buy) \div 2^(WORD - PRICE_RADIX))

smooth_mult(price, mult) == price - price \div 2^mult

\* value * a / b without a product wider than uint128_t.
wide_multiply_val_by_a_over_b(value, a, b) ==
  Wide(Wide((value \div b) * a) + Wide((value % b) * a) \div b)

\* (first * second) >> drop, saturated at MAX_PRICE; carries are lost.
safe_multiply_and_drop_lowbits(first, second, drop) ==
  LET low_low == LowWord(first) * LowWord(second)
      middle == (LowWord(first) * HighWord(second)) \div 2^(drop - WORD)
                + (HighWord(first) * LowWord(second)) \div 2^(drop - WORD)
      high_high == HighWord(first) * HighWord(second)
      used_lowbits == 2 * WORD - drop
      used_highbits == IF used_lowbits <= PRICE_BIT_LEN THEN PRICE_BIT_LEN - used_lowbits ELSE 0
      lower == (IF drop < 2 * WORD THEN low_low \div 2^drop ELSE 0) + middle
      upper == IF drop <= 2 * WORD
               THEN Smaller(high_high, 2^used_highbits - 1) * 2^used_lowbits
               ELSE high_high \div 2^(drop - 2 * WORD)
  IN Smaller(lower + upper, MAX_PRICE)

----------------------------------------------------------------------------
(* FractionalAsset: a value is its raw integer.                            *)

from_integral(x) == Wide(x * 2^FRACTION)
floor(v) == v \div 2^FRACTION
ceil(v) == floor(v) + IF v % 2^FRACTION # 0 THEN 1 ELSE 0

\* What is left after a tax of 2^-rate, the tax rounded up.
tax(v, rate) == v - (v \div 2^rate + IF v % 2^rate # 0 THEN 1 ELSE 0)
tax_and_round(v, rate) == floor(tax(v, rate))

----------------------------------------------------------------------------
(* Orderbooks and the pairs of assets they trade.                          *)

get_num_orderbooks_by_asset_count(count) == count * (count - 1)

validate_category(cat, count) == cat.sell # cat.buy /\ cat.sell < count /\ cat.buy < count

category_to_idx(cat, count) ==
  cat.sell * (count - 1) + cat.buy - IF cat.buy > cat.sell THEN 1 ELSE 0

category_from_idx(idx, count) ==
  LET rest == idx % (count * (count - 1))
      sell == rest \div (count - 1)
      buy == rest % (count - 1)
  IN [sell |-> sell, buy |-> IF buy >= sell THEN buy + 1 ELSE buy]
=============================================================================
