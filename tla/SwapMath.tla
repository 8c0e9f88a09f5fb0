------------------------------- MODULE SwapMath -------------------------------
(* programs/pool_core/src/swap_math.rs: the arithmetic of one swap step.       *)
(*                                                                             *)
(* Prices are square roots of prices in fixed point with unit Q64; liquidity   *)
(* and token amounts are plain integers.  "zero for one" pays token 0 in and   *)
(* moves the price down; the other direction pays token 1 in and moves it up.  *)
(* Where the code abandons a product that overflows u128 for u128::MAX, so do  *)
(* the definitions (SatMul).                                                   *)
EXTENDS FixedWidth

CONSTANT FEE_DENOMINATOR   \* 1_000_000

ASSUME FeeAssumption == FEE_DENOMINATOR \in Nat \ {0} /\ FEE_DENOMINATOR <= U128Max

Lesser(a, b)  == IF a <= b THEN a ELSE b
Greater(a, b) == IF a <= b THEN b ELSE a

CeilDiv(n, d) == SatAdd(n, d - 1) \div d

-------------------------------------------------------------------------------
\* The fee on a gross amount, rounded up.
ComputeFee(amount, fee_rate) ==
    SatAdd(SatMul(amount, fee_rate), FEE_DENOMINATOR - 1) \div FEE_DENOMINATOR

\* Mutant: the fee is forgotten.
AmountWithoutFee(gross, fee_rate) == gross

AmountLessFee(gross, fee_rate) == SatSub(gross, ComputeFee(gross, fee_rate))

\* Mutant: one of the two cross products is missing.
MulQ64OneCross(a, b) ==
    SatAdd(SatAdd((((a \div Q64) * (b \div Q64)) % Q64) * Q64, (a \div Q64) * (b % Q64)),
           ((a % Q64) * (b % Q64)) \div Q64)

\* a * b in fixed point, from the four half-width products.  The high product
\* is shifted back up with the bits above u128 lost.
MulQ64(a, b) ==
    LET a_hi == a \div Q64   a_lo == a % Q64
        b_hi == b \div Q64   b_lo == b % Q64
    IN  SatAdd(SatAdd(SatAdd(((a_hi * b_hi) % Q64) * Q64, a_hi * b_lo), a_lo * b_hi),
               (a_lo * b_lo) \div Q64)

\* Mutant: the upper price squared.
GetAmount0DeltaUpperTwice(sqrt_a, sqrt_b, liquidity, round_up) ==
    LET upper       == Greater(sqrt_a, sqrt_b)
        numerator   == SatMul(liquidity, upper - Lesser(sqrt_a, sqrt_b))
        denominator == MulQ64(upper, upper)
    IN  IF denominator = 0 THEN U128Max
        ELSE IF round_up THEN CeilDiv(numerator, denominator) ELSE numerator \div denominator

\* Token 0 between two prices: L * (upper - lower) / (lower * upper).
GetAmount0Delta(sqrt_a, sqrt_b, liquidity, round_up) ==
    LET lower       == Lesser(sqrt_a, sqrt_b)
        upper       == Greater(sqrt_a, sqrt_b)
        numerator   == SatMul(liquidity, upper - lower)
        denominator == MulQ64(lower, upper)
    IN  IF lower = 0 \/ denominator = 0 THEN U128Max
        ELSE IF round_up THEN CeilDiv(numerator, denominator)
        ELSE numerator \div denominator

\* Token 1 between two prices: L * (upper - lower).
GetAmount1Delta(sqrt_a, sqrt_b, liquidity, round_up) ==
    LET product == SatMul(liquidity, Greater(sqrt_a, sqrt_b) - Lesser(sqrt_a, sqrt_b))
    IN  IF round_up THEN CeilDiv(product, Q64) ELSE product \div Q64

-------------------------------------------------------------------------------
\* The price after `amount` of token 0 is added, as the code computes it: L in
\* fixed point over L + amount * sqrt_price.  The shift of L loses its high
\* half.  (swap only adds; the removing variants are not called.)
NextSqrtPriceFromAmount0(sqrt_price, liquidity, amount) ==
    LET numerator   == (liquidity % Q64) * Q64
        denominator == SatAdd(numerator \div Q64, SatMul(amount, sqrt_price) \div Q64)
    IN  IF amount = 0 THEN sqrt_price
        ELSE IF denominator = 0 THEN 0
        ELSE numerator \div denominator

\* Mutant: the move is rounded up.
NextSqrtPriceRoundedUp(sqrt_price, liquidity, amount) ==
    SatAdd(sqrt_price, IF liquidity = 0 THEN 0 ELSE CeilDiv((amount % Q64) * Q64, liquidity))

\* The price after `amount` of token 1 is added: sqrt_price + amount / L.
NextSqrtPriceFromAmount1(sqrt_price, liquidity, amount) ==
    SatAdd(sqrt_price,
           IF liquidity = 0 THEN 0 ELSE ((amount % Q64) * Q64) \div liquidity)

-------------------------------------------------------------------------------
\* What one step moves, from current to next.
AmountIn(current, next, liquidity, zero_for_one) ==
    IF zero_for_one THEN GetAmount0Delta(next, current, liquidity, TRUE)
                    ELSE GetAmount1Delta(current, next, liquidity, TRUE)

AmountOut(current, next, liquidity, zero_for_one) ==
    IF zero_for_one THEN GetAmount1Delta(next, current, liquidity, FALSE)
                    ELSE GetAmount0Delta(current, next, liquidity, FALSE)

\* compute_swap_step: up to the target price if the amount suffices, else part
\* of the way.  What is not taken as amount_in is the fee.
NextSqrtPrice(current, target, liquidity, net, zero_for_one) ==
    IF net >= AmountIn(current, target, liquidity, zero_for_one) THEN target
    ELSE IF zero_for_one THEN NextSqrtPriceFromAmount0(current, liquidity, net)
                         ELSE NextSqrtPriceFromAmount1(current, liquidity, net)

StepResult(next, amount_in, amount_out, amount_remaining) ==
    [sqrt_price_next |-> next,
     amount_in       |-> amount_in,
     amount_out      |-> amount_out,
     fee_amount      |-> SatSub(amount_remaining, amount_in)]

StepTo(current, next, liquidity, amount_remaining, zero_for_one) ==
    StepResult(next, AmountIn(current, next, liquidity, zero_for_one),
               AmountOut(current, next, liquidity, zero_for_one), amount_remaining)

StepPrice(current, target, liquidity, amount_remaining, fee_rate) ==
    NextSqrtPrice(current, target, liquidity, AmountLessFee(amount_remaining, fee_rate),
                  current >= target)

ComputeSwapStep(current, target, liquidity, amount_remaining, fee_rate) ==
    StepTo(current, StepPrice(current, target, liquidity, amount_remaining, fee_rate),
           liquidity, amount_remaining, current >= target)
===============================================================================
