-------------------------------- MODULE SdkMath -------------------------------
(* The SDK's copy of the swap step, sdk/src/swap_math.ts, and of the amounts   *)
(* of a position, sdk/src/position.ts.  Its numbers are unbounded (BN, bigint):*)
(* nothing saturates, nothing wraps, and a difference may be negative.         *)
EXTENDS SwapMath

CONSTANT MAX_SAFE_INTEGER   \* 2^53 - 1, the SDK's word for "too much"

ASSUME SafeIntegerAssumption == MAX_SAFE_INTEGER \in Nat

\* Mutant: the fee is rounded down.
SdkComputeFeeFloor(amount, fee_rate) == (amount * fee_rate) \div FEE_DENOMINATOR

SdkComputeFee(amount, fee_rate) ==
    (amount * fee_rate + FEE_DENOMINATOR - 1) \div FEE_DENOMINATOR

\* mulQ64 adds four half products, all of them whole.
SdkMulQ64(a, b) == (a * b) \div Q64

SdkDiv(n, d, round_up) == IF round_up THEN (n + d - 1) \div d ELSE n \div d

SdkAmount0Delta(sqrt_a, sqrt_b, liquidity, round_up) ==
    LET lower       == Lesser(sqrt_a, sqrt_b)
        upper       == Greater(sqrt_a, sqrt_b)
        denominator == SdkMulQ64(lower, upper)
    IN  IF lower = 0 THEN MAX_SAFE_INTEGER
        ELSE IF denominator = 0 THEN 0
        ELSE SdkDiv(liquidity * (upper - lower), denominator, round_up)

SdkAmount1Delta(sqrt_a, sqrt_b, liquidity, round_up) ==
    SdkDiv(liquidity * (Greater(sqrt_a, sqrt_b) - Lesser(sqrt_a, sqrt_b)), Q64, round_up)

SdkAmountIn(current, next, liquidity, zero_for_one) ==
    IF zero_for_one THEN SdkAmount0Delta(next, current, liquidity, TRUE)
                    ELSE SdkAmount1Delta(current, next, liquidity, TRUE)

SdkAmountOut(current, next, liquidity, zero_for_one) ==
    IF zero_for_one THEN SdkAmount1Delta(next, current, liquidity, FALSE)
                    ELSE SdkAmount0Delta(current, next, liquidity, FALSE)

\* Mutant: the scale of the price is left in.
SdkPartwayUnscaled(current, liquidity, net, zero_for_one) ==
    IF net = 0 THEN current
    ELSE IF ~zero_for_one THEN current + (net * Q64) \div liquidity
    ELSE (liquidity * Q64) \div (liquidity + net * current)

\* getNextSqrtPriceFromAmount0 and ..FromAmount1, adding.
SdkPartway(current, liquidity, net, zero_for_one) ==
    IF ~zero_for_one THEN current + (net * Q64) \div liquidity
    ELSE IF net = 0 THEN current
    ELSE LET denominator == liquidity + (net * current) \div Q64
         IN  IF denominator = 0 THEN 0 ELSE (liquidity * Q64) \div denominator

\* computeSwapStep.
SdkSwapStep(current, target, liquidity, amount_remaining, fee_rate) ==
    LET zero_for_one == current >= target
        net          == amount_remaining - SdkComputeFee(amount_remaining, fee_rate)
        next == IF net >= SdkAmountIn(current, target, liquidity, zero_for_one) THEN target
                ELSE SdkPartway(current, liquidity, net, zero_for_one)
        amount_in    == SdkAmountIn(current, next, liquidity, zero_for_one)
    IN  [sqrt_price_next |-> next,
         amount_in       |-> amount_in,
         amount_out      |-> SdkAmountOut(current, next, liquidity, zero_for_one),
         fee_amount      |-> amount_remaining - amount_in]

-------------------------------------------------------------------------------
\* Mutant: the two tokens are exchanged.
SdkTokenAmountsSwapped(current, lower, upper, liquidity) ==
    LET at == Greater(lower, Lesser(current, upper))
    IN  [k \in {0, 1} |-> IF k = 1
            THEN (liquidity * (upper - at)) \div Greater(1, SdkMulQ64(at, upper))
            ELSE (liquidity * (at - lower)) \div Q64]

\* computeTokenAmounts: the three cases are one, with the price brought into the
\* range.
SdkTokenAmounts(current, lower, upper, liquidity) ==
    LET at          == Greater(lower, Lesser(current, upper))
        denominator == SdkMulQ64(at, upper)
    IN  [k \in {0, 1} |-> IF k = 1 THEN (liquidity * (at - lower)) \div Q64
                          ELSE IF denominator = 0 THEN 0
                          ELSE (liquidity * (upper - at)) \div denominator]

\* What is left to demand after `bps` hundredths of a per cent of slippage.
LessSlippage(amount, bps) == (amount * (10000 - bps)) \div 10000
===============================================================================
