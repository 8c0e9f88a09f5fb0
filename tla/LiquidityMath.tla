----------------------------- MODULE LiquidityMath ----------------------------
(* programs/position_mgr/src/liquidity_math.rs: token amounts to liquidity and *)
(* back, for a price range.  Prices are shifted right by half a word before    *)
(* they are multiplied; Q32 stands for 2^32.                                   *)
EXTENDS SwapMath

CONSTANT Q32

ASSUME Q32Assumption == Q32 \in Nat \ {0} /\ Q32 * Q32 = Q64

Shr32(a) == a \div Q32

\* checked_div(..).unwrap_or(0)
DivOr0(a, b) == IF b = 0 THEN 0 ELSE a \div b

-------------------------------------------------------------------------------
\* L from token 0: amount * lower * upper / (upper - lower).
LiquidityForAmount0(lower, upper, amount) ==
    SatMul(DivOr0(SatMul(amount, Shr32(lower)), Shr32(upper - lower)), Shr32(upper))
        \div Q32

\* L from token 1: amount / (upper - lower).
LiquidityForAmount1(lower, upper, amount) ==
    DivOr0((amount % Q64) * Q64, upper - lower)

\* Three cases: the price at or below the range, at or above it, inside.
LiquidityForAmounts(current, lower, upper, amount_0, amount_1) ==
    CASE current <= lower -> LiquidityForAmount0(lower, upper, amount_0)
      [] current >= upper -> LiquidityForAmount1(lower, upper, amount_1)
      [] OTHER            -> Lesser(LiquidityForAmount0(current, upper, amount_0),
                                    LiquidityForAmount1(lower, current, amount_1))

\* Bound: what the last division leaves of a saturated product, and the largest
\* amount over the width of the range.
LiquidityLimit(lower, upper) ==
    Greater(U128Max \div Q32, (U64Max * Q64) \div (upper - lower))

-------------------------------------------------------------------------------
\* Token 0 of L: L * (upper - lower) / (lower * upper).
Amount0ForLiquidity(lower, upper, liquidity) ==
    DivOr0(SatMul(liquidity, upper - lower), SatMul(Shr32(lower), Shr32(upper)))

\* Token 1 of L: L * (upper - lower).
Amount1ForLiquidity(lower, upper, liquidity) ==
    SatMul(liquidity, upper - lower) \div Q64

\* Both amounts, clamped to u64.
AmountsForLiquidity(current, lower, upper, liquidity) ==
    LET at     == Greater(lower, Lesser(current, upper))
        amount == [k \in {0, 1} |-> IF k = 0
                     THEN Amount0ForLiquidity(at, upper, liquidity)
                     ELSE Amount1ForLiquidity(lower, at, liquidity)]
    IN  [k \in {0, 1} |-> Lesser(amount[k], U64Max)]
===============================================================================
