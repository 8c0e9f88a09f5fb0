-------------------------------- MODULE SwapWalk -------------------------------
(* One swap step under every input.  A behaviour fixes a price, a target and a *)
(* liquidity and feeds the step one more unit of input at a time.              *)
EXTENDS SwapMath

CONSTANTS Prices, Liquidities, FeeRate   \* the inputs a run enumerates

ASSUME WalkAssumption ==
    /\ Prices \subseteq U128
    /\ Liquidities \subseteq U128 \ {0}
    /\ FeeRate \in 1 .. FEE_DENOMINATOR - 1

VARIABLES current, target, liquidity, amount
vars == <<current, target, liquidity, amount>>

Init == /\ current \in Prices /\ target \in Prices
        /\ current # target
        /\ liquidity \in Liquidities
        /\ amount = 0

OneMore == /\ amount < U64Max
           /\ amount' = amount + 1
           /\ UNCHANGED <<current, target, liquidity>>

Spec == Init /\ [][OneMore]_vars

-------------------------------------------------------------------------------
Step == ComputeSwapStep(current, target, liquidity, amount, FeeRate)

\* Moving up, the step stops at the target at the latest, takes no more than
\* what is left after the fee, and takes what the way it went costs: the price
\* moved by the whole amount or by all the way to the target.
UpwardStepExact ==
    current < target =>
        LET net == AmountLessFee(amount, FeeRate)
        IN  /\ current <= Step.sqrt_price_next /\ Step.sqrt_price_next <= target
            /\ Step.amount_in <= net
            /\ Step.amount_in * Q64 >= liquidity * (Step.sqrt_price_next - current)
            /\ Step.sqrt_price_next < target =>
                  liquidity * (Step.sqrt_price_next + 1 - current) > net * Q64

\* More input never takes the price less far on its way.  Nor does it bring less
\* output, as long as the output times the price, in whole units rounded up, is
\* below the liquidity, and the product of the prices fits.  (Beyond that the
\* rounded denominator of get_amount_0_delta does bend the curve.)
UpwardMonotone ==
    [][current < target =>
         /\ Step'.sqrt_price_next >= Step.sqrt_price_next
         /\ /\ (current * target) \div Q64 <= U128Max
            /\ Step.amount_out * ((current + Q64 - 1) \div Q64) < liquidity
            => Step'.amount_out >= Step.amount_out]_vars

\* The product of two fixed-point numbers loses the fraction only, where it fits.
MulQ64Exact ==
    LET a == SatMul(current, liquidity)
        p == (a * target) \div Q64
    IN  p <= U128Max => MulQ64(a, target) = p
===============================================================================
