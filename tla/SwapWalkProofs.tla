---------------------------- MODULE SwapWalkProofs ----------------------------
(* The walk's properties for every set of prices and liquidities.              *)
EXTENDS SwapWalk, ArithmeticProofs

WalkInv ==
    /\ current \in Prices /\ target \in Prices
    /\ liquidity \in Liquidities
    /\ amount \in U64

LEMMA WalkInvAlways == Spec => []WalkInv
<1>1. Init => WalkInv
  BY WidthsPositive DEF Init, WalkInv
<1>2. WalkInv /\ [OneMore]_vars => WalkInv'
  <2> SUFFICES ASSUME WalkInv, [OneMore]_vars PROVE WalkInv'
    OBVIOUS
  <2>1. CASE OneMore
    BY <2>1, WidthsPositive DEF OneMore, WalkInv, U64Max
  <2>2. CASE UNCHANGED vars
    BY <2>2 DEF vars, WalkInv
  <2> QED
    BY <2>1, <2>2
<1> QED
  BY <1>1, <1>2, PTL DEF Spec

\* Moving up, one step is exact in price and cost, for every width, price,
\* liquidity, input and fee rate: the saturating products of swap_math.rs cannot
\* bend it.
THEOREM UpwardStepExactCorrect == Spec => []UpwardStepExact
<1>1. WalkInv => UpwardStepExact
  <2> SUFFICES ASSUME WalkInv, current < target PROVE UpwardStepExact
    BY DEF UpwardStepExact
  <2>1. /\ current \in U128 /\ target \in U128 /\ liquidity \in U128 \ {0}
        /\ amount \in U64 /\ FeeRate \in Nat \ {0}
    BY WalkAssumption, FeeAssumption DEF WalkInv
  <2>2. LET net  == AmountLessFee(amount, FeeRate)
            step == ComputeSwapStep(current, target, liquidity, amount, FeeRate)
        IN  /\ current <= step.sqrt_price_next /\ step.sqrt_price_next <= target
            /\ step.amount_in <= net
            /\ step.amount_in * Q64 >= liquidity * (step.sqrt_price_next - current)
            /\ step.sqrt_price_next < target =>
                  liquidity * (step.sqrt_price_next + 1 - current) > net * Q64
    BY <2>1, UpwardStep
  <2> QED
    BY <2>2 DEF UpwardStepExact, Step
<1> QED
  BY <1>1, WalkInvAlways, PTL

\* The 128-bit product from four halves is the product, where that fits.
THEOREM MulQ64ExactCorrect == Spec => []MulQ64Exact
<1>1. WalkInv => MulQ64Exact
  <2> SUFFICES ASSUME WalkInv PROVE MulQ64Exact
    OBVIOUS
  <2>1. target \in U128 /\ SatMul(current, liquidity) \in U128
    BY WalkAssumption, U128IsNat, SatMulType DEF WalkInv
  <2> QED
    BY <2>1, MulQ64Product DEF MulQ64Exact
<1> QED
  BY <1>1, WalkInvAlways, PTL

\* One more unit of input never takes the upward price less far, and never brings
\* less output below the bound of UpwardMonotone, for every width and every input.
THEOREM UpwardMonotoneCorrect == Spec => UpwardMonotone
<1>1. ASSUME WalkInv, [OneMore]_vars, current < target
      PROVE  /\ Step'.sqrt_price_next >= Step.sqrt_price_next
             /\ /\ (current * target) \div Q64 <= U128Max
                /\ Step.amount_out * ((current + Q64 - 1) \div Q64) < liquidity
                => Step'.amount_out >= Step.amount_out
  <2>1. /\ current \in U128 /\ target \in U128 /\ liquidity \in U128 \ {0}
        /\ amount \in U64 /\ FeeRate \in 1 .. FEE_DENOMINATOR - 1
        /\ FeeRate \in Nat
    BY <1>1, WalkAssumption, FeeAssumption DEF WalkInv
  <2>2. Step.sqrt_price_next \in Int /\ Step.amount_out \in Int
    <3>1. /\ liquidity \in U128 /\ amount \in U128
      BY <2>1, WidthsPositive
    <3>2. Step \in SwapStep
      BY <2>1, <3>1, ComputeSwapStepType DEF Step
    <3> QED
      BY <3>2, WidthsPositive DEF SwapStep
  <2>3. CASE OneMore
    <3>1. amount + 1 \in U64
      BY <2>1, <2>3, WidthsPositive DEF OneMore, U64Max
    <3> DEFINE more == ComputeSwapStep(current, target, liquidity, amount + 1, FeeRate)
    <3>2. Step' = more
      BY <2>3 DEF OneMore, Step
    <3>3. /\ Step.sqrt_price_next <= more.sqrt_price_next
          /\ /\ (current * target) \div Q64 <= U128Max
             /\ Step.amount_out * ((current + Q64 - 1) \div Q64) < liquidity
             => Step.amount_out <= more.amount_out
      BY <1>1, <2>1, <3>1, UpwardStepGrows DEF Step
    <3> HIDE DEF more
    <3> QED
      BY <3>2, <3>3
  <2>4. CASE UNCHANGED vars
    <3>1. Step' = Step
      BY <2>4 DEF vars, Step
    <3> QED
      BY <2>2, <3>1
  <2> QED
    BY <1>1, <2>3, <2>4
<1>2. WalkInv /\ [OneMore]_vars =>
         [current < target =>
            /\ Step'.sqrt_price_next >= Step.sqrt_price_next
            /\ /\ (current * target) \div Q64 <= U128Max
               /\ Step.amount_out * ((current + Q64 - 1) \div Q64) < liquidity
               => Step'.amount_out >= Step.amount_out]_vars
  BY <1>1
<1> QED
  BY <1>2, WalkInvAlways, PTL DEF Spec, UpwardMonotone
===============================================================================
