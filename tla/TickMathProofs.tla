---------------------------- MODULE TickMathProofs ----------------------------
(* What the walk over the ticks checks of one geometry, for every geometry.    *)
EXTENDS MCTickMath, ArithmeticProofs

\* The walk never leaves the range of ticks.
LEMMA WalkStaysOnTicks == Spec => [](tick \in Ticks)
<1>1. Init => tick \in Ticks
  BY TickAssumption DEF Init, Ticks
<1>2. tick \in Ticks /\ [Advance]_tick => (tick \in Ticks)'
  BY TickAssumption DEF Advance, Ticks
<1> QED
  BY <1>1, <1>2, PTL DEF Spec

\* Program and SDK put every tick in the same array, word and bit.
THEOREM SdkAgreesCorrect == Spec => []SdkAgrees
<1>1. tick \in Ticks => SdkAgrees
  BY SdkFindsTheAccounts DEF SdkAgrees, TickIndex, TickWord, TickBit
<1> QED
  BY <1>1, WalkStaysOnTicks, PTL

\* The address of a tick gives the tick back.
THEOREM AddressRecoversTickCorrect == Spec => []AddressRecoversTick
<1>1. tick \in Ticks => AddressRecoversTick
  BY AddressRecovers DEF AddressRecoversTick
<1> QED
  BY <1>1, WalkStaysOnTicks, PTL

\* The ticks that no client can name are those at the two ends of the scale, for
\* every even spacing and every scale whose lower end is not an array's start.
THEOREM ClientTicksFitCorrect ==
    ASSUME EvenSpacing, TickToArrayStart(MIN_TICK) # MIN_TICK
    PROVE  Spec => []ClientTicksFit
<1>1. tick \in Ticks => ClientTicksFit
  BY NearestFits DEF ClientTicksFit, LowestArray, HighestTick
<1> QED
  BY <1>1, WalkStaysOnTicks, PTL
===============================================================================
