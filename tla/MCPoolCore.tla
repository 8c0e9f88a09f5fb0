------------------------------ MODULE MCPoolCore ------------------------------
(* Instances of PoolCore for TLC.  The width is Q64 = 2^14, so that products   *)
(* of the sizes that occur stay far from saturation; a tick is 2^(1/4) of the  *)
(* square-root price, and tick_at_sqrt_price's slope of 7 ticks per doubling   *)
(* is to the true 4 about what 26656 is to 13863.                              *)
EXTENDS PoolCore

MCMinTick == -5
MCMaxTick == 3

\* 2^14 * 2^(t / 4), rounded down.
MCQuarter == [q \in 0 .. 3 |-> <<16384, 19483, 23170, 27554>>[q + 1]]
MCSqrtPriceAt ==
    [t \in Ticks |-> IF t >= 0 THEN MCQuarter[t % 4] * 2^(t \div 4)
                               ELSE MCQuarter[t % 4] \div 2^(-(t \div 4))]

MCDeltas     == {-1200, 1200}
MCRanges     == {<<-2, 2>>}
MCFeeGrowths == {}
MCPools      == {<<MCSqrtPriceAt[0], 3, 0>>, <<MCSqrtPriceAt[1], 3, 1>>}
MCAmounts    == {300}
MCTopLimit   == {MCSqrtPriceAt[3]}
MCLimits     == {MCSqrtPriceAt[t] : t \in {-1, 2, 3}} \cup {MCSqrtPriceAt[0] + 1}
MCMinimums   == {0, 200}

\* tick_manager's tables with 1200 registered from -2 to 2: no array yet, the
\* ticks live, the ticks live and crossed when the accumulator was at Q64.
MCTick(net, outside) == [liquidity_net        |-> net,
                         liquidity_gross      |-> 1200,
                         fee_growth_outside_0 |-> 0,
                         fee_growth_outside_1 |-> outside,
                         initialized          |-> TRUE]
MCArrays(outside) == [s \in {-4, 0} |-> [i \in Slots |->
                        IF i = 0 THEN ZeroTick
                        ELSE MCTick(IF s = -4 THEN 1200 ELSE -1200, outside)]]
MCBitmaps == [w \in Words |->
                [claimed            |-> TRUE,
                 word_index         |-> w,
                 initialized_arrays |-> {TickBit(s) : s \in {r \in {-4, 0} : TickWord(r) = w}}]]
MCEmptyBook == [arrays  |-> [s \in {} |-> [i \in Slots |-> ZeroTick]],
                bitmaps |-> [w \in Words |-> ZeroBitmap]]
MCBooks == {MCEmptyBook} \cup
           {[arrays |-> MCArrays(outside), bitmaps |-> MCBitmaps] : outside \in {0, Q64}}
===============================================================================
