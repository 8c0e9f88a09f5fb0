----------------------------- MODULE MCPositionMgr ----------------------------
(* Instances of the whole system for TLC: the scale of MCPoolCore, two users,  *)
(* two positions that overlap.                                                 *)
EXTENDS Sdk, TLC

MCMinTick == -5
MCMaxTick == 3

\* 2^14 * 2^(t / 4), rounded down.
MCQuarter == [q \in 0 .. 3 |-> <<16384, 19483, 23170, 27554>>[q + 1]]
MCSqrtPriceAt ==
    [t \in Ticks |-> IF t >= 0 THEN MCQuarter[t % 4] * 2^(t \div 4)
                               ELSE MCQuarter[t % 4] \div 2^(-(t \div 4))]

MCPools    == {<<MCSqrtPriceAt[0], 3, 0>>}
MCRanges   == {<<-2, 2>>, <<0, 2>>}
MCDeposits == {[k \in {0, 1} |-> 300]}
MCSplitRanges == {<<-2, 0>>, <<0, 2>>}
MCUpLimits == {MCSqrtPriceAt[1]}
MCMinimums == {[k \in {0, 1} |-> 0]}
MCLimits   == {MCSqrtPriceAt[t] : t \in {-1, 1}}

MCOneRange == {<<0, 2>>}
MCDeltas   == {-500, 500}

MCSymmetry == Permutations(Users) \cup Permutations(Nfts)
===============================================================================
