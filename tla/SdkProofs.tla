------------------------------- MODULE SdkProofs ------------------------------
(* What the SDK tells its user against what the programs do, for any widths,   *)
(* prices, positions and histories: the fees it quotes are the fees paid, and  *)
(* a quote of a swap upwards keeps to the amount and to the limit.             *)
EXTENDS Sdk, PositionMgrProofs

-------------------------------------------------------------------------------
(* Fees.                                                                       *)

\* A saturated product over the unit is the quotient of the product, cut to u64.
LEMMA SaturatedShare ==
    ASSUME NEW a \in Nat, NEW b \in Nat
    PROVE  (SatMul(a, b) \div Q64) % Q64 = Lesser((a * b) \div Q64, U64Max)
<1> DEFINE Q == Q64
           x == a * b
<1>1. Q \in Nat \ {0} /\ U128Max = Q * Q - 1 /\ U64Max = Q - 1 /\ Q * Q \in Nat /\ x \in Nat
  BY WidthsPositive DEF U64Max
<1>2. CASE x <= U128Max
  <2>1. SatMul(a, b) = x
    BY <1>2, SatMulExact
  <2> HIDE DEF Q, x
  <2>2. x < Q * Q
    BY <1>1, <1>2
  <2>3. x \div Q < Q /\ x \div Q \in Nat
    BY <1>1, <2>2, DivUpper, DivNat
  <2>4. (x \div Q) % Q = x \div Q
    <3> DEFINE y == x \div Q
    <3>1. y \in 0 .. Q - 1
      BY <1>1, <2>3
    <3> HIDE DEF y
    <3>2. y % Q = y
      BY <1>1, <3>1
    <3> QED
      BY <3>2 DEF y
  <2>5. Lesser(x \div Q, U64Max) = x \div Q
    BY <1>1, <2>3 DEF Lesser
  <2> QED
    BY <2>1, <2>4, <2>5 DEF Q, x
<1>3. CASE x > U128Max
  <2>1. SatMul(a, b) = U128Max
    BY <1>3, SatMulSaturates
  <2> HIDE DEF Q, x
  <2>2. U128Max = Q * (Q - 1) + (Q - 1) /\ Q - 1 \in 0 .. Q - 1
    BY <1>1
  <2>3. U128Max \div Q = Q - 1
    BY <1>1, <2>2, DivUnique
  <2>4. (Q - 1) % Q = Q - 1
    BY <1>1
  <2>5. Q - 1 <= x \div Q
    <3>1. Q * (Q - 1) <= x
      BY <1>1, <1>3
    <3> QED
      BY <1>1, <3>1, DivLower
  <2>6. x \div Q \in Nat
    BY <1>1, DivNat
  <2>7. Lesser(x \div Q, U64Max) = Q - 1
    BY <1>1, <2>5, <2>6 DEF Lesser
  <2> QED
    BY <2>1, <2>3, <2>4, <2>7 DEF Q, x
<1> QED
  BY <1>1, <1>2, <1>3

\* The wrapping difference of an accumulator and a checkpoint behind it.
LEMMA GrowthSince ==
    ASSUME NEW a \in U128, NEW b \in U128, b <= a
    PROVE  WrapSub(a, b) = a - b /\ Min0(a - b) = a - b /\ a - b \in Nat
<1> DEFINE M == Q64 * Q64
<1>1. M \in Nat \ {0} /\ a \in 0 .. M - 1 /\ b \in 0 .. M - 1
  BY WidthsPositive
<1> HIDE DEF M
<1>2. a - b \in 0 .. M - 1
  BY <1>1
<1>3. (a - b) % M = a - b
  BY <1>1, <1>2
<1> QED
  BY <1>2, <1>3 DEF WrapSub, Min0, M

\* In every state of every history, the fees that quoteFees shows are the fees
\* that collect_fees and close_position pay, up to the u64 that pays them.
THEOREM QuoteFeesExactCorrect == Spec => []QuoteFeesExact
<1>1. SystemInv => QuoteFeesExact
  <2> SUFFICES ASSUME SystemInv, NEW n \in OpenNfts
               PROVE  FeesOwed(positions[n], pool)
                        = [k \in Tokens |-> Lesser(QuoteFees(positions[n], pool)[k], U64Max)]
    BY DEF QuoteFeesExact
  <2> DEFINE pos == positions[n]
  <2>1. PositionTypeOK /\ PoolTypeOK /\ CheckpointBehind
    BY DEF SystemInv, LedgerInv
  <2>2. pos \in Position /\ pool \in Pool
    BY <2>1 DEF PositionTypeOK, PoolTypeOK, OpenNfts, IsOpen
  <2>3. ASSUME NEW k \in Tokens
        PROVE  (SatMul(WrapSub(pool.fee_growth_global[k], pos.fee_growth_checkpoint[k]),
                       pos.liquidity) \div Q64) % Q64
                 = Lesser(QuoteFees(pos, pool)[k], U64Max)
    <3> DEFINE a == pool.fee_growth_global[k]
               b == pos.fee_growth_checkpoint[k]
    <3>1. a \in U128 /\ b \in U128 /\ pos.liquidity \in Nat
      BY <2>2, U128IsNat DEF Pool, Position
    <3>2. b <= a
      BY <2>1 DEF CheckpointBehind
    <3> HIDE DEF a, b
    <3>3. WrapSub(a, b) = a - b /\ Min0(a - b) = a - b /\ a - b \in Nat
      BY <3>1, <3>2, GrowthSince
    <3>4. (SatMul(a - b, pos.liquidity) \div Q64) % Q64
            = Lesser(((a - b) * pos.liquidity) \div Q64, U64Max)
      BY <3>1, <3>3, SaturatedShare
    <3>5. QuoteFees(pos, pool)[k] = (Min0(a - b) * pos.liquidity) \div Q64
      BY DEF QuoteFees, a, b
    <3> QED
      BY <3>3, <3>4, <3>5 DEF a, b
  <2> QED
    BY <2>3 DEF FeesOwed
<1> QED
  BY <1>1, SystemInvAlways, PTL
-------------------------------------------------------------------------------
(* Quotes.                                                                     *)

\* The fee never exceeds the amount it is taken from.
LEMMA SdkFeeWithinAmount ==
    ASSUME NEW amount \in Nat, NEW fee_rate \in 0 .. FEE_DENOMINATOR - 1
    PROVE  SdkComputeFee(amount, fee_rate) \in Int /\ SdkComputeFee(amount, fee_rate) <= amount
<1> DEFINE D == FEE_DENOMINATOR
           x == amount * fee_rate
<1>1. D \in Nat \ {0} /\ fee_rate \in Nat
  BY FeeAssumption
<1>2. x \in Nat
  BY <1>1
<1>3. x <= amount * (D - 1)
  BY <1>1
<1>4. amount * (D - 1) = D * amount - amount /\ D * (amount + 1) = D * amount + D
  BY <1>1
<1>5. D * amount \in Nat
  BY <1>1
<1> HIDE DEF D, x
<1>6. x + D - 1 < D * (amount + 1)
  BY <1>1, <1>2, <1>3, <1>4, <1>5
<1>7. x + D - 1 \in Nat /\ amount + 1 \in Nat
  BY <1>1, <1>2
<1>8. (x + D - 1) \div D < amount + 1 /\ (x + D - 1) \div D \in Int
  <2> DEFINE y == x + D - 1
             m == amount + 1
  <2>1. y \in Int /\ m \in Int /\ y < D * m
    BY <1>6, <1>7
  <2> HIDE DEF y, m
  <2>2. y \div D < m /\ y \div D \in Int
    BY <1>1, <2>1, DivUpper, DivBounds
  <2> QED
    BY <2>2 DEF y, m
<1> QED
  BY <1>8 DEF SdkComputeFee, D, x

\* What token 1 of a move upwards costs.
LEMMA SdkCostUp ==
    ASSUME NEW current \in Int, NEW next \in Int, current <= next, NEW liquidity \in Nat
    PROVE  /\ SdkAmountIn(current, next, liquidity, FALSE)
                = (liquidity * (next - current) + Q64 - 1) \div Q64
           /\ SdkAmountIn(current, next, liquidity, FALSE) \in Int
<1>1. Greater(current, next) - Lesser(current, next) = next - current
  BY DEF Greater, Lesser
<1>2. SdkAmountIn(current, next, liquidity, FALSE)
        = (liquidity * (next - current) + Q64 - 1) \div Q64
  BY <1>1 DEF SdkAmountIn, SdkAmount1Delta, SdkDiv
<1>3. liquidity * (next - current) + Q64 - 1 \in Int
  BY WidthsPositive
<1> QED
  BY <1>2, <1>3, WidthsPositive, DivBounds

\* A step of the quote upwards ends between the price and the target, and parts
\* the whole amount into input and fee.
LEMMA SdkStepUp ==
    ASSUME NEW current \in Int, NEW target \in Int, current < target,
           NEW liquidity \in Nat \ {0}, NEW amount \in Nat,
           NEW fee_rate \in 0 .. FEE_DENOMINATOR - 1
    PROVE  LET step == SdkSwapStep(current, target, liquidity, amount, fee_rate)
           IN  /\ step.sqrt_price_next \in Int
               /\ current <= step.sqrt_price_next /\ step.sqrt_price_next <= target
               /\ step.amount_in \in Int
               /\ step.fee_amount = amount - step.amount_in
<1> DEFINE net  == amount - SdkComputeFee(amount, fee_rate)
           cost == SdkAmountIn(current, target, liquidity, FALSE)
           part == SdkPartway(current, liquidity, net, FALSE)
           next == IF net >= cost THEN target ELSE part
           step == SdkSwapStep(current, target, liquidity, amount, fee_rate)
<1>1. net \in Nat
  BY SdkFeeWithinAmount
<1> HIDE DEF net
<1>2. /\ step.sqrt_price_next = next
      /\ step.amount_in = SdkAmountIn(current, next, liquidity, FALSE)
      /\ step.fee_amount = amount - step.amount_in
  <2>1. (current >= target) = FALSE
    OBVIOUS
  <2> QED
    BY <2>1 DEF SdkSwapStep, next, part, cost, net
<1>3. next \in Int /\ current <= next /\ next <= target
  <2>1. CASE net >= cost
    BY <2>1
  <2>2. CASE ~(net >= cost)
    <3> DEFINE Q == Q64
               x == liquidity * (target - current)
               q == (x + Q - 1) \div Q
               move == (net * Q) \div liquidity
    <3>1. Q \in Nat \ {0}
      BY WidthsPositive
    <3>2. cost = q
      <4>1. liquidity \in Nat /\ current <= target
        OBVIOUS
      <4> QED
        BY <4>1, SdkCostUp
    <3>3. x \in Nat
      BY ONLY current \in Int, target \in Int, current < target, liquidity \in Nat \ {0}
    <3> HIDE DEF x, Q
    <3>4. q \in Int /\ Q * q \in Int /\ Q * q <= x + Q - 1
      BY <3>1, <3>3, DivBounds
    <3> HIDE DEF q, cost
    <3>5. net + 1 <= q
      BY <2>2, <3>2, <3>4, <1>1
    <3>6. Q * (net + 1) <= Q * q /\ Q * (net + 1) = net * Q + Q /\ net * Q \in Nat
      BY <1>1, <3>1, <3>4, <3>5
    <3>7. net * Q < liquidity * (target - current)
      BY <3>1, <3>3, <3>4, <3>6 DEF x
    <3>8. target - current \in Int
      OBVIOUS
    <3>9. move < target - current /\ move \in Nat
      BY <3>6, <3>7, <3>8, DivUpper, DivNat
    <3>10. part = current + move
      BY DEF SdkPartway, Q
    <3> HIDE DEF move, part
    <3>11. next = part
      BY <2>2
    <3> QED
      BY <3>9, <3>10, <3>11
  <2> QED
    BY <2>1, <2>2
<1> HIDE DEF next, step
<1>4. step.amount_in \in Int
  <2>1. liquidity \in Nat
    OBVIOUS
  <2>2. SdkAmountIn(current, next, liquidity, FALSE) \in Int
    BY <1>3, <2>1, SdkCostUp
  <2> QED
    BY <1>2, <2>2
<1> QED
  BY <1>2, <1>3, <1>4 DEF step
\* A quote after its first turn: nothing of the amount remains, so no second turn
\* is taken.
LEMMA QuoteIsOneTurn ==
    ASSUME NEW p, NEW amount \in Nat, NEW ticks, NEW zero_for_one, NEW limit,
           LET start == QuoteStart(p, amount, ticks, zero_for_one)
               once  == QuoteTurn(start, zero_for_one, limit, p.fee_rate)
           IN  once.amount_remaining = 0
    PROVE  QuoteSwap(p, amount, ticks, zero_for_one, limit)
             = QuoteTurn(QuoteStart(p, amount, ticks, zero_for_one), zero_for_one, limit,
                         p.fee_rate)
<1> DEFINE start   == QuoteStart(p, amount, ticks, zero_for_one)
           turn(q) == QuoteTurn(q, zero_for_one, limit, p.fee_rate)
           once    == turn(start)
           S       == {start, once}
           step    == [q \in S |-> turn(q)]
           N       == MAX_TICK_CROSSINGS
<1>1. N \in Nat \ {0}
  BY PoolAssumption
<1>2. once.amount_remaining = 0
  OBVIOUS
<1>3. turn(once) = once
  <2> HIDE DEF once
  <2>1. once.amount_remaining <= 0
    BY <1>2
  <2> QED
    BY <2>1 DEF QuoteTurn
<1> HIDE DEF start, N
<1>4. step \in [S -> S]
  <2> HIDE DEF turn
  <2> QED
    BY <1>3
<1> HIDE DEF S, step
<1>5. start \in S
  BY DEF S
<1>6. PICK f \in [0 .. N -> S] : Iterates(f, N, start, step)
  BY <1>1, <1>4, <1>5, IterationExists
<1> HIDE DEF turn
<1>7. ASSUME NEW n \in 0 .. N
      PROVE  f[n] = IF n = 0 THEN start ELSE turn(f[n - 1])
  <2>1. n # 0 => n - 1 \in 0 .. N
    BY <1>1
  <2>2. n # 0 => f[n - 1] \in S
    BY <1>6, <2>1
  <2>3. n # 0 => step[f[n - 1]] = turn(f[n - 1])
    BY <2>2 DEF step
  <2> QED
    BY <1>6, <2>3 DEF Iterates
<1>8. f = [n \in 0 .. N |-> IF n = 0 THEN start ELSE turn(f[n - 1])]
  BY <1>6, <1>7
<1> DEFINE after == CHOOSE g : g = [n \in 0 .. N |-> IF n = 0 THEN start ELSE turn(g[n - 1])]
<1>9. after = [n \in 0 .. N |-> IF n = 0 THEN start ELSE turn(after[n - 1])]
  BY <1>8
<1>10. QuoteSwap(p, amount, ticks, zero_for_one, limit) = after[N]
  BY DEF QuoteSwap, start, turn, N
<1> HIDE DEF after
<1>11. \A n \in 0 .. N : after[n] = IF n = 0 THEN start ELSE turn(after[n - 1])
  BY <1>9
<1> DEFINE D == {n \in Nat : n + 1 \in 0 .. N => after[n + 1] = once}
<1>12. 0 \in D
  <2>1. 0 \in 0 .. N /\ 1 \in 0 .. N
    BY <1>1
  <2> QED
    BY <1>11, <2>1
<1>13. ASSUME NEW n \in D PROVE n + 1 \in D
  <2>1. n \in Nat
    OBVIOUS
  <2>2. ASSUME n + 2 \in 0 .. N PROVE after[n + 2] = once
    <3>1. n + 1 \in 0 .. N /\ (n + 2) - 1 = n + 1 /\ n + 2 # 0
      BY <1>1, <2>1, <2>2
    <3>2. after[n + 1] = once
      BY <3>1
    <3> QED
      BY <1>3, <1>11, <2>2, <3>1, <3>2
  <2> QED
    BY <2>1, <2>2
<1>14. D = Nat
  <2> HIDE DEF D
  <2>1. D \in SUBSET Nat
    BY DEF D
  <2> QED
    BY <1>12, <1>13, <2>1, SetInduction
<1>15. after[N] = once
  <2>1. N - 1 \in Nat /\ (N - 1) + 1 = N
    BY <1>1
  <2>2. N - 1 \in D
    BY <1>14, <2>1
  <2> QED
    BY <1>1, <2>1, <2>2
<1> QED
  BY <1>10, <1>15 DEF start, turn

\* The nearest listed tick is one of those listed.
LEMMA NearestListed ==
    ASSUME NEW ahead, ahead # {}, \A b \in ahead : b.tick \in Ticks
    PROVE  NextBoundary(ahead, FALSE) \in ahead
<1> DEFINE places == {b.tick - MIN_TICK : b \in ahead}
<1>1. \A b \in ahead : b.tick \in Int /\ b.tick - MIN_TICK \in Nat
  BY TickAssumption DEF Ticks
<1>2. places \in SUBSET Nat /\ places # {}
  BY <1>1
<1>3. PICK m \in places : \A n \in places : m <= n
  <2> HIDE DEF places
  <2> QED
    BY <1>2, LeastNatural
<1>4. PICK b \in ahead : m = b.tick - MIN_TICK
  BY <1>3
<1>5. \A c \in ahead : b.tick - MIN_TICK <= c.tick - MIN_TICK
  BY <1>3, <1>4
<1>6. \A c \in ahead : b.tick <= c.tick
  BY <1>1, <1>5, TickAssumption
<1> QED
  BY <1>6 DEF NextBoundary

\* The target of the first turn upwards lies above the price, and not beyond the
\* limit.
LEMMA QuoteTargetUp ==
    ASSUME NEW p \in Pool, NEW amount, NEW limit \in U128, p.sqrt_price < limit,
           NEW ticks \in SUBSET {b \in LiveTicks : b.sqrt_price > p.sqrt_price}
    PROVE  LET target == QuoteTarget(QuoteStart(p, amount, ticks, FALSE), FALSE, limit)
           IN  target \in Int /\ p.sqrt_price < target /\ target <= limit
<1> DEFINE ahead  == QuoteStart(p, amount, ticks, FALSE).ahead
           b      == NextBoundary(ahead, FALSE)
           target == QuoteTarget(QuoteStart(p, amount, ticks, FALSE), FALSE, limit)
<1>1. ahead \subseteq ticks
  BY DEF QuoteStart
<1>2. p.sqrt_price \in Int /\ limit \in Int
  BY WidthsPositive DEF Pool
<1>3. CASE ahead = {}
  BY <1>2, <1>3 DEF QuoteTarget
<1>4. CASE ahead # {}
  <2>1. \A c \in ahead : c.tick \in Ticks /\ c.sqrt_price \in Int /\ c.sqrt_price > p.sqrt_price
    <3> SUFFICES ASSUME NEW c \in ahead
                 PROVE  c.tick \in Ticks /\ c.sqrt_price \in Int /\ c.sqrt_price > p.sqrt_price
      OBVIOUS
    <3>1. c \in LiveTicks /\ c.sqrt_price > p.sqrt_price
      BY <1>1
    <3>2. PICK t \in UsableTicks : c.tick = t /\ c.sqrt_price = SdkPriceAt(t)
      BY <3>1 DEF LiveTicks
    <3>3. t \in Ticks
      BY UsableAreTicks
    <3>4. SqrtPriceAt[t] \in Int
      BY <3>3, PriceAssumption, WidthsPositive
    <3>5. SdkPriceAt(t) \in Int
      BY <3>4, Q32Type, DivBounds DEF SdkPriceAt
    <3> QED
      BY <3>1, <3>2, <3>3, <3>5
  <2>2. b \in ahead
    <3> HIDE DEF ahead
    <3> QED
      BY <1>4, <2>1, NearestListed
  <2>3. b.sqrt_price \in Int /\ b.sqrt_price > p.sqrt_price
    <3> HIDE DEF ahead, b
    <3> QED
      BY <2>1, <2>2
  <2>4. target = Lesser(b.sqrt_price, limit)
    BY <1>4 DEF QuoteTarget
  <2> HIDE DEF target, b, ahead
  <2>5. target \in Int /\ p.sqrt_price < target /\ target <= limit
    BY <1>2, <2>3, <2>4 DEF Lesser
  <2> QED
    BY <2>5 DEF target
<1> QED
  BY <1>3, <1>4

\* Whatever live ticks above the price its client lists, and whatever happened
\* before: quoteSwap upwards spends the amount to the last unit and stops between
\* the price and the limit.
THEOREM QuoteHoldsLimitCorrect == Spec => []QuoteHoldsLimit
<1>1. SystemInv => QuoteHoldsLimit
  <2> SUFFICES ASSUME SystemInv, NEW amount \in SwapAmounts, NEW limit \in PriceLimits,
                      NEW ticks \in SUBSET {b \in LiveTicks : b.sqrt_price > pool.sqrt_price},
                      pool.initialized, pool.liquidity \in 1 .. U64Max,
                      limit > pool.sqrt_price
               PROVE  LET q == QuoteSwap(pool, amount, ticks, FALSE, limit)
                      IN  /\ q.amount_in + q.fee_amount = amount
                          /\ pool.sqrt_price <= q.sqrt_price /\ q.sqrt_price <= limit
    BY DEF QuoteHoldsLimit
  <2> DEFINE start  == QuoteStart(pool, amount, ticks, FALSE)
             target == QuoteTarget(start, FALSE, limit)
             step   == SdkSwapStep(pool.sqrt_price, target, pool.liquidity, amount,
                                   pool.fee_rate)
             once   == QuoteTurn(start, FALSE, limit, pool.fee_rate)
  <2>1. /\ pool \in Pool
        /\ amount \in Nat /\ limit \in U128 /\ limit \in Int
        /\ pool.liquidity \in Nat \ {0}
        /\ pool.sqrt_price \in Int /\ pool.fee_rate \in 0 .. FEE_DENOMINATOR - 1
    <3>1. pool \in Pool
      BY DEF SystemInv, LedgerInv, PoolTypeOK
    <3>2. amount \in Nat /\ limit \in U128 /\ limit \in Int
      BY PoolInputAssumption, WidthsPositive
    <3>3. pool.liquidity \in Nat \ {0}
      BY WidthsPositive DEF U64Max
    <3>4. pool.sqrt_price \in Int /\ pool.fee_rate \in 0 .. FEE_DENOMINATOR - 1
      BY <3>1, WidthsPositive DEF Pool
    <3> QED
      BY <3>1, <3>2, <3>3, <3>4
  <2>2. target \in Int /\ pool.sqrt_price < target /\ target <= limit
    BY <2>1, QuoteTargetUp
  <2>3. /\ start.sqrt_price = pool.sqrt_price /\ start.liquidity = pool.liquidity
        /\ start.amount_remaining = amount /\ start.crossings = 0 /\ start.broke = FALSE
        /\ start.amount_in = 0 /\ start.fee_amount = 0
    BY DEF QuoteStart
  <2> HIDE DEF target, start
  <2>4. /\ step.sqrt_price_next \in Int
        /\ pool.sqrt_price <= step.sqrt_price_next /\ step.sqrt_price_next <= target
        /\ step.amount_in \in Int
        /\ step.fee_amount = amount - step.amount_in
    BY <2>1, <2>2, SdkStepUp
  <2>5. \/ once = start /\ amount = 0
        \/ once = AfterQuoteStep(start, step, target, FALSE, limit)
    <3>1. ~(start.crossings >= MAX_TICK_CROSSINGS)
      BY <2>3, PoolAssumption
    <3>2. start.amount_remaining <= 0 => amount = 0
      BY <2>1, <2>3
    <3>3. once = IF start.broke \/ start.amount_remaining <= 0
                    \/ start.crossings >= MAX_TICK_CROSSINGS
                 THEN start ELSE AfterQuoteStep(start, step, target, FALSE, limit)
      BY <2>3 DEF QuoteTurn, target
    <3> HIDE DEF once, step
    <3> QED
      BY <2>3, <3>1, <3>2, <3>3
  <2> HIDE DEF step, once
  <2>6. /\ once.amount_remaining = 0
        /\ once.amount_in + once.fee_amount = amount
        /\ pool.sqrt_price <= once.sqrt_price /\ once.sqrt_price <= limit
    <3>1. CASE once = start /\ amount = 0
      BY <3>1, <2>1, <2>3
    <3>2. CASE once = AfterQuoteStep(start, step, target, FALSE, limit)
      <4>1. /\ once.sqrt_price = step.sqrt_price_next
            /\ once.amount_remaining = amount - (step.amount_in + step.fee_amount)
            /\ once.amount_in = 0 + step.amount_in
            /\ once.fee_amount = 0 + step.fee_amount
        BY <3>2, <2>3 DEF AfterQuoteStep
      <4>2. /\ pool.sqrt_price <= once.sqrt_price
            /\ once.amount_remaining = 0
            /\ once.amount_in + once.fee_amount = amount
        BY <4>1, <2>1, <2>4
      <4>3. once.sqrt_price <= limit
        BY <4>1, <2>1, <2>2, <2>4
      <4> QED
        BY <4>2, <4>3
    <3> QED
      BY <2>5, <3>1, <3>2
  <2>7. QuoteSwap(pool, amount, ticks, FALSE, limit) = once
    BY <2>1, <2>6, QuoteIsOneTurn DEF once, start
  <2> QED
    BY <2>6, <2>7
<1> QED
  BY <1>1, SystemInvAlways, PTL
-------------------------------------------------------------------------------
(* The quote is the swap.  Function by function, the SDK's unbounded numbers   *)
(* are the program's as long as the program's fit.                             *)

LEMMA FeesAgree ==
    ASSUME NEW amount \in U64, NEW fee_rate \in 0 .. FEE_DENOMINATOR - 1
    PROVE  SdkComputeFee(amount, fee_rate) = ComputeFee(amount, fee_rate)
<1> DEFINE F == FEE_DENOMINATOR
           Q == Q64
           x == amount * fee_rate
<1>1. /\ F \in Nat \ {0} /\ F <= Q - 1 /\ fee_rate \in Nat /\ fee_rate <= F - 1
      /\ Q \in Nat \ {0} /\ Q >= 2 /\ U128Max = Q * Q - 1 /\ Q * Q \in Nat
      /\ amount \in Nat /\ amount <= Q - 1
  BY FeeAssumption, FeeDenominatorAssumption, WidthsPositive DEF U64Max
<1> HIDE DEF F, Q
<1>2. x \in Nat /\ x <= (Q - 1) * (Q - 2)
  <2>1. fee_rate <= Q - 2
    BY <1>1
  <2>2. amount * fee_rate <= (Q - 1) * fee_rate
    BY <1>1
  <2>3. (Q - 1) * fee_rate <= (Q - 1) * (Q - 2)
    BY <1>1, <2>1
  <2>4. amount * fee_rate \in Nat /\ (Q - 1) * fee_rate \in Nat /\ (Q - 1) * (Q - 2) \in Nat
    BY <1>1
  <2> QED
    BY <2>2, <2>3, <2>4
<1>3. (Q - 1) * (Q - 2) = Q * Q - Q - Q - Q + 2
  BY <1>1
<1>4. SatMul(amount, fee_rate) = x
  <2>1. x <= U128Max
    BY <1>1, <1>2, <1>3
  <2> QED
    BY <1>1, <2>1, SatMulExact
<1> HIDE DEF x
<1>5. SatAdd(x, F - 1) = x + F - 1
  BY <1>1, <1>2, <1>3 DEF SatAdd
<1> QED
  BY <1>4, <1>5 DEF SdkComputeFee, ComputeFee, F, x

\* Token 0 between two prices, whose product is at least one.
LEMMA Delta0Agrees ==
    ASSUME NEW lower \in U128, NEW upper \in U128, lower <= upper, NEW liquidity \in U128,
           (upper * upper) \div Q64 <= U128Max, liquidity * upper <= U128Max,
           lower * upper >= Q64, NEW round_up \in BOOLEAN
    PROVE  GetAmount0Delta(lower, upper, liquidity, round_up)
             = SdkAmount0Delta(lower, upper, liquidity, round_up)
<1> DEFINE Q   == Q64
           M   == U128Max
           den == (lower * upper) \div Q
           num == liquidity * (upper - lower)
<1>1. /\ lower \in Nat /\ upper \in Nat /\ liquidity \in Nat
      /\ Q \in Nat \ {0} /\ Q >= 2 /\ M \in Nat /\ M = Q * Q - 1 /\ Q * Q \in Nat
  BY WidthsPositive, U128IsNat
<1>2. Lesser(lower, upper) = lower /\ Greater(lower, upper) = upper
  BY <1>1 DEF Lesser, Greater
<1>3. lower # 0
  BY <1>1
<1>4. den \in Nat /\ den >= 1 /\ den <= M /\ Q * den <= lower * upper
  <2> DEFINE x == lower * upper
             y == upper * upper
  <2>1. x \in Nat /\ y \in Nat /\ x <= y /\ Q * 1 <= x
    BY <1>1
  <2>2. y \div Q <= M
    OBVIOUS
  <2> HIDE DEF x, y, Q, M
  <2>3. x \div Q <= y \div Q /\ x \div Q \in Nat /\ y \div Q \in Nat /\ Q * (x \div Q) <= x
    BY <1>1, <2>1, DivMonotone, DivNat, DivBounds
  <2>4. 1 <= x \div Q
    BY <1>1, <2>1, DivLower
  <2> QED
    BY <1>1, <2>2, <2>3, <2>4 DEF x
<1>5. MulQ64(lower, upper) = den
  BY <1>4, MulQ64Product
<1>6. num \in Nat /\ num + den <= M
  <2>1. num \in Nat
    BY <1>1
  <2> HIDE DEF den
  <2>2. upper * upper <= Q * M + Q - 1
    <3> DEFINE y == upper * upper
    <3>1. y \in Nat
      BY <1>1
    <3>2. y \div Q <= M
      OBVIOUS
    <3> HIDE DEF y, Q, M
    <3> DEFINE q == y \div Q
    <3>3. q \in Int /\ y < Q * q + Q /\ Q * q \in Int /\ q <= M
      BY <1>1, <3>1, <3>2, DivBounds
    <3> HIDE DEF q
    <3>4. Q * q <= Q * M /\ Q * M \in Nat
      BY <1>1, <3>3
    <3> QED
      BY <1>1, <3>1, <3>3, <3>4 DEF y
  <2>3. Q * (num + den) <= Q * num + lower * upper
    BY <1>1, <1>4, <2>1
  <2>4. Q * num + lower * upper <= Q * M + Q - 1
    <3> DEFINE w == upper - lower
               k == liquidity * Q
    <3>1. w \in Nat /\ upper = w + lower /\ k \in Nat /\ Q * num = k * w
      BY <1>1
    <3>2. k * upper <= Q * M
      <4> DEFINE z == liquidity * upper
      <4>1. z \in Nat /\ z <= M /\ k * upper = Q * z
        BY <1>1
      <4> HIDE DEF z, k
      <4> QED
        BY <1>1, <4>1
    <3> HIDE DEF w, k, num
    <3>3. CASE upper <= k
      <4>1. lower * upper <= k * lower
        BY <1>1, <3>1, <3>3
      <4>2. k * upper = k * w + k * lower /\ k * w \in Nat /\ k * lower \in Nat
        BY <1>1, <3>1
      <4>3. lower * upper \in Nat /\ Q * M \in Nat
        BY <1>1
      <4> QED
        BY <1>1, <3>1, <3>2, <4>1, <4>2, <4>3
    <3>4. CASE k <= upper
      <4>1. k * w <= upper * w
        BY <1>1, <3>1, <3>4
      <4>2. upper * upper = upper * w + lower * upper /\ upper * w \in Nat /\ lower * upper \in Nat
        BY <1>1, <3>1
      <4>3. k * w \in Nat /\ Q * M \in Nat
        BY <1>1, <3>1
      <4> QED
        BY <1>1, <2>2, <3>1, <4>1, <4>2, <4>3
    <3> QED
      BY <1>1, <3>1, <3>3, <3>4
  <2> HIDE DEF num
  <2>5. Q * (num + den) < Q * (M + 1)
    <3>1. Q * (M + 1) = Q * M + Q /\ Q * M \in Nat
      BY <1>1
    <3>2. Q * (num + den) \in Nat /\ Q * num + lower * upper \in Nat
      BY <1>1, <1>4, <2>1
    <3> QED
      BY <1>1, <2>3, <2>4, <3>1, <3>2
  <2>6. num + den < M + 1
    <3> DEFINE a == num + den
               b == M + 1
    <3>1. a \in Nat /\ b \in Nat /\ Q * a < Q * b
      BY <1>1, <1>4, <2>1, <2>5
    <3> HIDE DEF a, b
    <3>2. a < b
      BY <1>1, <3>1
    <3> QED
      BY <3>2 DEF a, b
  <2> QED
    BY <1>1, <1>4, <2>1, <2>6
<1>7. SatMul(liquidity, upper - lower) = num
  <2>1. upper - lower \in Nat /\ liquidity * (upper - lower) <= U128Max
    BY <1>1, <1>4, <1>6
  <2> QED
    BY <1>1, <2>1, SatMulExact
<1> HIDE DEF num
<1>8. SatAdd(num, den - 1) = num + den - 1
  BY <1>1, <1>4, <1>6 DEF SatAdd
<1>9. GetAmount0Delta(lower, upper, liquidity, round_up)
        = IF round_up THEN (num + den - 1) \div den ELSE num \div den
  <2> HIDE DEF den
  <2> QED
    BY <1>2, <1>3, <1>4, <1>5, <1>7, <1>8 DEF GetAmount0Delta, CeilDiv
<1>10. SdkAmount0Delta(lower, upper, liquidity, round_up)
        = IF round_up THEN (num + den - 1) \div den ELSE num \div den
  <2>1. SdkMulQ64(lower, upper) = den
    BY DEF SdkMulQ64
  <2> HIDE DEF den
  <2> QED
    BY <1>2, <1>3, <1>4, <2>1 DEF SdkAmount0Delta, SdkDiv, num
<1> QED
  BY <1>9, <1>10

\* Two prices whose product is less than one: the program takes that for out of
\* reach.
LEMMA OutOfReach ==
    ASSUME NEW lower \in U128, NEW upper \in U128, lower <= upper, NEW liquidity \in U128,
           lower * upper < Q64, NEW round_up \in BOOLEAN
    PROVE  GetAmount0Delta(lower, upper, liquidity, round_up) = U128Max
<1>1. lower \in Nat /\ upper \in Nat /\ Q64 \in Nat \ {0} /\ U128Max \in Nat
  BY WidthsPositive, U128IsNat
<1>2. (lower * upper) \div Q64 = 0
  <2> DEFINE x == lower * upper
  <2>1. x \in 0 .. Q64 - 1
    BY <1>1
  <2> HIDE DEF x
  <2>2. x = Q64 * 0 + x
    BY <2>1, <1>1
  <2>3. x \div Q64 = 0
    BY <1>1, <2>1, <2>2, DivUnique
  <2> QED
    BY <2>3 DEF x
<1>3. MulQ64(lower, upper) = 0
  BY <1>1, <1>2, MulQ64Product
<1>4. Lesser(lower, upper) = lower /\ Greater(lower, upper) = upper
  BY <1>1 DEF Lesser, Greater
<1> QED
  BY <1>3, <1>4 DEF GetAmount0Delta

\* The order of the two prices does not matter.
LEMMA Delta0Symmetric ==
    ASSUME NEW a \in U128, NEW b \in U128, NEW liquidity
    PROVE  /\ GetAmount0Delta(a, b, liquidity, TRUE) = GetAmount0Delta(b, a, liquidity, TRUE)
           /\ SdkAmount0Delta(a, b, liquidity, TRUE) = SdkAmount0Delta(b, a, liquidity, TRUE)
           /\ GetAmount1Delta(a, b, liquidity, FALSE) = GetAmount1Delta(b, a, liquidity, FALSE)
           /\ SdkAmount1Delta(a, b, liquidity, FALSE) = SdkAmount1Delta(b, a, liquidity, FALSE)
<1>1. Lesser(a, b) = Lesser(b, a) /\ Greater(a, b) = Greater(b, a)
  BY U128IsNat DEF Lesser, Greater
<1> QED
  BY <1>1 DEF GetAmount0Delta, SdkAmount0Delta, GetAmount1Delta, SdkAmount1Delta

\* Token 1 between two prices, rounded down.
LEMMA Delta1Agrees ==
    ASSUME NEW lower \in U128, NEW upper \in U128, lower <= upper, NEW liquidity \in U128,
           liquidity * upper <= U128Max
    PROVE  GetAmount1Delta(lower, upper, liquidity, FALSE)
             = SdkAmount1Delta(lower, upper, liquidity, FALSE)
<1>1. lower \in Nat /\ upper \in Nat /\ liquidity \in Nat /\ U128Max \in Nat
  BY WidthsPositive, U128IsNat
<1>2. Lesser(lower, upper) = lower /\ Greater(lower, upper) = upper
  BY <1>1 DEF Lesser, Greater
<1>3. upper - lower \in Nat /\ liquidity * (upper - lower) <= U128Max
  <2>1. liquidity * (upper - lower) <= liquidity * upper
    BY <1>1
  <2>2. liquidity * (upper - lower) \in Nat /\ liquidity * upper \in Nat
    BY <1>1
  <2> QED
    BY <1>1, <2>1, <2>2
<1>4. SatMul(liquidity, upper - lower) = liquidity * (upper - lower)
  BY <1>1, <1>3, SatMulExact
<1> QED
  BY <1>2, <1>4 DEF GetAmount1Delta, SdkAmount1Delta, SdkDiv
\* Token 1 upwards, where an amount of u64 pays for it.
LEMMA CostAgrees ==
    ASSUME NEW current \in Nat, NEW next \in Nat, current <= next, NEW liquidity \in Nat,
           NEW net \in 0 .. Q64 - 2
    PROVE  /\ liquidity * (next - current) <= Q64 * net =>
                 AmountIn(current, next, liquidity, FALSE)
                   = SdkAmountIn(current, next, liquidity, FALSE)
           /\ net >= AmountIn(current, next, liquidity, FALSE)
                <=> net >= SdkAmountIn(current, next, liquidity, FALSE)
<1> DEFINE Q == Q64
           w == next - current
           x == liquidity * w
           cost == (x + Q - 1) \div Q
<1>1. /\ Q \in Nat \ {0} /\ Q >= 2 /\ U128Max = Q * Q - 1 /\ Q * Q \in Nat
      /\ w \in Nat /\ x \in Nat /\ net \in 0 .. Q - 2
  BY WidthsPositive
<1>2. AmountIn(current, next, liquidity, FALSE) = CeilDiv(SatMul(liquidity, w), Q)
  BY DEF AmountIn, GetAmount1Delta, Greater, Lesser
<1>3. SdkAmountIn(current, next, liquidity, FALSE) = cost
  <2>1. current \in Int /\ next \in Int
    OBVIOUS
  <2> QED
    BY <2>1, SdkCostUp, Zenon
<1>4. CeilDiv(SatMul(liquidity, w), Q) <= net => x <= Q * net
  BY <1>1, CostReached
<1>5. CeilDiv(SatMul(liquidity, w), Q) \in Nat
  <2>1. SatMul(liquidity, w) \in U128
    BY <1>1, SatMulType
  <2> HIDE DEF Q, w
  <2>2. CeilDiv(SatMul(liquidity, w), Q) \in U128
    BY <1>1, <2>1, CeilDivType
  <2> QED
    BY <2>2, U128IsNat
<1> HIDE DEF w
<1>6. x <= Q * net => CeilDiv(SatMul(liquidity, w), Q) = cost
  <2> SUFFICES ASSUME x <= Q * net PROVE CeilDiv(SatMul(liquidity, w), Q) = cost
    OBVIOUS
  <2> HIDE DEF Q, x
  <2>1. Q * net <= Q * (Q - 2) /\ Q * (Q - 2) = Q * Q - Q - Q /\ Q * net \in Nat
    BY <1>1
  <2>2. x + Q - 1 <= U128Max /\ x <= U128Max
    BY <1>1, <2>1
  <2>3. SatMul(liquidity, w) = x
    BY <1>1, <2>2, SatMulExact DEF x
  <2>4. SatAdd(x, Q - 1) = x + Q - 1
    BY <1>1, <2>2 DEF SatAdd
  <2> QED
    BY <2>3, <2>4 DEF CeilDiv
<1>7. cost <= net => x <= Q * net
  <2> SUFFICES ASSUME cost <= net PROVE x <= Q * net
    OBVIOUS
  <2> HIDE DEF Q, x
  <2>1. cost \in Int /\ x + Q - 1 < Q * cost + Q /\ Q * cost \in Int
    BY <1>1, DivBounds
  <2> HIDE DEF cost
  <2>2. Q * cost <= Q * net /\ Q * net \in Int
    BY <1>1, <2>1
  <2> QED
    BY <1>1, <2>1, <2>2
<1>8. cost \in Int
  <2> HIDE DEF x, Q
  <2> QED
    BY <1>1, DivBounds
<1> HIDE DEF cost, x, Q
<1>9. net >= CeilDiv(SatMul(liquidity, w), Q) <=> net >= cost
  BY <1>1, <1>4, <1>5, <1>6, <1>7, <1>8
<1> QED
  BY <1>2, <1>3, <1>6, <1>9 DEF w, x, Q

\* A step upwards whose output a u64 holds is the SDK's.
LEMMA UpStepAgrees ==
    ASSUME NEW current \in U128, NEW target \in U128, current < target,
           NEW liquidity \in U128 \ {0}, NEW amount \in U64,
           NEW fee_rate \in 1 .. FEE_DENOMINATOR - 1,
           (current * target) \div Q64 <= U128Max,
           ComputeSwapStep(current, target, liquidity, amount, fee_rate).amount_out <= U64Max
    PROVE  LET step == ComputeSwapStep(current, target, liquidity, amount, fee_rate)
               sdk  == SdkSwapStep(current, target, liquidity, amount, fee_rate)
           IN  /\ sdk.sqrt_price_next = step.sqrt_price_next
               /\ sdk.amount_in = step.amount_in
               /\ sdk.amount_out = step.amount_out
               /\ sdk.fee_amount = amount - step.amount_in
<1> DEFINE net   == AmountLessFee(amount, fee_rate)
           next  == NextSqrtPrice(current, target, liquidity, net, FALSE)
           ain   == AmountIn(current, next, liquidity, FALSE)
           aout  == AmountOut(current, next, liquidity, FALSE)
           step  == ComputeSwapStep(current, target, liquidity, amount, fee_rate)
           sdk   == SdkSwapStep(current, target, liquidity, amount, fee_rate)
           there == IF net >= SdkAmountIn(current, target, liquidity, FALSE) THEN target
                    ELSE SdkPartway(current, liquidity, net, FALSE)
<1>1. /\ current \in Nat /\ target \in Nat /\ liquidity \in Nat \ {0} /\ liquidity \in Nat
      /\ Q64 \in Nat \ {0} /\ amount \in Nat /\ U128Max \in Nat /\ target <= U128Max
      /\ fee_rate \in Nat \ {0} /\ fee_rate \in 0 .. FEE_DENOMINATOR - 1
      /\ U64Max < U128Max
  <2>1. U64Max < U128Max
    BY WidthsPositive DEF U64Max
  <2> QED
    BY <2>1, WidthsPositive, U128IsNat, FeeAssumption
<1>2. net \in 0 .. Q64 - 2
  BY <1>1, NetBelowWidth
<1>3. net = amount - SdkComputeFee(amount, fee_rate)
  BY <1>1, FeesAgree, FeeWithinAmount
<1>4. (current >= target) = FALSE
  BY <1>1
<1>5. step = StepResult(next, ain, aout, amount)
  BY <1>4, Zenon DEF ComputeSwapStep, StepPrice, StepTo
<1>6. /\ sdk.sqrt_price_next = there
      /\ sdk.amount_in = SdkAmountIn(current, there, liquidity, FALSE)
      /\ sdk.amount_out = SdkAmountOut(current, there, liquidity, FALSE)
      /\ sdk.fee_amount = amount - SdkAmountIn(current, there, liquidity, FALSE)
  BY <1>3, <1>4 DEF SdkSwapStep
<1>7. /\ current <= step.sqrt_price_next /\ step.sqrt_price_next <= target
      /\ step.amount_in <= net
      /\ step.amount_in * Q64 >= liquidity * (step.sqrt_price_next - current)
  BY <1>1, UpwardStep
<1>8. step \in SwapStep
  <2>1. liquidity \in U128 /\ amount \in U128 /\ fee_rate \in Nat
    BY <1>1, WidthsPositive
  <2> QED
    BY <2>1, ComputeSwapStepType
<1>9. there \in Int /\ current <= there /\ there <= target
  <2>1. current \in Int /\ target \in Int
    BY <1>1
  <2>2. /\ sdk.sqrt_price_next \in Int
        /\ current <= sdk.sqrt_price_next /\ sdk.sqrt_price_next <= target
    BY <1>1, <2>1, SdkStepUp
  <2> HIDE DEF sdk, there
  <2> QED
    BY <1>6, <2>2
<1> HIDE DEF net, step, sdk, ain, aout
<1>10. there = next
  <2>1. net >= AmountIn(current, target, liquidity, FALSE)
          <=> net >= SdkAmountIn(current, target, liquidity, FALSE)
    <3>1. current <= target
      BY <1>1
    <3> QED
      BY <1>1, <1>2, <3>1, CostAgrees, Zenon
  <2>2. CASE net >= AmountIn(current, target, liquidity, FALSE)
    BY <2>1, <2>2 DEF NextSqrtPrice
  <2>3. CASE ~(net >= AmountIn(current, target, liquidity, FALSE))
    <3> DEFINE m == (net * Q64) \div liquidity
    <3>1. there = current + m
      BY <2>1, <2>3 DEF SdkPartway
    <3>2. m \in Nat
      <4>1. net * Q64 \in Nat
        BY <1>1, <1>2
      <4> QED
        BY <1>1, <4>1, DivNat
    <3>3. next = SatAdd(current, m)
      <4>1. net % Q64 = net
        BY <1>1, <1>2
      <4> QED
        BY <1>1, <2>3, <4>1 DEF NextSqrtPrice, NextSqrtPriceFromAmount1
    <3> HIDE DEF m, there, next
    <3> QED
      BY <1>1, <1>9, <3>1, <3>2, <3>3 DEF SatAdd
  <2> QED
    BY <2>2, <2>3
<1> HIDE DEF there, next
<1>11. /\ step.sqrt_price_next = next /\ step.amount_in = ain /\ step.amount_out = aout
       /\ next \in U128 /\ ain \in Nat /\ next \in Nat /\ aout <= U64Max
  <2>1. step.sqrt_price_next = next /\ step.amount_in = ain /\ step.amount_out = aout
    BY <1>5 DEF StepResult
  <2>2. aout <= U64Max
    BY <2>1 DEF step
  <2> QED
    BY <1>8, <2>1, <2>2, U128IsNat DEF SwapStep
<1>12. liquidity * (next - current) <= Q64 * net
  <2>1. ain * Q64 <= net * Q64 /\ net * Q64 = Q64 * net /\ ain * Q64 \in Nat /\ Q64 * net \in Nat
    BY <1>1, <1>2, <1>7, <1>11
  <2>2. liquidity * (next - current) \in Int
    BY <1>1, <1>11
  <2> QED
    BY <1>7, <1>11, <2>1, <2>2
<1>13. ain = SdkAmountIn(current, next, liquidity, FALSE)
  BY <1>1, <1>2, <1>7, <1>11, <1>12, CostAgrees DEF ain
<1>14. aout = SdkAmountOut(current, next, liquidity, FALSE)
  <2> DEFINE den == (current * next) \div Q64
  <2>1. liquidity * (next - current) <= U128Max
    <3>1. Q64 * net <= Q64 * (Q64 - 2) /\ Q64 * (Q64 - 2) = Q64 * Q64 - Q64 - Q64
          /\ U128Max = Q64 * Q64 - 1 /\ Q64 * net \in Nat /\ Q64 * Q64 \in Nat
      BY <1>1, <1>2, WidthsPositive
    <3>2. liquidity * (next - current) \in Int
      BY <1>1, <1>11
    <3> QED
      BY <1>1, <1>12, <3>1, <3>2
  <2>2. /\ den \in Nat
        /\ aout = IF current = 0 \/ den = 0 THEN U128Max
                  ELSE (liquidity * (next - current)) \div den
    BY <1>1, <1>7, <1>11, <2>1, OutputUp DEF aout, AmountOut
  <2> HIDE DEF den
  <2>3. current # 0 /\ den # 0
    <3>1. aout # U128Max
      <4>1. U64Max \in Int /\ U128Max \in Int
        BY WidthsPositive DEF U64Max
      <4> QED
        BY <1>1, <1>11, <4>1
    <3> QED
      BY <2>2, <3>1, Zenon
  <2>4. SdkAmountOut(current, next, liquidity, FALSE) = (liquidity * (next - current)) \div den
    <3>1. Lesser(current, next) = current /\ Greater(current, next) = next
      BY <1>1, <1>7, <1>11 DEF Lesser, Greater
    <3> QED
      BY <2>3, <3>1 DEF SdkAmountOut, SdkAmount0Delta, SdkDiv, SdkMulQ64, den
  <2> QED
    BY <2>2, <2>3, <2>4
<1>15. /\ sdk.sqrt_price_next = step.sqrt_price_next
       /\ sdk.amount_in = step.amount_in
       /\ sdk.amount_out = step.amount_out
       /\ sdk.fee_amount = amount - step.amount_in
  BY <1>6, <1>10, <1>11, <1>13, <1>14
<1> QED
  BY <1>15 DEF step, sdk

\* A step downwards whose products fit, and that ends where the product of the two
\* prices is at least one, is the SDK's.
LEMMA DownStepAgrees ==
    ASSUME NEW current \in U128, NEW target \in U128, target <= current,
           NEW liquidity \in U64 \ {0}, NEW amount \in U64,
           NEW fee_rate \in 0 .. FEE_DENOMINATOR - 1,
           (current * current) \div Q64 <= U128Max,
           amount * current <= U128Max, liquidity * current <= U128Max,
           SdkSwapStep(current, target, liquidity, amount, fee_rate).sqrt_price_next * current >= Q64
    PROVE  LET step == ComputeSwapStep(current, target, liquidity, amount, fee_rate)
               sdk  == SdkSwapStep(current, target, liquidity, amount, fee_rate)
           IN  /\ sdk.sqrt_price_next = step.sqrt_price_next
               /\ sdk.amount_in = step.amount_in
               /\ sdk.amount_out = step.amount_out
               /\ sdk.fee_amount = amount - step.amount_in
<1> DEFINE net   == AmountLessFee(amount, fee_rate)
           next  == NextSqrtPrice(current, target, liquidity, net, TRUE)
           ain   == AmountIn(current, next, liquidity, TRUE)
           aout  == AmountOut(current, next, liquidity, TRUE)
           step  == ComputeSwapStep(current, target, liquidity, amount, fee_rate)
           sdk   == SdkSwapStep(current, target, liquidity, amount, fee_rate)
           part  == SdkPartway(current, liquidity, net, TRUE)
           there == IF net >= SdkAmountIn(current, target, liquidity, TRUE) THEN target ELSE part
           Q == Q64
           M == U128Max
<1>1. /\ current \in Nat /\ target \in Nat /\ liquidity \in Nat \ {0} /\ liquidity <= Q - 1
      /\ Q \in Nat \ {0} /\ Q >= 2 /\ amount \in Nat /\ M \in Nat /\ M = Q * Q - 1 /\ Q * Q \in Nat
      /\ liquidity \in U128 /\ amount \in U128 /\ fee_rate \in Nat /\ amount <= Q - 1
  <2>1. liquidity \in U128 /\ amount \in U128
    BY WidthsPositive
  <2> QED
    BY <2>1, WidthsPositive, U128IsNat, FeeAssumption
<1>2. net \in Nat /\ net <= amount /\ net = amount - SdkComputeFee(amount, fee_rate)
  BY <1>1, FeesAgree, FeeWithinAmount
<1>3. (current >= target) = TRUE
  BY <1>1
<1>4. step = StepResult(next, ain, aout, amount)
  BY <1>3, Zenon DEF ComputeSwapStep, StepPrice, StepTo
<1>5. /\ sdk.sqrt_price_next = there
      /\ sdk.amount_in = SdkAmountIn(current, there, liquidity, TRUE)
      /\ sdk.amount_out = SdkAmountOut(current, there, liquidity, TRUE)
      /\ sdk.fee_amount = amount - SdkAmountIn(current, there, liquidity, TRUE)
  BY <1>2, <1>3 DEF SdkSwapStep
<1>6. there * current >= Q
  <2>1. sdk.sqrt_price_next * current >= Q
    OBVIOUS
  <2> HIDE DEF sdk, there, Q
  <2> QED
    BY <1>5, <2>1
<1> HIDE DEF net, step, sdk, ain, aout
\* The price part of the way.
<1>7. /\ NextSqrtPriceFromAmount0(current, liquidity, net) = part
      /\ part = current \/ (part \in Nat /\ part <= Q)
  <2> DEFINE num == liquidity * Q
             q   == (net * current) \div Q
             den == liquidity + q
  <2>1. liquidity % Q64 = liquidity /\ num \in Nat
    BY <1>1
  <2>2. SatMul(net, current) = net * current /\ net * current \in Nat /\ net * current <= M
    <3>1. net * current <= amount * current /\ net * current \in Nat /\ amount * current \in Nat
      BY <1>1, <1>2
    <3>2. net * current <= U128Max
      BY <1>1, <3>1
    <3> QED
      BY <1>1, <1>2, <3>1, <3>2, SatMulExact
  <2>3. q \in Nat /\ q < Q
    <3> DEFINE x == net * current
    <3>1. x \in Nat /\ x < Q * Q
      BY <1>1, <2>2
    <3> HIDE DEF x, Q
    <3> QED
      BY <1>1, <3>1, DivUpper, DivNat DEF x
  <2> HIDE DEF q
  <2>4. den \in Nat \ {0} /\ den <= Q + Q - 2
    BY <1>1, <2>3
  <2>5. num \div Q64 = liquidity
    <3>1. num = Q64 * liquidity + 0
      BY <1>1
    <3>2. 0 \in 0 .. Q64 - 1 /\ num \in Int
      BY <1>1, <2>1
    <3> HIDE DEF num, Q
    <3> QED
      BY <1>1, <3>1, <3>2, DivUnique DEF Q
  <2>6. SatAdd(liquidity, q) = den
    <3>1. Q + Q - 2 <= Q * Q - 1
      <4>1. Q * Q >= 2 * Q
        BY <1>1
      <4> QED
        BY <1>1, <4>1
    <3>2. liquidity + q <= U128Max
      BY <1>1, <2>3, <2>4, <3>1
    <3>3. U128Max \in Int /\ liquidity + q \in Int
      BY <1>1, <2>3
    <3> QED
      BY <3>2, <3>3 DEF SatAdd, den
  <2>7. SatMul(net, current) \div Q64 = q
    BY <2>2 DEF q
  <2>8. NextSqrtPriceFromAmount0(current, liquidity, net)
          = IF net = 0 THEN current ELSE num \div den
    <3> HIDE DEF den
    <3> QED
      BY <2>1, <2>4, <2>5, <2>6, <2>7 DEF NextSqrtPriceFromAmount0, num
  <2>9. part = IF net = 0 THEN current ELSE num \div den
    <3>1. part = IF net = 0 THEN current
                 ELSE IF den = 0 THEN 0 ELSE num \div den
      BY DEF SdkPartway, q
    <3> HIDE DEF den
    <3> QED
      BY <2>4, <3>1
  <2>10. num \div den \in Nat /\ num \div den <= Q
    <3>1. num < den * (Q + 1)
      <4>1. num <= den * Q
        BY <1>1, <2>3
      <4>2. den * (Q + 1) = den * Q + den /\ den * Q \in Nat
        BY <1>1, <2>4
      <4> QED
        BY <2>1, <2>4, <4>1, <4>2
    <3> HIDE DEF num, den
    <3> DEFINE m == Q + 1
    <3>2. m \in Int /\ num < den * m
      BY <1>1, <3>1
    <3> HIDE DEF m
    <3>3. num \div den < m /\ num \div den \in Nat
      BY <2>1, <2>4, <3>2, DivUpper, DivNat
    <3> QED
      BY <1>1, <3>3 DEF m
  <2> HIDE DEF num, den, part
  <2>11. CASE net = 0
    BY <2>8, <2>9, <2>11
  <2>12. CASE net # 0
    BY <2>8, <2>9, <2>10, <2>12
  <2> QED
    BY <2>11, <2>12
<1> HIDE DEF part
\* Within reach, the amounts of the two are the same.
<1>8. ASSUME NEW p \in U128, p * current >= Q, p <= current \/ p <= Q
      PROVE  /\ AmountIn(current, p, liquidity, TRUE) = SdkAmountIn(current, p, liquidity, TRUE)
             /\ AmountOut(current, p, liquidity, TRUE) = SdkAmountOut(current, p, liquidity, TRUE)
  <2>1. CASE p <= current
    <3>1. GetAmount0Delta(p, current, liquidity, TRUE) = SdkAmount0Delta(p, current, liquidity, TRUE)
      BY <1>1, <1>8, <2>1, Delta0Agrees
    <3>2. GetAmount1Delta(p, current, liquidity, FALSE) = SdkAmount1Delta(p, current, liquidity, FALSE)
      BY <1>1, <2>1, Delta1Agrees
    <3> QED
      BY <3>1, <3>2 DEF AmountIn, AmountOut, SdkAmountIn, SdkAmountOut
  <2>2. CASE ~(p <= current)
    <3>1. p \in Nat /\ current <= p /\ p <= Q /\ current * p >= Q
      BY <1>1, <1>8, <2>2, U128IsNat
    <3>2. liquidity * p <= U128Max
      <4>1. liquidity * p <= (Q - 1) * p /\ (Q - 1) * p <= (Q - 1) * Q /\ (Q - 1) * Q = Q * Q - Q
        BY <1>1, <3>1
      <4>2. liquidity * p \in Nat /\ (Q - 1) * p \in Nat
        BY <1>1, <3>1
      <4> QED
        BY <1>1, <4>1, <4>2
    <3>3. (p * p) \div Q64 <= U128Max
      <4> DEFINE x == p * p
      <4>1. x \in Nat /\ x <= Q * Q
        BY <1>1, <3>1
      <4>2. Q * Q < Q * (Q + 1) /\ Q + 1 <= M + 1
        BY <1>1
      <4> HIDE DEF x
      <4>3. x \div Q64 < Q + 1 /\ x \div Q64 \in Nat
        <5> DEFINE m == Q + 1
        <5>1. m \in Int /\ x < Q64 * m
          BY <1>1, <4>1, <4>2
        <5> HIDE DEF m
        <5>2. Q64 \in Nat \ {0} /\ x \in Nat /\ x \in Int
          BY <1>1, <4>1
        <5>3. x \div Q64 < m
          BY <5>1, <5>2, DivUpper
        <5>4. x \div Q64 \in Nat
          BY <5>2, DivNat
        <5> QED
          BY <5>3, <5>4 DEF m
      <4>4. x \div Q64 <= U128Max
        BY <1>1, <4>2, <4>3
      <4> QED
        BY <4>4 DEF x
    <3>4. GetAmount0Delta(current, p, liquidity, TRUE) = SdkAmount0Delta(current, p, liquidity, TRUE)
      BY <1>1, <1>8, <3>1, <3>2, <3>3, Delta0Agrees
    <3>5. GetAmount1Delta(current, p, liquidity, FALSE) = SdkAmount1Delta(current, p, liquidity, FALSE)
      BY <1>1, <1>8, <3>1, <3>2, Delta1Agrees
    <3>6. GetAmount0Delta(p, current, liquidity, TRUE) = SdkAmount0Delta(p, current, liquidity, TRUE)
      <4>1. /\ GetAmount0Delta(p, current, liquidity, TRUE)
                 = GetAmount0Delta(current, p, liquidity, TRUE)
            /\ SdkAmount0Delta(p, current, liquidity, TRUE)
                 = SdkAmount0Delta(current, p, liquidity, TRUE)
        BY Delta0Symmetric
      <4> QED
        BY <3>4, <4>1, Zenon
    <3>7. GetAmount1Delta(p, current, liquidity, FALSE) = SdkAmount1Delta(p, current, liquidity, FALSE)
      <4>1. /\ GetAmount1Delta(p, current, liquidity, FALSE)
                 = GetAmount1Delta(current, p, liquidity, FALSE)
            /\ SdkAmount1Delta(p, current, liquidity, FALSE)
                 = SdkAmount1Delta(current, p, liquidity, FALSE)
        BY Delta0Symmetric
      <4> QED
        BY <3>5, <4>1, Zenon
    <3> QED
      BY <3>6, <3>7 DEF AmountIn, AmountOut, SdkAmountIn, SdkAmountOut
  <2> QED
    BY <2>1, <2>2
<1>9. there = next
  <2>1. NextSqrtPrice(current, target, liquidity, net, TRUE)
          = IF net >= AmountIn(current, target, liquidity, TRUE) THEN target ELSE part
    BY <1>7 DEF NextSqrtPrice
  <2>2. CASE target * current >= Q
    BY <1>8, <2>1, <2>2
  <2>3. CASE ~(target * current >= Q)
    <3>1. AmountIn(current, target, liquidity, TRUE) = U128Max
      <4>1. target * current < Q64
        BY <1>1, <2>3
      <4> QED
        BY <1>1, <4>1, OutOfReach DEF AmountIn
    <3>2. ~(net >= AmountIn(current, target, liquidity, TRUE))
      <4>1. Q - 1 < M
        BY <1>1, WidthsPositive
      <4>2. amount \in Nat /\ amount < M /\ M \in Nat
        BY <1>1, <4>1
      <4>3. net \in Nat /\ net <= amount
        BY <1>2
      <4> HIDE DEF net
      <4>4. ~(net >= M)
        BY <4>2, <4>3
      <4> QED
        BY <3>1, <4>4
    <3>3. there = part
      BY <1>6, <2>3
    <3> QED
      BY <2>1, <3>2, <3>3
  <2> QED
    BY <2>2, <2>3
<1>10. there \in U128 /\ (there <= current \/ there <= Q)
  <2>1. \A p \in Nat : p <= Q => p \in U128
    <3>1. Q <= M
      BY <1>1
    <3> QED
      BY <1>1, <3>1, WidthsPositive
  <2>2. CASE there = target
    BY <1>1, <2>2
  <2>3. CASE there = part /\ part = current
    <3>1. there = current
      BY <2>3
    <3> HIDE DEF there
    <3> QED
      BY <1>1, <3>1
  <2>4. CASE there = part /\ part \in Nat /\ part <= Q
    BY <2>1, <2>4
  <2>5. there = target \/ there = part
    OBVIOUS
  <2> HIDE DEF there
  <2> QED
    BY <1>7, <2>2, <2>3, <2>4, <2>5
<1> HIDE DEF there, next
<1>11. /\ ain = SdkAmountIn(current, there, liquidity, TRUE)
       /\ aout = SdkAmountOut(current, there, liquidity, TRUE)
  BY <1>6, <1>8, <1>9, <1>10 DEF ain, aout
<1>12. step.sqrt_price_next = next /\ step.amount_in = ain /\ step.amount_out = aout
  BY <1>4 DEF StepResult
<1>13. /\ sdk.sqrt_price_next = step.sqrt_price_next
       /\ sdk.amount_in = step.amount_in
       /\ sdk.amount_out = step.amount_out
       /\ sdk.fee_amount = amount - step.amount_in
  BY <1>5, <1>9, <1>11, <1>12
<1> QED
  BY <1>13 DEF step, sdk
\* What the SDK reckons between two prices is a natural number.
LEMMA SdkDeltaType ==
    ASSUME NEW a \in Nat, NEW b \in Nat, NEW liquidity \in Nat, NEW round_up \in BOOLEAN
    PROVE  /\ SdkAmount0Delta(a, b, liquidity, round_up) \in Nat
           /\ SdkAmount1Delta(a, b, liquidity, round_up) \in Nat
<1> DEFINE lower == Lesser(a, b)
           upper == Greater(a, b)
           n     == liquidity * (upper - lower)
           den   == SdkMulQ64(lower, upper)
<1>1. lower \in Nat /\ upper \in Nat /\ upper - lower \in Nat
  BY DEF Lesser, Greater
<1>2. n \in Nat
  BY <1>1
<1>3. ASSUME NEW d \in Nat \ {0} PROVE SdkDiv(n, d, round_up) \in Nat
  <2> HIDE DEF n
  <2>1. n + d - 1 \in Nat
    BY <1>2, <1>3
  <2> DEFINE m == n + d - 1
  <2> HIDE DEF m
  <2>2. m \div d \in Nat /\ n \div d \in Nat
    BY <1>2, <1>3, <2>1, DivNat DEF m
  <2> QED
    BY <2>2 DEF SdkDiv, m
<1>4. den \in Nat
  <2>1. lower * upper \in Nat
    BY <1>1
  <2> QED
    BY <2>1, DivNat, WidthsPositive DEF SdkMulQ64
<1> HIDE DEF n, den, lower, upper
<1>5. SdkAmount0Delta(a, b, liquidity, round_up)
        = IF lower = 0 THEN MAX_SAFE_INTEGER ELSE IF den = 0 THEN 0 ELSE SdkDiv(n, den, round_up)
  BY DEF SdkAmount0Delta, n, den, lower, upper
<1>6. SdkAmount1Delta(a, b, liquidity, round_up) = SdkDiv(n, Q64, round_up)
  BY DEF SdkAmount1Delta, n, lower, upper
<1>7. Q64 \in Nat \ {0}
  BY WidthsPositive
<1>8. den # 0 => SdkDiv(n, den, round_up) \in Nat
  BY <1>3, <1>4
<1> QED
  BY <1>3, <1>5, <1>6, <1>7, <1>8, SafeIntegerAssumption

\* What a quote downwards starts its step with.
QuoteInputs(current, target, liquidity, amount, fee_rate) ==
    /\ current \in Nat /\ target \in Nat /\ target <= current
    /\ liquidity \in Nat \ {0} /\ amount \in Nat
    /\ fee_rate \in 0 .. FEE_DENOMINATOR - 1

\* A step of the quote downwards: numbers, and the fee is the rest of the amount.
LEMMA SdkStepDown ==
    ASSUME NEW current, NEW target, NEW liquidity, NEW amount, NEW fee_rate,
           QuoteInputs(current, target, liquidity, amount, fee_rate)
    PROVE  LET step == SdkSwapStep(current, target, liquidity, amount, fee_rate)
           IN  /\ step.amount_in \in Nat /\ step.amount_out \in Nat
               /\ step.fee_amount = amount - step.amount_in
<1> DEFINE net  == amount - SdkComputeFee(amount, fee_rate)
           part == SdkPartway(current, liquidity, net, TRUE)
           next == IF net >= SdkAmountIn(current, target, liquidity, TRUE) THEN target ELSE part
           step == SdkSwapStep(current, target, liquidity, amount, fee_rate)
<1>0. /\ current \in Nat /\ target \in Nat /\ target <= current
      /\ liquidity \in Nat \ {0} /\ amount \in Nat
      /\ fee_rate \in 0 .. FEE_DENOMINATOR - 1
  BY DEF QuoteInputs
<1>1. net \in Nat
  BY <1>0, SdkFeeWithinAmount
<1>2. (current >= target) = TRUE
  BY <1>0
<1>3. /\ step.amount_in = SdkAmountIn(current, next, liquidity, TRUE)
      /\ step.amount_out = SdkAmountOut(current, next, liquidity, TRUE)
      /\ step.fee_amount = amount - step.amount_in
  BY <1>2 DEF SdkSwapStep
<1> HIDE DEF net, step
<1>4. part \in Nat
  <2> DEFINE x == net * current
             q == x \div Q64
             y == liquidity * Q64
             d == liquidity + q
  <2>1. x \in Nat /\ y \in Nat /\ Q64 \in Nat \ {0}
    BY <1>0, <1>1, WidthsPositive
  <2> HIDE DEF x, y
  <2>2. q \in Nat
    BY <2>1, DivNat
  <2> HIDE DEF q
  <2>3. d \in Nat \ {0}
    BY <1>0, <2>2
  <2> HIDE DEF d
  <2>4. y \div d \in Nat
    BY <2>1, <2>3, DivNat
  <2>5. part = IF net = 0 THEN current ELSE IF d = 0 THEN 0 ELSE y \div d
    BY DEF SdkPartway, x, y, q, d
  <2> HIDE DEF part
  <2> QED
    BY <1>0, <2>3, <2>4, <2>5
<1> HIDE DEF part
<1>5. next \in Nat
  BY <1>0, <1>4
<1> HIDE DEF next
<1>6. /\ SdkAmount0Delta(next, current, liquidity, TRUE) \in Nat
      /\ SdkAmount1Delta(next, current, liquidity, FALSE) \in Nat
  BY <1>0, <1>5, SdkDeltaType
<1> QED
  BY <1>3, <1>6 DEF SdkAmountIn, SdkAmountOut, step

\* A swap that meets no tick: its totals are those of one step to the limit.
LEMMA ResultTotals ==
    ASSUME TablesOK, pool \in Pool, NEW amount \in SwapAmounts,
           NEW accounts \in SUBSET DOMAIN tick_arrays,
           NEW zero_for_one \in BOOLEAN, NEW limit \in PriceLimits,
           SwapInputOk(pool, amount, zero_for_one, limit),
           NextTicks(accounts, pool.tick_current, zero_for_one) = {}
    PROVE  LET r    == SwapResult(pool, amount, accounts, zero_for_one, limit)
               step == ComputeSwapStep(pool.sqrt_price, limit, pool.liquidity, amount,
                                       pool.fee_rate)
           IN  /\ step \in SwapStep
               /\ r.sqrt_price = step.sqrt_price_next
               /\ r.total_amount_in = step.amount_in
               /\ r.total_amount_out = step.amount_out
               /\ r.total_fee = step.fee_amount
<1> DEFINE r     == SwapResult(pool, amount, accounts, zero_for_one, limit)
           start == SwapStart(pool, amount)
           step  == ComputeSwapStep(pool.sqrt_price, limit, pool.liquidity, amount, pool.fee_rate)
           net   == LiquidityNetAt(accounts, limit)
<1>1. /\ start \in Locals
      /\ SwapInputs(accounts, zero_for_one, limit, pool.fee_rate)
      /\ r = SwapTurn(start, accounts, zero_for_one, limit, pool.fee_rate)
  BY ResultType
<1>2. /\ start.sqrt_price = pool.sqrt_price /\ start.liquidity = pool.liquidity
      /\ start.amount_remaining = amount /\ start.tick = pool.tick_current
      /\ start.total_amount_in = 0 /\ start.total_amount_out = 0 /\ start.total_fee = 0
      /\ start.crossings = 0 /\ start.broke = FALSE /\ start.failed = FALSE
  BY DEF SwapStart
<1> HIDE DEF start, r
<1>3. LoopGoesOn(start)
  BY <1>2, PoolAssumption DEF LoopGoesOn, SwapInputOk
<1>4. TurnTarget(start, accounts, zero_for_one, limit) = limit
  BY <1>2 DEF TurnTarget, SqrtPriceTarget
<1>5. /\ TurnStep(start, limit, TurnPrice(start, limit, pool.fee_rate)) = step
      /\ step \in SwapStep
  BY <1>1, <1>2, <1>3, <1>4, TurnType
<1>6. r = AfterStep(start, step, limit, net, zero_for_one, limit)
  BY <1>1, <1>3, <1>4, <1>5 DEF SwapTurn, TurnTowards
<1> HIDE DEF step, net
<1>7. /\ r.sqrt_price = step.sqrt_price_next
      /\ r.total_amount_in = SatAdd(0, step.amount_in)
      /\ r.total_amount_out = SatAdd(0, step.amount_out)
      /\ r.total_fee = SatAdd(0, step.fee_amount)
  BY <1>2, <1>6 DEF AfterStep
<1>8. \A a \in U128 : SatAdd(0, a) = a
  BY WidthsPositive DEF SatAdd
<1>9. step.amount_in \in U128 /\ step.amount_out \in U128 /\ step.fee_amount \in U128
  BY <1>5 DEF SwapStep
<1> QED
  BY <1>5, <1>7, <1>8, <1>9 DEF r, step

\* A quote without ticks: its totals are those of one step to the limit.
LEMMA QuoteTotals ==
    ASSUME NEW p, NEW amount \in Nat, amount > 0, NEW zero_for_one, NEW limit,
           LET step == SdkSwapStep(p.sqrt_price, limit, p.liquidity, amount, p.fee_rate)
           IN  /\ step.amount_in \in Nat /\ step.amount_out \in Nat
               /\ step.fee_amount = amount - step.amount_in
    PROVE  LET q    == QuoteSwap(p, amount, {}, zero_for_one, limit)
               step == SdkSwapStep(p.sqrt_price, limit, p.liquidity, amount, p.fee_rate)
           IN  /\ q.sqrt_price = step.sqrt_price_next
               /\ q.amount_in = step.amount_in
               /\ q.amount_out = step.amount_out
               /\ q.fee_amount = step.fee_amount
<1> DEFINE start == QuoteStart(p, amount, {}, zero_for_one)
           step  == SdkSwapStep(p.sqrt_price, limit, p.liquidity, amount, p.fee_rate)
           once  == QuoteTurn(start, zero_for_one, limit, p.fee_rate)
<1>1. /\ start.sqrt_price = p.sqrt_price /\ start.liquidity = p.liquidity
      /\ start.amount_remaining = amount /\ start.crossings = 0 /\ start.broke = FALSE
      /\ start.amount_in = 0 /\ start.amount_out = 0 /\ start.fee_amount = 0
      /\ start.ahead = {}
  BY DEF QuoteStart
<1> HIDE DEF start
<1>2. QuoteTarget(start, zero_for_one, limit) = limit
  BY <1>1 DEF QuoteTarget
<1>3. ~(start.crossings >= MAX_TICK_CROSSINGS) /\ ~(start.amount_remaining <= 0)
  BY <1>1, PoolAssumption
<1>4. once = AfterQuoteStep(start, step, limit, zero_for_one, limit)
  <2>1. once = IF start.broke \/ start.amount_remaining <= 0
                    \/ start.crossings >= MAX_TICK_CROSSINGS
               THEN start
               ELSE AfterQuoteStep(start, SdkSwapStep(start.sqrt_price, limit, start.liquidity,
                                                      start.amount_remaining, p.fee_rate),
                                   limit, zero_for_one, limit)
    BY <1>2 DEF QuoteTurn
  <2> QED
    BY <1>1, <1>3, <2>1
<1>5. /\ step.amount_in \in Nat /\ step.amount_out \in Nat
      /\ step.fee_amount = amount - step.amount_in
  OBVIOUS
<1> HIDE DEF step, once
<1>6. /\ once.sqrt_price = step.sqrt_price_next
      /\ once.amount_remaining = amount - (step.amount_in + step.fee_amount)
      /\ once.amount_in = 0 + step.amount_in
      /\ once.amount_out = 0 + step.amount_out
      /\ once.fee_amount = 0 + step.fee_amount
  BY <1>1, <1>4 DEF AfterQuoteStep
<1>7. once.amount_remaining = 0
  BY <1>5, <1>6
<1>8. QuoteSwap(p, amount, {}, zero_for_one, limit) = once
  BY <1>7, QuoteIsOneTurn DEF once, start
<1> QED
  BY <1>5, <1>6, <1>8 DEF step

\* A pool that exists has a fee, in the system too.
LEMMA RateAlways == Spec => [](SystemInv /\ RateOK)
<1>1. ASSUME SystemInv, RateOK, [Next]_vars
      PROVE  RateOK'
  <2>0. pool \in Pool
    BY <1>1 DEF SystemInv, LedgerInv, PoolTypeOK
  <2>1. CASE CreatePool
    <3>1. PICK p \in InitialPools : InitializePool(p[1], p[2], p[3])
      BY <2>1 DEF CreatePool
    <3> QED
      BY <3>1 DEF InitializePool, NoPool, RateOK
  <2>2. CASE pool' = pool
    BY <1>1, <2>2 DEF RateOK
  <2>3. CASE \E delta, lower, upper : pool' = PoolAfterModify(pool, delta, lower, upper)
    <3>1. pool' = pool \/ \E liquidity : pool' = [pool EXCEPT !.liquidity = liquidity]
      BY <2>3 DEF PoolAfterModify
    <3> QED
      BY <1>1, <2>0, <3>1 DEF RateOK, Pool
  <2>4. CASE SwapAny
    <3>1. PICK zero_for_one \in BOOLEAN :
             \E r : pool' = PoolAfterSwap(pool, r, zero_for_one)
      BY <2>4 DEF SwapAny, Swap
    <3>2. PICK r : pool' = PoolAfterSwap(pool, r, zero_for_one)
      BY <3>1
    <3> QED
      BY <1>1, <2>0, <3>2 DEF PoolAfterSwap, RateOK, Pool
  <2>5. Open => \E delta, lower, upper : pool' = PoolAfterModify(pool, delta, lower, upper)
    BY DEF Open, OpenPosition, OpenWith
  <2>6. Close => \E delta, lower, upper : pool' = PoolAfterModify(pool, delta, lower, upper)
    BY DEF Close, ClosePosition, RemoveLiquidity
  <2>7. CreateArray /\ UNCHANGED <<poolVars, positionVars>> => pool' = pool
    BY DEF poolVars
  <2>8. Collect => pool' = pool
    BY DEF Collect, CollectFees
  <2>9. HandOver => pool' = pool
    BY DEF HandOver, TransferNft, poolVars
  <2>10. UNCHANGED vars => pool' = pool
    BY DEF vars, poolVars
  <2>11. Burn => pool' = pool
    BY DEF Burn, BurnByHolder, poolVars
  <2>12. (CallUpdateTick \/ CallCrossTick) /\ UNCHANGED <<poolVars, positionVars>>
            => pool' = pool
    BY DEF poolVars
  <2>13. CallModifyLiquidity
            => \E delta, lower, upper : pool' = PoolAfterModify(pool, delta, lower, upper)
    BY DEF CallModifyLiquidity, ModifyLiquidity
  <2>14. MoveTokens => pool' = pool
    BY DEF MoveTokens, DepositToVault, TransferFromVault
  <2> QED
    BY <1>1, <2>1, <2>2, <2>3, <2>4, <2>5, <2>6, <2>7, <2>8, <2>9, <2>10, <2>11, <2>12,
       <2>13, <2>14 DEF Next
<1>2. Init => RateOK
  BY DEF Init, PoolInit, NoPool, RateOK
<1> QED
  BY <1>1, <1>2, SystemInvAlways, PTL DEF Spec

\* In every state of every history: what quoteSwap tells a client who lists no
\* ticks is what the swap does when the program meets none either, as long as the
\* program's products fit and the price stays where the product of the two prices
\* is at least one.
THEOREM QuoteIsExactCorrect == Spec => []QuoteIsExact
<1>1. SystemInv /\ RateOK => QuoteIsExact
  <2> SUFFICES ASSUME SystemInv, RateOK, NEW zero_for_one \in BOOLEAN,
                      NEW s \in Swaps(zero_for_one),
                      NextTicks(s[3], pool.tick_current, zero_for_one) = {},
                      ProductsFit(pool, s[1], zero_for_one, s[2]),
                      QuoteSwap(pool, s[1], {}, zero_for_one, s[2]).sqrt_price
                          * pool.sqrt_price >= Q64
               PROVE  LET q == QuoteSwap(pool, s[1], {}, zero_for_one, s[2])
                          r == SwapResult(pool, s[1], s[3], zero_for_one, s[2])
                      IN  /\ q.sqrt_price = r.sqrt_price
                          /\ q.amount_in  = r.total_amount_in
                          /\ q.amount_out = r.total_amount_out
                          /\ Min0(q.fee_amount) = r.total_fee
    BY DEF QuoteIsExact
  <2>1. PICK amount \in SwapAmounts, limit \in PriceLimits, accounts \in SUBSET DOMAIN tick_arrays :
           s = <<amount, limit, accounts>>
    BY DEF Swaps
  <2> DEFINE price == pool.sqrt_price
             q     == QuoteSwap(pool, amount, {}, zero_for_one, limit)
             r     == SwapResult(pool, amount, accounts, zero_for_one, limit)
             step  == ComputeSwapStep(price, limit, pool.liquidity, amount, pool.fee_rate)
             sdk   == SdkSwapStep(price, limit, pool.liquidity, amount, pool.fee_rate)
  <2>2. /\ SwapInputOk(pool, amount, zero_for_one, limit)
        /\ SwapOutputOk(r, 0)
        /\ NextTicks(accounts, pool.tick_current, zero_for_one) = {}
        /\ ProductsFit(pool, amount, zero_for_one, limit)
        /\ q.sqrt_price * price >= Q64
    BY <2>1 DEF Swaps
  <2>3. /\ pool \in Pool /\ TablesOK
        /\ price \in U128 /\ price \in Nat /\ limit \in U128 /\ limit \in Nat
        /\ amount \in U64 /\ amount \in Nat /\ amount > 0
        /\ pool.liquidity \in U128 \ {0} /\ pool.liquidity \in Nat \ {0}
        /\ pool.fee_rate \in 0 .. FEE_DENOMINATOR - 1 /\ pool.fee_rate > 0
        /\ U128Max \in Nat /\ Q64 \in Nat \ {0}
    <3>1. pool \in Pool /\ TablesOK
      BY TicksSeen DEF SystemInv, LedgerInv, PoolTypeOK
    <3>2. pool.initialized /\ amount > 0 /\ pool.liquidity > 0
      BY <2>2 DEF SwapInputOk
    <3>3. price \in U128 /\ limit \in U128 /\ amount \in U64 /\ pool.liquidity \in U128
          /\ pool.fee_rate \in 0 .. FEE_DENOMINATOR - 1
      BY <3>1, PoolInputAssumption DEF Pool
    <3>4. price \in Nat /\ limit \in Nat /\ amount \in Nat /\ pool.liquidity \in Nat
      BY <3>3, WidthsPositive, U128IsNat
    <3> QED
      BY <3>1, <3>2, <3>3, <3>4, WidthsPositive DEF RateOK
  <2> HIDE DEF q, r, step, sdk, price
  <2>4. /\ step \in SwapStep
        /\ r.sqrt_price = step.sqrt_price_next
        /\ r.total_amount_in = step.amount_in
        /\ r.total_amount_out = step.amount_out
        /\ r.total_fee = step.fee_amount
    BY <2>2, <2>3, ResultTotals DEF r, step, price
  <2>5. step.amount_in \in Nat /\ step.amount_out \in Nat
    BY <2>4, U128IsNat DEF SwapStep
  <2>6. step.fee_amount = SatSub(amount, step.amount_in)
    BY DEF step, ComputeSwapStep, StepTo, StepResult
  <2>7. CASE ~zero_for_one
    <3>1. price < limit /\ (price * limit) \div Q64 <= U128Max
      <4>1. price < limit
        BY <2>2, <2>3, <2>7 DEF SwapInputOk, price
      <4>2. Greater(price, limit) = limit
        BY <2>3, <4>1 DEF Greater
      <4> QED
        BY <2>2, <4>1, <4>2 DEF ProductsFit, price
    <3>2. step.amount_out <= U64Max
      BY <2>2, <2>4 DEF SwapOutputOk
    <3>3. /\ sdk.sqrt_price_next = step.sqrt_price_next
          /\ sdk.amount_in = step.amount_in
          /\ sdk.amount_out = step.amount_out
          /\ sdk.fee_amount = amount - step.amount_in
      <4>1. pool.fee_rate \in 1 .. FEE_DENOMINATOR - 1
        BY <2>3, FeeAssumption
      <4> QED
        BY <2>3, <3>1, <3>2, <4>1, UpStepAgrees DEF step, sdk
    <3>4. /\ q.sqrt_price = sdk.sqrt_price_next
          /\ q.amount_in = sdk.amount_in
          /\ q.amount_out = sdk.amount_out
          /\ q.fee_amount = sdk.fee_amount
      BY <2>3, <2>5, <3>3, QuoteTotals DEF q, sdk, price
    <3>5. Min0(q.fee_amount) = r.total_fee
      BY <2>3, <2>4, <2>5, <2>6, <3>3, <3>4 DEF Min0, SatSub
    <3> QED
      BY <2>1, <2>4, <3>3, <3>4, <3>5 DEF q, r
  <2>8. CASE zero_for_one
    <3>1. limit <= price /\ (price * price) \div Q64 <= U128Max
      <4>1. limit < price
        BY <2>2, <2>3, <2>8 DEF SwapInputOk, price
      <4>2. Greater(price, limit) = price
        BY <2>3, <4>1 DEF Greater
      <4> QED
        BY <2>2, <2>3, <4>1, <4>2 DEF ProductsFit, price
    <3>2. /\ pool.liquidity \in U64 \ {0}
          /\ amount * price <= U128Max /\ pool.liquidity * price <= U128Max
      <4>1. pool.liquidity <= U64Max /\ Greater(amount, pool.liquidity) * price <= U128Max
        BY <2>2, <2>8 DEF ProductsFit, price
      <4>2. pool.liquidity \in U64 \ {0}
        BY <2>3, <4>1 DEF U64
      <4> DEFINE g == Greater(amount, pool.liquidity)
      <4>3. g \in Nat /\ amount <= g /\ pool.liquidity <= g
        BY <2>3 DEF Greater
      <4> HIDE DEF g
      <4>4. amount * price <= g * price /\ pool.liquidity * price <= g * price
        BY <2>3, <4>3
      <4>5. amount * price \in Nat /\ pool.liquidity * price \in Nat /\ g * price \in Nat
        BY <2>3, <4>3
      <4> QED
        BY <2>3, <4>1, <4>2, <4>4, <4>5 DEF g
    <3>3. /\ q.sqrt_price = sdk.sqrt_price_next
          /\ q.amount_in = sdk.amount_in
          /\ q.amount_out = sdk.amount_out
          /\ q.fee_amount = sdk.fee_amount
      <4>1. /\ sdk.amount_in \in Nat /\ sdk.amount_out \in Nat
            /\ sdk.fee_amount = amount - sdk.amount_in
        <5>1. /\ price \in Nat /\ limit \in Nat /\ limit <= price
              /\ pool.liquidity \in Nat \ {0} /\ amount \in Nat
              /\ pool.fee_rate \in 0 .. FEE_DENOMINATOR - 1
          BY <2>3, <3>1
        <5>2. QuoteInputs(price, limit, pool.liquidity, amount, pool.fee_rate)
          BY <5>1 DEF QuoteInputs
        <5> QED
          BY <5>2, SdkStepDown DEF sdk
      <4> QED
        BY <2>3, <4>1, QuoteTotals DEF q, sdk, price
    <3>4. sdk.sqrt_price_next * price >= Q64
      BY <2>2, <3>3
    <3>5. /\ sdk.sqrt_price_next = step.sqrt_price_next
          /\ sdk.amount_in = step.amount_in
          /\ sdk.amount_out = step.amount_out
          /\ sdk.fee_amount = amount - step.amount_in
      BY <2>3, <3>1, <3>2, <3>4, DownStepAgrees DEF step, sdk
    <3>6. Min0(q.fee_amount) = r.total_fee
      BY <2>3, <2>4, <2>5, <2>6, <3>3, <3>5 DEF Min0, SatSub
    <3> QED
      BY <2>1, <2>4, <3>3, <3>5, <3>6 DEF q, r
  <2> QED
    BY <2>7, <2>8
<1> QED
  BY <1>1, RateAlways, PTL
===============================================================================
