----------------------------- MODULE PoolCoreProofs ---------------------------
(* pool_core for any widths, prices, tick tables and inputs: the swap loop     *)
(* ends after a bounded number of turns in typed locals, and the accumulators  *)
(* of fees never fall.                                                         *)
EXTENDS PoolCore, TickManagerProofs

-------------------------------------------------------------------------------
(* Recursive functions.  A function given by recursion on a number is one that *)
(* satisfies its equation, if there is any; that there is one is shown by      *)
(* extending it a number at a time.                                            *)

Iterates(f, N, start, step) ==
    \A n \in 0 .. N : f[n] = IF n = 0 THEN start ELSE step[f[n - 1]]

\* A step taken any number of times.
LEMMA IterationExists ==
    ASSUME NEW S, NEW start \in S, NEW step \in [S -> S], NEW N \in Nat
    PROVE  \E f \in [0 .. N -> S] : Iterates(f, N, start, step)
<1> DEFINE Good(n, f) == \A k \in 0 .. n : f[k] = IF k = 0 THEN start ELSE step[f[k - 1]]
           D == {n \in Nat : \E f \in [0 .. n -> S] : Good(n, f)}
<1>1. 0 \in D
  <2> DEFINE f == [k \in 0 .. 0 |-> start]
  <2>1. f \in [0 .. 0 -> S] /\ Good(0, f)
    OBVIOUS
  <2> QED
    BY <2>1
<1>2. ASSUME NEW n \in D PROVE n + 1 \in D
  <2>1. PICK f \in [0 .. n -> S] : Good(n, f)
    OBVIOUS
  <2> DEFINE g == [k \in 0 .. n + 1 |-> IF k = n + 1 THEN step[f[n]] ELSE f[k]]
  <2>2. n \in Nat /\ f[n] \in S
    OBVIOUS
  <2>3. g \in [0 .. n + 1 -> S]
    BY <2>2
  <2>4. ASSUME NEW k \in 0 .. n + 1
        PROVE  g[k] = IF k = 0 THEN start ELSE step[g[k - 1]]
    <3>1. CASE k = n + 1
      <4>1. g[k] = step[f[n]] /\ k # 0 /\ k - 1 = n /\ n \in 0 .. n + 1
        BY <3>1, <2>2
      <4>2. g[k - 1] = f[n]
        BY <4>1, <2>2
      <4> QED
        BY <4>1, <4>2
    <3>2. CASE k # n + 1
      <4>1. k \in 0 .. n /\ g[k] = f[k]
        BY <3>2, <2>2
      <4>2. k # 0 => k - 1 \in 0 .. n + 1 /\ k - 1 # n + 1 /\ g[k - 1] = f[k - 1]
        BY <4>1, <2>2
      <4> QED
        BY <2>1, <4>1, <4>2
    <3> QED
      BY <3>1, <3>2
  <2>5. Good(n + 1, g)
    BY <2>4
  <2> HIDE DEF g, Good
  <2> QED
    BY <2>2, <2>3, <2>5
<1>3. N \in D
  <2> HIDE DEF D
  <2>1. D \in SUBSET Nat
    BY DEF D
  <2> QED
    BY <1>1, <1>2, <2>1, SetInduction
<1> QED
  BY <1>3 DEF Iterates

\* The recursion of FloorLog2 halves its argument; it is defined everywhere.
LEMMA FloorLog2Defined ==
    FloorLog2 = [n \in U64 |-> IF n < 2 THEN 0 ELSE 1 + FloorLog2[n \div 2]]
<1> DEFINE Good(n, f) == \A k \in 0 .. n : f[k] = IF k < 2 THEN 0 ELSE 1 + f[k \div 2]
           D == {n \in Nat : \E f \in [0 .. n -> Nat] : Good(n, f)}
<1>1. 0 \in D
  <2> DEFINE f == [k \in 0 .. 0 |-> 0]
  <2>1. f \in [0 .. 0 -> Nat] /\ Good(0, f)
    OBVIOUS
  <2> QED
    BY <2>1
<1>2. ASSUME NEW n \in D PROVE n + 1 \in D
  <2>1. PICK f \in [0 .. n -> Nat] : Good(n, f)
    OBVIOUS
  <2> DEFINE g == [k \in 0 .. n + 1 |-> IF k = n + 1 THEN (IF k < 2 THEN 0 ELSE 1 + f[k \div 2])
                                                     ELSE f[k]]
  <2>2. n \in Nat
    OBVIOUS
  <2>3. \A k \in 2 .. n + 1 : k \div 2 \in 0 .. n /\ k \div 2 # n + 1
    BY <2>2
  <2>4. g \in [0 .. n + 1 -> Nat]
    BY <2>2, <2>3
  <2>5. ASSUME NEW k \in 0 .. n + 1
        PROVE  g[k] = IF k < 2 THEN 0 ELSE 1 + g[k \div 2]
    <3>1. k >= 2 => k \div 2 \in 0 .. n + 1 /\ g[k \div 2] = f[k \div 2]
      BY <2>2, <2>3
    <3>2. CASE k = n + 1
      BY <3>1, <3>2
    <3>3. CASE k # n + 1
      <4>1. k \in 0 .. n /\ g[k] = f[k]
        BY <3>3, <2>2
      <4> QED
        BY <2>1, <3>1, <4>1
    <3> QED
      BY <3>2, <3>3
  <2>6. Good(n + 1, g)
    BY <2>5
  <2> HIDE DEF g, Good
  <2> QED
    BY <2>2, <2>4, <2>6
<1>3. U64Max \in D
  <2> HIDE DEF D
  <2>1. D \in SUBSET Nat
    BY DEF D
  <2>2. U64Max \in Nat
    BY WidthsPositive DEF U64Max
  <2> QED
    BY <1>1, <1>2, <2>1, <2>2, SetInduction
<1>4. PICK f \in [0 .. U64Max -> Nat] : Good(U64Max, f)
  BY <1>3
<1>5. f = [n \in U64 |-> IF n < 2 THEN 0 ELSE 1 + f[n \div 2]]
  BY <1>4 DEF U64
<1> HIDE DEF Good, D
<1> QED
  BY <1>5 DEF FloorLog2

LEMMA FloorLog2Type == \A n \in U64 : FloorLog2[n] \in Nat
<1> DEFINE D == {n \in Nat : \A k \in 0 .. n : k \in U64 => FloorLog2[k] \in Nat}
<1>1. \A n \in U64 : FloorLog2[n] = IF n < 2 THEN 0 ELSE 1 + FloorLog2[n \div 2]
  BY FloorLog2Defined
<1>2. 0 \in D
  BY <1>1
<1>3. ASSUME NEW n \in D PROVE n + 1 \in D
  <2>1. n \in Nat
    OBVIOUS
  <2>2. ASSUME NEW k \in 0 .. n + 1, k \in U64 PROVE FloorLog2[k] \in Nat
    <3>1. CASE k \in 0 .. n
      BY <2>2, <3>1
    <3>2. CASE k = n + 1 /\ k >= 2
      <4>1. k \div 2 \in 0 .. n
        BY <2>1, <3>2
      <4>2. k \div 2 \in U64
        BY <2>2, <3>2, WidthsPositive
      <4> QED
        BY <1>1, <2>2, <3>2, <4>1, <4>2
    <3>3. CASE k = n + 1 /\ k < 2
      BY <1>1, <2>2, <3>3
    <3> QED
      BY <2>1, <3>1, <3>2, <3>3
  <2> QED
    BY <2>1, <2>2
<1>4. D = Nat
  <2> HIDE DEF D
  <2>1. D \in SUBSET Nat
    BY DEF D
  <2> QED
    BY <1>2, <1>3, <2>1, SetInduction
<1> QED
  BY <1>4, WidthsPositive DEF U64

-------------------------------------------------------------------------------
(* One turn of the loop.                                                       *)

LEMMA TickAtSqrtPriceType ==
    ASSUME NEW sqrt_price \in U128
    PROVE  TickAtSqrtPrice(sqrt_price) \in Ticks
<1> DEFINE int_part == sqrt_price \div Q64
<1>1. int_part \in U64
  BY HalvesType, WidthsPositive
<1> HIDE DEF int_part
<1>2. FloorLog2[int_part] \in Nat
  BY <1>1, FloorLog2Type
<1>3. FloorLog2[int_part] * TICKS_PER_LOG2 \in Nat
  BY <1>2, PoolAssumption
<1>4. Lesser(FloorLog2[int_part] * TICKS_PER_LOG2, MAX_TICK) \in Ticks
  <2> DEFINE product == FloorLog2[int_part] * TICKS_PER_LOG2
  <2>1. product \in Nat
    BY <1>3
  <2> HIDE DEF product
  <2>2. Lesser(product, MAX_TICK) \in Ticks
    BY <2>1, TickAssumption DEF Lesser, Ticks
  <2> QED
    BY <2>2 DEF product
<1>5. MIN_TICK \in Ticks
  BY TickAssumption DEF Ticks
<1> QED
  BY <1>4, <1>5 DEF TickAtSqrtPrice, int_part

\* Among ticks there is a nearest one in either direction.
LEMMA NearestTick ==
    ASSUME NEW seen \in SUBSET Ticks, seen # {}, NEW zero_for_one \in BOOLEAN
    PROVE  Nearest(seen, zero_for_one) \in seen
<1> DEFINE place(t) == IF zero_for_one THEN MAX_TICK - t ELSE t - MIN_TICK
           places   == {place(t) : t \in seen}
<1>1. \A t \in seen : t \in Int /\ place(t) \in Nat
  BY TickAssumption DEF Ticks
<1>2. places \in SUBSET Nat /\ places # {}
  BY <1>1
<1>3. PICK p \in places : \A q \in places : p <= q
  <2> HIDE DEF places
  <2> QED
    BY <1>2, LeastNatural
<1>4. PICK t \in seen : p = place(t)
  BY <1>3
<1>5. \A u \in seen : place(t) <= place(u)
  BY <1>3, <1>4
<1>6. \A u \in seen : IF zero_for_one THEN u <= t ELSE t <= u
  BY <1>1, <1>4, <1>5, TickAssumption
<1> QED
  BY <1>4, <1>6 DEF Nearest

\* What the book offers the loop: ticks.
LEMMA SeenAreTicks ==
    ASSUME SeesTicks(Book), NEW accounts \in SUBSET DOMAIN tick_arrays,
           NEW current_tick, NEW zero_for_one
    PROVE  NextTicks(accounts, current_tick, zero_for_one) \in SUBSET Ticks
<1> SUFFICES ASSUME NEW start \in accounts,
                    NEW i \in IF zero_for_one THEN SeenBelow(start, current_tick)
                                              ELSE SeenAbove(start, current_tick)
             PROVE  start + i * TICK_SPACING \in Ticks
  BY DEF NextTicks
<1>1. i \in Slots /\ ReadInitialized(tick_arrays[start][i])
  BY DEF SeenBelow, SeenAbove
<1> QED
  BY <1>1 DEF SeesTicks, Book

LEMMA TargetType ==
    ASSUME SeesTicks(Book), NEW accounts \in SUBSET DOMAIN tick_arrays,
           NEW l \in Locals, NEW zero_for_one \in BOOLEAN, NEW limit \in U128
    PROVE  TurnTarget(l, accounts, zero_for_one, limit) \in U128
<1> DEFINE seen == NextTicks(accounts, l.tick, zero_for_one)
<1>1. seen \in SUBSET Ticks
  BY SeenAreTicks
<1> HIDE DEF seen
<1>2. seen # {} => Nearest(seen, zero_for_one) \in Ticks
  BY <1>1, NearestTick
<1>3. seen # {} => SqrtPriceAt[Nearest(seen, zero_for_one)] \in U128
  BY <1>2, PriceAssumption
<1> QED
  BY <1>3 DEF TurnTarget, SqrtPriceTarget, seen

LEMMA NetRead ==
    ASSUME BookTypeOK(Book), NEW accounts \in SUBSET DOMAIN tick_arrays, NEW price \in U128
    PROVE  LiquidityNetAt(accounts, price) \in Int
<1> DEFINE tick  == TickAtSqrtPrice(price)
           holds == {start \in accounts : HasTick(start, tick)}
<1>1. tick \in Int
  BY TickAtSqrtPriceType, TickAssumption DEF Ticks
<1> HIDE DEF tick
<1>2. ASSUME NEW start \in holds
      PROVE  ReadLiquidityNet(tick_arrays[start][SlotOf(start, tick)]) \in Int
  <2>1. start \in DOMAIN tick_arrays /\ HasTick(start, tick)
    OBVIOUS
  <2>2. start \in Int
    BY <2>1, TickAssumption DEF BookTypeOK, Book, ArrayStarts, Ticks
  <2>3. SlotOf(start, tick) \in Slots
    BY <1>1, <2>1, <2>2, SlotInRange
  <2>4. tick_arrays[start][SlotOf(start, tick)] \in TickData
    BY <2>1, <2>3 DEF BookTypeOK, Book
  <2> DEFINE net == tick_arrays[start][SlotOf(start, tick)].liquidity_net
             raw == (net % Q64) * Q64
  <2>5. net \in Int
    BY <2>4, WidthsPositive DEF TickData, I128, I128Min, I128Max
  <2> HIDE DEF net
  <2>6. net % Q64 \in Nat
    BY <2>5, WidthsPositive
  <2>7. raw \in Int /\ raw - Q64 * Q64 \in Int
    BY <2>6, WidthsPositive
  <2> HIDE DEF raw
  <2> QED
    BY <2>7 DEF ReadLiquidityNet, raw, net
<1>3. holds # {} => (CHOOSE s \in holds : TRUE) \in holds
  OBVIOUS
<1> HIDE DEF holds
<1>4. holds # {} =>
        ReadLiquidityNet(tick_arrays[CHOOSE s \in holds : TRUE]
                                    [SlotOf(CHOOSE s \in holds : TRUE, tick)]) \in Int
  BY <1>2, <1>3
<1> QED
  BY <1>4 DEF LiquidityNetAt, holds, tick

LEMMA DeltaApplied ==
    ASSUME NEW liquidity \in U128, NEW net \in Int
    PROVE  ApplyLiquidityDelta(liquidity, net) \in U128
<1>1. CASE net >= 0
  BY <1>1, SatAddType, U128IsNat DEF ApplyLiquidityDelta
<1>2. CASE net < 0
  <2>1. -net \in Nat
    BY <1>2
  <2>2. SatSub(liquidity, -net) \in U128
    BY <2>1, SatSubType
  <2> QED
    BY <1>2, <2>2 DEF ApplyLiquidityDelta
<1> QED
  BY <1>1, <1>2

LEMMA GrowthDelta ==
    ASSUME NEW fee \in U128, NEW liquidity \in U128
    PROVE  FeeGrowthDelta(fee, liquidity) \in U128
<1> DEFINE shifted == (fee % Q64) * Q64
<1>1. shifted \in U128
  BY HalvesType, ShiftUpType
<1> HIDE DEF shifted
<1>2. liquidity > 0 => shifted \div liquidity \in U128
  BY <1>1, QuotientType, U128IsNat
<1> QED
  BY <1>2, WidthsPositive DEF FeeGrowthDelta, shifted

\* A step of typed values leaves the locals typed, one turn nearer the end.
LEMMA AfterStepType ==
    ASSUME NEW l \in Locals, LoopGoesOn(l), NEW step \in SwapStep, NEW target \in U128,
           NEW net \in Int, NEW zero_for_one \in BOOLEAN, NEW limit \in U128
    PROVE  AfterStep(l, step, target, net, zero_for_one, limit) \in Locals
<1> DEFINE reached == step.sqrt_price_next = target
           arrived == TickAtSqrtPrice(step.sqrt_price_next)
<1>1. /\ step.sqrt_price_next \in U128 /\ step.amount_in \in U128
      /\ step.amount_out \in U128 /\ step.fee_amount \in U128
  BY DEF SwapStep
<1>2. /\ l.sqrt_price \in U128 /\ l.liquidity \in U128 /\ l.amount_remaining \in U128
      /\ l.total_amount_in \in U128 /\ l.total_amount_out \in U128 /\ l.total_fee \in U128
      /\ l.fee_growth_inc \in U128 /\ l.crossings \in 0 .. MAX_TICK_CROSSINGS
  BY DEF Locals
<1>3. arrived \in Ticks
  BY <1>1, TickAtSqrtPriceType
<1>4. arrived \in MIN_TICK - 1 .. MAX_TICK /\ arrived - 1 \in MIN_TICK - 1 .. MAX_TICK
  BY <1>3, TickAssumption DEF Ticks
<1>5. /\ ApplyLiquidityDelta(l.liquidity, net) \in U128
      /\ ApplyLiquidityDelta(l.liquidity, -net) \in U128
  BY <1>2, DeltaApplied
<1>6. /\ SatSub(l.amount_remaining, step.amount_in + step.fee_amount) \in U128
      /\ SatAdd(l.total_amount_in, step.amount_in) \in U128
      /\ SatAdd(l.total_amount_out, step.amount_out) \in U128
      /\ SatAdd(l.total_fee, step.fee_amount) \in U128
  <2>1. step.amount_in + step.fee_amount \in Nat
    BY <1>1, U128IsNat
  <2>2. SatSub(l.amount_remaining, step.amount_in + step.fee_amount) \in U128
    BY <1>2, <2>1, SatSubType
  <2> QED
    BY <1>1, <1>2, <2>2, SatAddType, U128IsNat
<1>7. SatAdd(l.fee_growth_inc, FeeGrowthDelta(step.fee_amount, l.liquidity)) \in U128
  BY <1>1, <1>2, GrowthDelta, SatAddType, U128IsNat
<1>8. l.crossings + 1 \in 0 .. MAX_TICK_CROSSINGS
  BY <1>2, PoolAssumption DEF LoopGoesOn
<1>9. (IF reached /\ zero_for_one THEN arrived - 1 ELSE arrived) \in MIN_TICK - 1 .. MAX_TICK
  BY <1>4
<1>10. (IF reached THEN ApplyLiquidityDelta(l.liquidity, IF zero_for_one THEN -net ELSE net)
                   ELSE l.liquidity) \in U128
  BY <1>2, <1>5
<1>11. (IF reached THEN l.crossings + 1 ELSE l.crossings) \in 0 .. MAX_TICK_CROSSINGS
  BY <1>2, <1>8
<1> HIDE DEF reached, arrived
<1> DEFINE b == ~reached \/ (IF zero_for_one THEN step.sqrt_price_next <= limit
                                              ELSE step.sqrt_price_next >= limit)
           e == reached /\ net = I128Min
<1>12. b \in BOOLEAN /\ e \in BOOLEAN
  <2>1. (step.sqrt_price_next <= limit) \in BOOLEAN /\ (step.sqrt_price_next >= limit) \in BOOLEAN
    BY <1>1, U128IsNat
  <2> QED
    BY <2>1 DEF reached
<1>13. AfterStep(l, step, target, net, zero_for_one, limit) =
         [sqrt_price       |-> step.sqrt_price_next,
          tick             |-> IF reached /\ zero_for_one THEN arrived - 1 ELSE arrived,
          liquidity        |-> IF reached
                                 THEN ApplyLiquidityDelta(l.liquidity,
                                          IF zero_for_one THEN -net ELSE net)
                                 ELSE l.liquidity,
          amount_remaining |-> SatSub(l.amount_remaining, step.amount_in + step.fee_amount),
          total_amount_in  |-> SatAdd(l.total_amount_in, step.amount_in),
          total_amount_out |-> SatAdd(l.total_amount_out, step.amount_out),
          total_fee        |-> SatAdd(l.total_fee, step.fee_amount),
          fee_growth_inc   |-> SatAdd(l.fee_growth_inc,
                                      FeeGrowthDelta(step.fee_amount, l.liquidity)),
          crossings        |-> IF reached THEN l.crossings + 1 ELSE l.crossings,
          broke            |-> b,
          failed           |-> e]
  BY DEF AfterStep, reached, arrived
<1> HIDE DEF b, e
<1> QED
  BY <1>1, <1>6, <1>7, <1>9, <1>10, <1>11, <1>12, <1>13 DEF Locals

\* The tables and the inputs a swap may meet.
SwapInputs(accounts, zero_for_one, limit, fee_rate) ==
    /\ BookTypeOK(Book) /\ SeesTicks(Book)
    /\ accounts \in SUBSET DOMAIN tick_arrays
    /\ zero_for_one \in BOOLEAN
    /\ limit \in U128
    /\ fee_rate \in Nat

LEMMA TurnType ==
    ASSUME NEW accounts, NEW zero_for_one, NEW limit, NEW fee_rate,
           SwapInputs(accounts, zero_for_one, limit, fee_rate),
           NEW l \in Locals, LoopGoesOn(l)
    PROVE  LET target == TurnTarget(l, accounts, zero_for_one, limit)
               next   == TurnPrice(l, target, fee_rate)
               step   == TurnStep(l, target, next)
               net    == LiquidityNetAt(accounts, target)
               after  == AfterStep(l, step, target, net, zero_for_one, limit)
           IN  /\ target \in U128
               /\ step = ComputeSwapStep(l.sqrt_price, target, l.liquidity,
                                         l.amount_remaining, fee_rate)
               /\ step \in SwapStep
               /\ net \in Int
               /\ after \in Locals
               /\ after.amount_remaining = 0
<1> DEFINE target == TurnTarget(l, accounts, zero_for_one, limit)
           next   == TurnPrice(l, target, fee_rate)
           step   == TurnStep(l, target, next)
           net    == LiquidityNetAt(accounts, target)
           after  == AfterStep(l, step, target, net, zero_for_one, limit)
<1>1. target \in U128
  BY TargetType DEF SwapInputs
<1> HIDE DEF target
<1>2. step = ComputeSwapStep(l.sqrt_price, target, l.liquidity, l.amount_remaining, fee_rate)
  BY DEF TurnStep, TurnPrice, ComputeSwapStep
<1>3. /\ l.sqrt_price \in U128 /\ l.liquidity \in U128 /\ l.amount_remaining \in U128
      /\ fee_rate \in Nat
  BY DEF Locals, SwapInputs
<1> HIDE DEF step
<1>4. /\ step \in SwapStep
      /\ SatSub(l.amount_remaining, step.amount_in + step.fee_amount) = 0
  BY <1>1, <1>2, <1>3, ComputeSwapStepType
<1>5. net \in Int
  BY <1>1, NetRead DEF SwapInputs
<1> HIDE DEF net
<1>6. after \in Locals
  BY <1>1, <1>4, <1>5, AfterStepType DEF SwapInputs
<1>7. after.amount_remaining = 0
  BY <1>4 DEF AfterStep
<1> HIDE DEF after
<1> QED
  BY <1>1, <1>2, <1>4, <1>5, <1>6, <1>7 DEF target, step, net, after

LEMMA SwapTurnType ==
    ASSUME NEW accounts, NEW zero_for_one, NEW limit, NEW fee_rate,
           SwapInputs(accounts, zero_for_one, limit, fee_rate), NEW l \in Locals
    PROVE  /\ SwapTurn(l, accounts, zero_for_one, limit, fee_rate) \in Locals
           /\ LoopGoesOn(l) =>
                 SwapTurn(l, accounts, zero_for_one, limit, fee_rate).amount_remaining = 0
           /\ ~LoopGoesOn(l) => SwapTurn(l, accounts, zero_for_one, limit, fee_rate) = l
<1>1. CASE LoopGoesOn(l)
  BY <1>1, TurnType DEF SwapTurn, TurnTowards
<1>2. CASE ~LoopGoesOn(l)
  BY <1>2 DEF SwapTurn
<1> QED
  BY <1>1, <1>2

\* The loop is the function that its recursion says it is, and stays within the
\* locals' types.
LEMMA SwapAfterUnfolds ==
    ASSUME NEW p, NEW amount, NEW accounts, NEW zero_for_one, NEW limit,
           SwapInputs(accounts, zero_for_one, limit, p.fee_rate),
           SwapStart(p, amount) \in Locals
    PROVE  LET after == SwapAfter(p, amount, accounts, zero_for_one, limit)
           IN  after = [n \in 0 .. MAX_TICK_CROSSINGS |->
                          IF n = 0 THEN SwapStart(p, amount)
                          ELSE SwapTurn(after[n - 1], accounts, zero_for_one, limit, p.fee_rate)]
<1> DEFINE start == SwapStart(p, amount)
           turn  == [l \in Locals |-> SwapTurn(l, accounts, zero_for_one, limit, p.fee_rate)]
<1>1. turn \in [Locals -> Locals]
  BY SwapTurnType
<1>2. MAX_TICK_CROSSINGS \in Nat
  BY PoolAssumption
<1> HIDE DEF start
<1>3. start \in Locals
  BY DEF start
<1> HIDE DEF turn
<1>4. PICK f \in [0 .. MAX_TICK_CROSSINGS -> Locals] :
         Iterates(f, MAX_TICK_CROSSINGS, start, turn)
  BY <1>1, <1>2, <1>3, IterationExists
<1>5. ASSUME NEW n \in 0 .. MAX_TICK_CROSSINGS
      PROVE  f[n] = IF n = 0 THEN start
                    ELSE SwapTurn(f[n - 1], accounts, zero_for_one, limit, p.fee_rate)
  <2>1. n # 0 => n - 1 \in 0 .. MAX_TICK_CROSSINGS
    BY <1>2
  <2>2. n # 0 => f[n - 1] \in Locals
    BY <2>1
  <2>3. n # 0 => turn[f[n - 1]]
                   = SwapTurn(f[n - 1], accounts, zero_for_one, limit, p.fee_rate)
    BY <2>2 DEF turn
  <2> QED
    BY <1>4, <2>3 DEF Iterates
<1>6. f = [n \in 0 .. MAX_TICK_CROSSINGS |->
             IF n = 0 THEN start
             ELSE SwapTurn(f[n - 1], accounts, zero_for_one, limit, p.fee_rate)]
  BY <1>5
<1> QED
  BY <1>6 DEF SwapAfter, start

\* The loop never takes a second turn, so the result is what one turn makes.
LEMMA ResultIsOneTurn ==
    ASSUME NEW p, NEW amount, NEW accounts, NEW zero_for_one, NEW limit,
           SwapInputs(accounts, zero_for_one, limit, p.fee_rate),
           SwapStart(p, amount) \in Locals
    PROVE  SwapResult(p, amount, accounts, zero_for_one, limit)
             = SwapTurn(SwapStart(p, amount), accounts, zero_for_one, limit, p.fee_rate)
<1> DEFINE start == SwapStart(p, amount)
           turn(l) == SwapTurn(l, accounts, zero_for_one, limit, p.fee_rate)
           after == SwapAfter(p, amount, accounts, zero_for_one, limit)
           D == {n \in Nat : n + 1 \in 0 .. MAX_TICK_CROSSINGS => after[n + 1] = turn(start)}
<1>1. MAX_TICK_CROSSINGS \in Nat \ {0}
  BY PoolAssumption
<1>2. \A n \in 0 .. MAX_TICK_CROSSINGS : after[n] = IF n = 0 THEN start ELSE turn(after[n - 1])
  <2>1. after = [n \in 0 .. MAX_TICK_CROSSINGS |-> IF n = 0 THEN start ELSE turn(after[n - 1])]
    BY SwapAfterUnfolds
  <2> HIDE DEF after, start, turn
  <2> QED
    BY <2>1
<1>3. turn(start) \in Locals /\ ~LoopGoesOn(turn(start))
  <2>1. turn(start) \in Locals
    BY SwapTurnType
  <2>2. LoopGoesOn(start) => turn(start).amount_remaining = 0
    BY SwapTurnType
  <2>3. ~LoopGoesOn(start) => turn(start) = start
    BY SwapTurnType
  <2> HIDE DEF turn, start
  <2> QED
    BY <2>1, <2>2, <2>3 DEF LoopGoesOn
<1>4. turn(turn(start)) = turn(start)
  BY <1>3, SwapTurnType
<1> HIDE DEF start, turn, after
<1>5. 0 \in D
  BY <1>1, <1>2
<1>6. ASSUME NEW n \in D PROVE n + 1 \in D
  <2>1. n \in Nat
    OBVIOUS
  <2>2. ASSUME n + 2 \in 0 .. MAX_TICK_CROSSINGS PROVE after[n + 2] = turn(start)
    <3>1. n + 1 \in 0 .. MAX_TICK_CROSSINGS /\ (n + 2) - 1 = n + 1 /\ n + 2 # 0
      BY <1>1, <2>1, <2>2
    <3>2. after[n + 1] = turn(start)
      BY <3>1
    <3> QED
      BY <1>2, <1>4, <2>2, <3>1, <3>2
  <2> QED
    BY <2>1, <2>2
<1>7. D = Nat
  <2> HIDE DEF D
  <2>1. D \in SUBSET Nat
    BY DEF D
  <2> QED
    BY <1>5, <1>6, <2>1, SetInduction
<1>8. after[MAX_TICK_CROSSINGS] = turn(start)
  <2>1. MAX_TICK_CROSSINGS - 1 \in Nat /\ (MAX_TICK_CROSSINGS - 1) + 1 = MAX_TICK_CROSSINGS
    BY <1>1
  <2>2. MAX_TICK_CROSSINGS - 1 \in D
    BY <1>7, <2>1
  <2> QED
    BY <1>1, <2>1, <2>2
<1> QED
  BY <1>8 DEF SwapResult, start, turn, after

-------------------------------------------------------------------------------
(* The pool and the token accounts.                                            *)

LEMMA TokensFinite == Tokens = {0, 1}
BY DEF Tokens

LEMMA PoolAfterModifyType ==
    ASSUME NEW p \in Pool, NEW delta \in Int, NEW lower, NEW upper
    PROVE  LET q == PoolAfterModify(p, delta, lower, upper)
           IN  /\ q \in Pool
               /\ q.fee_growth_global = p.fee_growth_global
               /\ q.protocol_fee = p.protocol_fee
<1> DEFINE liquidity == IF delta >= 0 THEN SatAdd(p.liquidity, delta)
                                      ELSE SatSub(p.liquidity, -delta)
<1>1. p.liquidity \in U128
  BY DEF Pool
<1>2. liquidity \in U128
  <2>1. CASE delta >= 0
    BY <1>1, <2>1, SatAddType, U128IsNat
  <2>2. CASE delta < 0
    <3>1. -delta \in Nat
      BY <2>2
    <3>2. SatSub(p.liquidity, -delta) \in U128
      BY <1>1, <3>1, SatSubType
    <3> QED
      BY <2>2, <3>2
  <2> QED
    BY <2>1, <2>2
<1> HIDE DEF liquidity
<1>3. PoolAfterModify(p, delta, lower, upper) \in {p, [p EXCEPT !.liquidity = liquidity]}
  BY DEF PoolAfterModify, liquidity
<1> QED
  BY <1>2, <1>3 DEF Pool

\* A swap's locals are written to the pool within its types, and the
\* accumulators of both tokens are at least what they were.
LEMMA PoolAfterSwapType ==
    ASSUME NEW p \in Pool, NEW r \in Locals, NEW zero_for_one \in BOOLEAN
    PROVE  LET q == PoolAfterSwap(p, r, zero_for_one)
           IN  /\ q \in Pool
               /\ \A k \in Tokens : /\ q.fee_growth_global[k] >= p.fee_growth_global[k]
                                    /\ q.protocol_fee[k] >= p.protocol_fee[k]
<1> DEFINE k_in   == TokenIn(zero_for_one)
           share  == (r.total_fee \div 10) % Q64
           growth == SatAdd(p.fee_growth_global[k_in], r.fee_growth_inc)
           booked == SatAdd64(p.protocol_fee[k_in], share)
<1>1. k_in \in Tokens
  BY DEF TokenIn, Tokens
<1>2. /\ p.fee_growth_global \in [Tokens -> U128]
      /\ p.protocol_fee \in [Tokens -> U64]
      /\ r.fee_growth_inc \in U128 /\ r.total_fee \in U128
  BY DEF Pool, Locals
<1> HIDE DEF k_in
<1>3. /\ growth \in U128
      /\ growth >= p.fee_growth_global[k_in]
  <2> DEFINE old == p.fee_growth_global[k_in]
             inc == r.fee_growth_inc
  <2>1. old \in U128 /\ inc \in U128
    BY <1>1, <1>2
  <2> HIDE DEF old, inc
  <2>2. SatAdd(old, inc) \in U128 /\ SatAdd(old, inc) >= old
    BY <2>1, SatAddType, U128IsNat DEF SatAdd
  <2> QED
    BY <2>2 DEF old, inc
<1>4. share \in Nat
  BY <1>2, WidthsPositive
<1> HIDE DEF share
<1>5. booked \in U64 /\ booked >= p.protocol_fee[k_in]
  <2> DEFINE old == p.protocol_fee[k_in]
  <2>1. old \in U64
    BY <1>1, <1>2
  <2> HIDE DEF old
  <2>2. SatAdd64(old, share) \in U64 /\ SatAdd64(old, share) >= old
    BY <1>4, <2>1, WidthsPositive DEF SatAdd64, U64Max
  <2> QED
    BY <2>2 DEF old
<1> HIDE DEF growth, booked
<1>6. PoolAfterSwap(p, r, zero_for_one)
        = [p EXCEPT !.sqrt_price        = r.sqrt_price,
                    !.tick_current      = r.tick,
                    !.liquidity         = r.liquidity,
                    !.fee_growth_global = [@ EXCEPT ![k_in] = growth],
                    !.protocol_fee      = [@ EXCEPT ![k_in] = booked]]
  BY DEF PoolAfterSwap, growth, booked, share, k_in, Pool
<1>7. [p.fee_growth_global EXCEPT ![k_in] = growth] \in [Tokens -> U128]
  BY <1>2, <1>3
<1>8. [p.protocol_fee EXCEPT ![k_in] = booked] \in [Tokens -> U64]
  BY <1>2, <1>5
<1>9. /\ r.sqrt_price \in U128 /\ r.tick \in MIN_TICK - 1 .. MAX_TICK /\ r.liquidity \in U128
  BY DEF Locals
<1>10. PoolAfterSwap(p, r, zero_for_one) \in Pool
  BY <1>6, <1>7, <1>8, <1>9 DEF Pool
<1>11. ASSUME NEW k \in Tokens
       PROVE  /\ PoolAfterSwap(p, r, zero_for_one).fee_growth_global[k] >= p.fee_growth_global[k]
              /\ PoolAfterSwap(p, r, zero_for_one).protocol_fee[k] >= p.protocol_fee[k]
  <2>1. p.fee_growth_global[k] \in Nat /\ p.protocol_fee[k] \in Nat
    BY <1>2, WidthsPositive
  <2>2. /\ PoolAfterSwap(p, r, zero_for_one).fee_growth_global[k]
             = IF k = k_in THEN growth ELSE p.fee_growth_global[k]
        /\ PoolAfterSwap(p, r, zero_for_one).protocol_fee[k]
             = IF k = k_in THEN booked ELSE p.protocol_fee[k]
    BY <1>2, <1>6 DEF Pool
  <2> QED
    BY <1>3, <1>5, <2>1, <2>2
<1> QED
  BY <1>10, <1>11

AccountsOK == /\ vault \in [Tokens -> Nat]
              /\ wallet \in [Users -> [Tokens -> Nat]]

LEMMA CreditType ==
    ASSUME NEW balances \in [Users -> [Tokens -> Nat]], NEW user \in Users,
           NEW token \in Tokens, NEW amount \in Nat
    PROVE  /\ Credit(balances, user, token, amount) \in [Users -> [Tokens -> Nat]]
           /\ amount <= balances[user][token] =>
                 Debit(balances, user, token, amount) \in [Users -> [Tokens -> Nat]]
<1>1. balances[user][token] \in Nat
  OBVIOUS
<1>2. balances[user][token] + amount \in Nat
  BY <1>1
<1>3. amount <= balances[user][token] => balances[user][token] - amount \in Nat
  BY <1>1
<1> QED
  BY <1>2, <1>3 DEF Credit, Debit

LEMMA SettleType ==
    ASSUME AccountsOK, NEW user \in Users, NEW r \in Locals, NEW k_in \in Tokens,
           NEW k_out \in Tokens, k_in # k_out, Settle(user, r, k_in, k_out)
    PROVE  AccountsOK'
<1>1. r.total_amount_in \in Nat /\ r.total_amount_out \in Nat
  BY U128IsNat DEF Locals
<1> DEFINE taken == r.total_amount_in
           given == r.total_amount_out
<1>2. /\ taken <= wallet[user][k_in] /\ given <= vault[k_out]
      /\ vault' = [vault EXCEPT ![k_in] = @ + taken, ![k_out] = @ - given]
      /\ wallet' = Credit(Debit(wallet, user, k_in, taken), user, k_out, given)
  BY DEF Settle, CanSettle
<1>3. taken \in Nat /\ given \in Nat
  BY <1>1
<1> HIDE DEF taken, given
<1>4. vault' \in [Tokens -> Nat]
  BY <1>2, <1>3 DEF AccountsOK
<1>5. Debit(wallet, user, k_in, taken) \in [Users -> [Tokens -> Nat]]
  BY <1>2, <1>3, CreditType DEF AccountsOK
<1>6. wallet' \in [Users -> [Tokens -> Nat]]
  BY <1>2, <1>3, <1>5, CreditType
<1> QED
  BY <1>4, <1>6 DEF AccountsOK

LEMMA StartType ==
    ASSUME NEW p \in Pool, NEW amount \in U64
    PROVE  SwapStart(p, amount) \in Locals
BY WidthsPositive, PoolAssumption DEF SwapStart, Locals, Pool

\* The tick tables as the swap needs them.
TablesOK == BookTypeOK(Book) /\ SeesTicks(Book)

LEMMA InputsTyped ==
    ASSUME TablesOK, pool \in Pool, NEW accounts \in SUBSET DOMAIN tick_arrays,
           NEW zero_for_one \in BOOLEAN, NEW limit \in PriceLimits
    PROVE  SwapInputs(accounts, zero_for_one, limit, pool.fee_rate)
BY PoolInputAssumption, FeeAssumption DEF TablesOK, SwapInputs, Pool

\* A swap's result is typed, whatever ticks it meets.
LEMMA ResultType ==
    ASSUME TablesOK, pool \in Pool, NEW amount \in SwapAmounts,
           NEW accounts \in SUBSET DOMAIN tick_arrays,
           NEW zero_for_one \in BOOLEAN, NEW limit \in PriceLimits
    PROVE  /\ SwapStart(pool, amount) \in Locals
           /\ SwapInputs(accounts, zero_for_one, limit, pool.fee_rate)
           /\ SwapResult(pool, amount, accounts, zero_for_one, limit)
                = SwapTurn(SwapStart(pool, amount), accounts, zero_for_one, limit, pool.fee_rate)
           /\ SwapResult(pool, amount, accounts, zero_for_one, limit) \in Locals
<1>1. SwapStart(pool, amount) \in Locals
  BY StartType, PoolInputAssumption
<1>2. SwapInputs(accounts, zero_for_one, limit, pool.fee_rate)
  BY InputsTyped
<1> QED
  BY <1>1, <1>2, ResultIsOneTurn, SwapTurnType

\* What an operation of pool_core leaves: typed accounts, and accumulators that
\* are at least what they were.
GrowthKept ==
    \A k \in Tokens : /\ pool'.fee_growth_global[k] >= pool.fee_growth_global[k]
                      /\ pool'.protocol_fee[k] >= pool.protocol_fee[k]

LEMMA PoolKept ==
    ASSUME pool \in Pool, pool' = pool
    PROVE  GrowthKept
<1>1. \A k \in Tokens : pool.fee_growth_global[k] \in Int /\ pool.protocol_fee[k] \in Int
  BY WidthsPositive DEF Pool
<1> QED
  BY <1>1 DEF GrowthKept

LEMMA SwapAnyKeeps ==
    ASSUME TablesOK, PoolTypeOK, SwapAny
    PROVE  PoolTypeOK' /\ GrowthKept
<1>1. PICK user \in Users, amount \in SwapAmounts, zero_for_one \in BOOLEAN,
           limit \in PriceLimits, minimum \in OutMinimums,
           accounts \in SUBSET DOMAIN tick_arrays :
             Swap(user, amount, zero_for_one, limit, minimum, accounts)
  BY DEF SwapAny
<1> DEFINE r == SwapResult(pool, amount, accounts, zero_for_one, limit)
<1>2. r \in Locals
  BY ResultType DEF PoolTypeOK
<1>3. /\ pool' = PoolAfterSwap(pool, r, zero_for_one)
      /\ Settle(user, r, TokenIn(zero_for_one), TokenOut(zero_for_one))
  BY <1>1 DEF Swap
<1> HIDE DEF r
<1>4. /\ TokenIn(zero_for_one) \in Tokens /\ TokenOut(zero_for_one) \in Tokens
      /\ TokenIn(zero_for_one) # TokenOut(zero_for_one)
  BY DEF TokenIn, TokenOut, Tokens
<1>5. AccountsOK'
  BY <1>2, <1>3, <1>4, SettleType DEF PoolTypeOK, AccountsOK
<1>6. pool' \in Pool /\ GrowthKept
  BY <1>2, <1>3, PoolAfterSwapType DEF PoolTypeOK, GrowthKept
<1> QED
  BY <1>5, <1>6 DEF PoolTypeOK, AccountsOK

LEMMA CreatePoolKeeps ==
    ASSUME PoolTypeOK, CreatePool
    PROVE  PoolTypeOK' /\ ~pool.initialized
<1>1. PICK p \in InitialPools : InitializePool(p[1], p[2], p[3])
  BY DEF CreatePool
<1>2. p[1] \in U128 /\ p[2] \in 1 .. FEE_DENOMINATOR - 1 /\ p[3] \in Ticks
  BY PoolInputAssumption
<1>3. /\ p[2] \in 0 .. FEE_DENOMINATOR - 1
      /\ p[3] \in MIN_TICK - 1 .. MAX_TICK
  BY <1>2, FeeAssumption, TickAssumption DEF Ticks
<1>4. 0 \in U64 /\ 0 \in U128
  BY WidthsPositive
<1>5. pool' \in Pool
  BY <1>1, <1>2, <1>3, <1>4 DEF InitializePool, NoPool, Pool
<1> QED
  BY <1>1, <1>5 DEF InitializePool, PoolTypeOK

LEMMA ServeKeeps ==
    ASSUME PoolTypeOK, ServePosition
    PROVE  PoolTypeOK' /\ GrowthKept
<1>1. CASE \E delta \in Deltas, r \in Ranges : ModifyLiquidity(delta, r[1], r[2])
  <2>1. PICK delta \in Deltas, r \in Ranges : ModifyLiquidity(delta, r[1], r[2])
    BY <1>1
  <2>2. delta \in Int
    BY DeltasAssumption, WidthsPositive DEF I128, I128Min, I128Max
  <2>3. pool' \in Pool /\ pool'.fee_growth_global = pool.fee_growth_global
                       /\ pool'.protocol_fee = pool.protocol_fee
    BY <2>1, <2>2, PoolAfterModifyType DEF ModifyLiquidity, PoolTypeOK
  <2>4. \A k \in Tokens : pool.fee_growth_global[k] \in Int /\ pool.protocol_fee[k] \in Int
    BY WidthsPositive DEF PoolTypeOK, Pool
  <2> QED
    BY <2>1, <2>3, <2>4 DEF PoolTypeOK, GrowthKept, ModifyLiquidity
<1>2. CASE \E user \in Users, token \in Tokens, amount \in SwapAmounts :
              DepositToVault(user, token, amount) \/ TransferFromVault(user, token, amount)
  <2>1. PICK user \in Users, token \in Tokens, amount \in SwapAmounts :
           DepositToVault(user, token, amount) \/ TransferFromVault(user, token, amount)
    BY <1>2
  <2>2. amount \in Nat
    BY PoolInputAssumption, WidthsPositive
  <2>3. vault[token] \in Nat /\ wallet[user][token] \in Nat
    BY DEF PoolTypeOK
  <2>4. pool' = pool
    BY <2>1 DEF DepositToVault, TransferFromVault
  <2>5. CASE DepositToVault(user, token, amount)
    <3>1. wallet' \in [Users -> [Tokens -> Nat]]
      BY <2>2, <2>5, CreditType DEF DepositToVault, PoolTypeOK
    <3>2. vault' \in [Tokens -> Nat]
      BY <2>2, <2>3, <2>5 DEF DepositToVault, PoolTypeOK
    <3> QED
      BY <2>4, <3>1, <3>2, PoolKept DEF PoolTypeOK
  <2>6. CASE TransferFromVault(user, token, amount)
    <3>1. wallet' \in [Users -> [Tokens -> Nat]]
      BY <2>2, <2>6, CreditType DEF TransferFromVault, PoolTypeOK
    <3>2. vault' \in [Tokens -> Nat]
      BY <2>2, <2>3, <2>6 DEF TransferFromVault, PoolTypeOK
    <3> QED
      BY <2>4, <3>1, <3>2, PoolKept DEF PoolTypeOK
  <2> QED
    BY <2>1, <2>5, <2>6
<1> QED
  BY <1>1, <1>2 DEF ServePosition

-------------------------------------------------------------------------------
(* pool_core on its own.                                                       *)

\* A pool that exists has a fee.
RateOK == pool.initialized => pool.fee_rate > 0

PoolInv == PoolTypeOK /\ RateOK /\ TablesOK

LEMMA RateStep ==
    ASSUME PoolInv, CreatePool \/ ServePosition \/ SwapAny
    PROVE  RateOK'
<1>1. CASE CreatePool
  <2>1. PICK p \in InitialPools : InitializePool(p[1], p[2], p[3])
    BY <1>1 DEF CreatePool
  <2> QED
    BY <2>1 DEF InitializePool, NoPool, RateOK
<1>2. CASE ServePosition
  <2>1. pool' = pool \/ \E liquidity : pool' = [pool EXCEPT !.liquidity = liquidity]
    BY <1>2 DEF ServePosition, ModifyLiquidity, PoolAfterModify, DepositToVault, TransferFromVault
  <2> QED
    BY <2>1 DEF PoolInv, PoolTypeOK, RateOK, Pool
<1>3. CASE SwapAny
  <2>1. PICK zero_for_one \in BOOLEAN :
           \E r : pool' = PoolAfterSwap(pool, r, zero_for_one)
    BY <1>3 DEF SwapAny, Swap
  <2>2. PICK r : pool' = PoolAfterSwap(pool, r, zero_for_one)
    BY <2>1
  <2> QED
    BY <2>2 DEF PoolAfterSwap, PoolInv, PoolTypeOK, RateOK, Pool
<1> QED
  BY <1>1, <1>2, <1>3

LEMMA PoolStartsOK ==
    ASSUME PoolInit
    PROVE  PoolTypeOK /\ RateOK
<1>1. 0 \in U64 /\ 0 \in U128 /\ 0 \in MIN_TICK - 1 .. MAX_TICK /\ 0 \in 0 .. FEE_DENOMINATOR - 1
  BY WidthsPositive, TickAssumption, FeeAssumption
<1>2. NoPool \in Pool
  BY <1>1 DEF NoPool, Pool
<1> QED
  BY <1>2, PoolInputAssumption DEF PoolInit, PoolTypeOK, RateOK, NoPool

LEMMA TablesStay ==
    ASSUME TablesOK, UNCHANGED tickVars
    PROVE  TablesOK'
<1>1. Book' = Book
  BY DEF Book, tickVars
<1> QED
  BY <1>1 DEF TablesOK

LEMMA PoolStep ==
    ASSUME PoolInv, [PoolNext]_<<tickVars, poolVars>>
    PROVE  PoolInv' /\ (pool.initialized /\ pool' # pool => GrowthKept)
<1>1. TablesOK'
  BY TablesStay DEF PoolInv, PoolNext
<1>2. CASE CreatePool
  BY <1>1, <1>2, CreatePoolKeeps, RateStep DEF PoolInv
<1>3. CASE ServePosition
  BY <1>1, <1>3, ServeKeeps, RateStep DEF PoolInv
<1>4. CASE SwapAny
  BY <1>1, <1>4, SwapAnyKeeps, RateStep DEF PoolInv
<1>5. CASE UNCHANGED <<tickVars, poolVars>>
  BY <1>1, <1>5 DEF PoolInv, PoolTypeOK, RateOK, poolVars
<1> QED
  BY <1>2, <1>3, <1>4, <1>5 DEF PoolNext

LEMMA PoolInvAlways == PoolSpec => []PoolInv
<1>1. PoolOverBooksInit => PoolInv
  <2> SUFFICES ASSUME PoolOverBooksInit PROVE PoolInv
    OBVIOUS
  <2>1. PICK b \in InitialBooks : tick_arrays = b.arrays /\ tick_bitmaps = b.bitmaps
    BY DEF PoolOverBooksInit
  <2>2. BookTypeOK(b) /\ SeesTicks(b)
    BY BooksAssumption
  <2>3. TablesOK
    BY <2>1, <2>2 DEF TablesOK, BookTypeOK, SeesTicks, Book
  <2> QED
    BY <2>3, PoolStartsOK DEF PoolOverBooksInit, PoolInv
<1> QED
  BY <1>1, PoolStep, PTL DEF PoolSpec

\* The pool, the vaults and the wallets keep their types through every order of
\* operations, over every tick table that tick_manager can have written.
THEOREM PoolTypeCorrect == PoolSpec => []PoolTypeOK
<1>1. PoolInv => PoolTypeOK
  BY DEF PoolInv
<1> QED
  BY <1>1, PoolInvAlways, PTL

\* No operation takes an accumulator back, so that no difference of two readings
\* is negative.
THEOREM GrowthNeverFallsCorrect == PoolSpec => GrowthNeverFalls
<1> DEFINE Kept == pool.initialized =>
                     \A k \in Tokens :
                        /\ pool'.fee_growth_global[k] >= pool.fee_growth_global[k]
                        /\ pool'.protocol_fee[k] >= pool.protocol_fee[k]
<1>1. PoolInv /\ [PoolNext]_<<tickVars, poolVars>> => [Kept]_pool
  BY PoolStep DEF GrowthKept
<1> QED
  BY <1>1, PoolInvAlways, PTL DEF PoolSpec, GrowthNeverFalls

-------------------------------------------------------------------------------
(* Tokens only change hands: each operation moves tokens between one user's    *)
(* wallet and the vaults, so that the sum over the wallets changes by what     *)
(* that one wallet does.                                                       *)
Held(k) == SumFunction([u \in Users |-> wallet[u][k]]) + vault[k]

TokensKept == \A k \in Tokens : Held(k)' = Held(k)

OnlyTrades(user) ==
    /\ \A u \in Users \ {user} : wallet'[u] = wallet[u]
    /\ \A k \in Tokens : wallet'[user][k] + vault'[k] = wallet[user][k] + vault[k]

LEMMA TradeConserves ==
    ASSUME AccountsOK, AccountsOK', NEW user \in Users, OnlyTrades(user)
    PROVE  TokensKept
<1> SUFFICES ASSUME NEW k \in Tokens PROVE Held(k)' = Held(k)
  BY DEF TokensKept
<1> DEFINE f == [u \in Users |-> wallet[u][k]]
           g == [u \in Users |-> wallet'[u][k]]
<1>1. \A u \in Users : f[u] \in Int /\ g[u] \in Int
  BY DEF AccountsOK
<1>2. \A u \in Users \ {user} : g[u] = f[u]
  BY DEF OnlyTrades
<1>3. /\ f[user] = wallet[user][k] /\ g[user] = wallet'[user][k]
      /\ vault[k] \in Int /\ vault'[k] \in Int
      /\ wallet'[user][k] + vault'[k] = wallet[user][k] + vault[k]
  BY DEF OnlyTrades, AccountsOK
<1>4. DOMAIN f = Users /\ DOMAIN g = Users
  OBVIOUS
<1>5. Held(k) = SumFunction(f) + vault[k] /\ Held(k)' = SumFunction(g) + vault'[k]
  BY DEF Held
<1> HIDE DEF f, g
<1>6. /\ SumFunctionOnSet(g, Users) = SumFunctionOnSet(f, Users) - f[user] + g[user]
      /\ SumFunctionOnSet(f, Users) \in Int
  BY <1>1, <1>2, UsersAssumption, SumUpdate, SumType
<1>7. f[user] \in Int /\ g[user] \in Int
  BY <1>1
<1> QED
  BY <1>3, <1>4, <1>5, <1>6, <1>7 DEF SumFunction

LEMMA NothingTraded ==
    ASSUME UNCHANGED <<vault, wallet>>
    PROVE  TokensKept
BY DEF TokensKept, Held

LEMMA SettleConserves ==
    ASSUME AccountsOK, NEW user \in Users, NEW r \in Locals, NEW k_in \in Tokens,
           NEW k_out \in Tokens, k_in # k_out, Settle(user, r, k_in, k_out)
    PROVE  TokensKept
<1> DEFINE taken == r.total_amount_in
           given == r.total_amount_out
<1>1. taken \in Nat /\ given \in Nat
  BY U128IsNat DEF Locals
<1>2. /\ vault' = [vault EXCEPT ![k_in] = @ + taken, ![k_out] = @ - given]
      /\ wallet' = Credit(Debit(wallet, user, k_in, taken), user, k_out, given)
  BY DEF Settle
<1> HIDE DEF taken, given
<1>3. \A u \in Users \ {user} : wallet'[u] = wallet[u]
  BY <1>2 DEF Credit, Debit, AccountsOK
<1>4. ASSUME NEW k \in Tokens
      PROVE  wallet'[user][k] + vault'[k] = wallet[user][k] + vault[k]
  <2>1. wallet[user][k] \in Nat /\ vault[k] \in Nat
    BY DEF AccountsOK
  <2>2. /\ wallet'[user][k] = IF k = k_out THEN wallet[user][k] + given
                              ELSE IF k = k_in THEN wallet[user][k] - taken
                              ELSE wallet[user][k]
        /\ vault'[k] = IF k = k_out THEN vault[k] - given
                       ELSE IF k = k_in THEN vault[k] + taken
                       ELSE vault[k]
    BY <1>2 DEF Credit, Debit, AccountsOK
  <2> QED
    BY <1>1, <2>1, <2>2
<1> QED
  BY <1>3, <1>4, SettleType, TradeConserves DEF OnlyTrades

LEMMA SwapAnyConserves ==
    ASSUME TablesOK, PoolTypeOK, SwapAny
    PROVE  TokensKept
<1>1. PICK user \in Users, amount \in SwapAmounts, zero_for_one \in BOOLEAN,
           limit \in PriceLimits, minimum \in OutMinimums,
           accounts \in SUBSET DOMAIN tick_arrays :
             Swap(user, amount, zero_for_one, limit, minimum, accounts)
  BY DEF SwapAny
<1> DEFINE r == SwapResult(pool, amount, accounts, zero_for_one, limit)
<1>2. r \in Locals
  BY ResultType DEF PoolTypeOK
<1>3. Settle(user, r, TokenIn(zero_for_one), TokenOut(zero_for_one))
  BY <1>1 DEF Swap
<1> HIDE DEF r
<1>4. /\ TokenIn(zero_for_one) \in Tokens /\ TokenOut(zero_for_one) \in Tokens
      /\ TokenIn(zero_for_one) # TokenOut(zero_for_one)
  BY DEF TokenIn, TokenOut, Tokens
<1> QED
  BY <1>2, <1>3, <1>4, SettleConserves DEF PoolTypeOK, AccountsOK

LEMMA ServeConserves ==
    ASSUME PoolTypeOK, ServePosition
    PROVE  TokensKept
<1>1. CASE \E delta \in Deltas, r \in Ranges : ModifyLiquidity(delta, r[1], r[2])
  BY <1>1, NothingTraded DEF ModifyLiquidity
<1>2. CASE \E user \in Users, token \in Tokens, amount \in SwapAmounts :
              DepositToVault(user, token, amount) \/ TransferFromVault(user, token, amount)
  <2>1. PICK user \in Users, token \in Tokens, amount \in SwapAmounts :
           DepositToVault(user, token, amount) \/ TransferFromVault(user, token, amount)
    BY <1>2
  <2>2. amount \in Nat
    BY PoolInputAssumption, WidthsPositive
  <2>3. \A u \in Users \ {user} : wallet'[u] = wallet[u]
    BY <2>1 DEF DepositToVault, TransferFromVault, Credit, Debit, PoolTypeOK
  <2>4. ASSUME NEW k \in Tokens
        PROVE  wallet'[user][k] + vault'[k] = wallet[user][k] + vault[k]
    <3>1. wallet[user][k] \in Nat /\ vault[k] \in Nat
      BY DEF PoolTypeOK
    <3>2. CASE DepositToVault(user, token, amount)
      <4>1. /\ wallet'[user][k] = IF k = token THEN wallet[user][k] - amount ELSE wallet[user][k]
            /\ vault'[k] = IF k = token THEN vault[k] + amount ELSE vault[k]
        BY <3>2 DEF DepositToVault, Debit, PoolTypeOK
      <4> QED
        BY <2>2, <3>1, <4>1
    <3>3. CASE TransferFromVault(user, token, amount)
      <4>1. /\ wallet'[user][k] = IF k = token THEN wallet[user][k] + amount ELSE wallet[user][k]
            /\ vault'[k] = IF k = token THEN vault[k] - amount ELSE vault[k]
        BY <3>3 DEF TransferFromVault, Credit, PoolTypeOK
      <4> QED
        BY <2>2, <3>1, <4>1
    <3> QED
      BY <2>1, <3>2, <3>3
  <2>5. AccountsOK /\ AccountsOK'
    BY ServeKeeps DEF PoolTypeOK, AccountsOK
  <2> QED
    BY <2>3, <2>4, <2>5, TradeConserves DEF OnlyTrades
<1> QED
  BY <1>1, <1>2 DEF ServePosition

LEMMA PoolInitConserves ==
    ASSUME PoolInit
    PROVE  Conservation
<1> SUFFICES ASSUME NEW k \in Tokens PROVE Held(k) = Cardinality(Users) * Supply
  BY DEF Conservation, Held
<1> DEFINE f == [u \in Users |-> wallet[u][k]]
<1>1. (\A u \in Users : f[u] = Supply) /\ vault[k] = 0 /\ DOMAIN f = Users
  BY DEF PoolInit
<1>2. Held(k) = SumFunctionOnSet(f, Users) + 0
  BY <1>1 DEF Held, SumFunction
<1> HIDE DEF f
<1>3. SumFunctionOnSet(f, Users) = Cardinality(Users) * Supply
  BY <1>1, UsersAssumption, PoolInputAssumption, SumConstant
<1>4. Cardinality(Users) * Supply \in Int
  BY UsersAssumption, FS_CardinalityType, PoolInputAssumption
<1> QED
  BY <1>2, <1>3, <1>4

LEMMA KeptIsConserved ==
    ASSUME Conservation, TokensKept
    PROVE  Conservation'
BY DEF Conservation, TokensKept, Held

\* No operation of pool_core makes or loses a token, whatever the users, the
\* ticks and the widths.
THEOREM ConservationCorrect == PoolSpec => []Conservation
<1>1. PoolOverBooksInit => Conservation
  BY PoolInitConserves DEF PoolOverBooksInit
<1>2. PoolInv /\ Conservation /\ [PoolNext]_<<tickVars, poolVars>> => Conservation'
  <2> SUFFICES ASSUME PoolInv, Conservation, [PoolNext]_<<tickVars, poolVars>>
               PROVE  TokensKept
    BY KeptIsConserved
  <2>1. CASE CreatePool
    BY <2>1, NothingTraded DEF CreatePool, InitializePool
  <2>2. CASE ServePosition
    BY <2>2, ServeConserves DEF PoolInv
  <2>3. CASE SwapAny
    BY <2>3, SwapAnyConserves DEF PoolInv
  <2>4. CASE UNCHANGED <<tickVars, poolVars>>
    BY <2>4, NothingTraded DEF poolVars
  <2> QED
    BY <2>1, <2>2, <2>3, <2>4 DEF PoolNext
<1> QED
  BY <1>1, <1>2, PoolInvAlways, PTL DEF PoolSpec
===============================================================================
