---------------------------------- MODULE Sdk ---------------------------------
(* The client's side: what the SDK computes from the accounts it has read, to  *)
(* put into the transactions of PositionMgr.  The SDK keeps no state.  What is *)
(* stated here is how its answers stand to what the programs then do, at once  *)
(* or after other clients' transactions.                                       *)
EXTENDS PositionMgr, SdkMath

CONSTANT slippageBps   \* what a client lets a closing lose, in hundredths of a per cent

ASSUME SlippageAssumption == slippageBps \in 0 .. 10000

\* 1_000_000 is a u64: the fee on a u64 is formed without saturation.
ASSUME FeeDenominatorAssumption == FEE_DENOMINATOR <= U64Max

\* tickToSqrtPriceQ64: the SDK's price of a tick has no more than 32 bits of
\* fraction, the program's has what the floating point gives.
SdkPriceAt(tick) == (SqrtPriceAt[tick] \div Q32) * Q32

\* The ticks a client may list for a quote: the live ones.
LiveTicks ==
    {[tick          |-> t,
      sqrt_price    |-> SdkPriceAt(t),
      liquidity_net |-> NetOf(t)] : t \in {u \in UsableTicks : TickAt(u).initialized}}

\* quoteSwap: the listed ticks that lie ahead, one after the other, then the limit.
QuoteStart(p, amount, ticks, zero_for_one) ==
    [sqrt_price       |-> p.sqrt_price,
     liquidity        |-> p.liquidity,
     amount_remaining |-> amount,
     amount_in        |-> 0,
     amount_out       |-> 0,
     fee_amount       |-> 0,
     tick             |-> p.tick_current,
     ahead            |-> {b \in ticks : IF zero_for_one THEN b.tick < p.tick_current
                                                         ELSE b.tick > p.tick_current},
     crossings        |-> 0,
     broke            |-> FALSE]

NextBoundary(ahead, zero_for_one) ==
    CHOOSE b \in ahead : \A c \in ahead : IF zero_for_one THEN c.tick <= b.tick
                                                          ELSE b.tick <= c.tick

\* Mutant: the price limit gives way to a tick.
QuoteTargetUnclamped(q, zero_for_one, sqrt_price_limit) ==
    IF q.ahead = {} THEN sqrt_price_limit ELSE NextBoundary(q.ahead, zero_for_one).sqrt_price

\* Unlike the program, the SDK goes no further than the limit.
QuoteTarget(q, zero_for_one, sqrt_price_limit) ==
    IF q.ahead = {} THEN sqrt_price_limit
    ELSE LET price == NextBoundary(q.ahead, zero_for_one).sqrt_price
         IN  IF zero_for_one THEN Greater(price, sqrt_price_limit)
                             ELSE Lesser(price, sqrt_price_limit)

\* A target that is reached crosses the next boundary, if there is one, also when
\* the target was the limit.
AfterQuoteStep(q, step, target, zero_for_one, sqrt_price_limit) ==
    LET crossed  == step.sqrt_price_next = target /\ q.ahead # {}
        boundary == NextBoundary(q.ahead, zero_for_one)
        beyond   == IF zero_for_one THEN step.sqrt_price_next <= sqrt_price_limit
                                    ELSE step.sqrt_price_next >= sqrt_price_limit
    IN  [sqrt_price       |-> step.sqrt_price_next,
         liquidity        |-> IF ~crossed THEN q.liquidity
                              ELSE IF zero_for_one THEN q.liquidity - boundary.liquidity_net
                              ELSE q.liquidity + boundary.liquidity_net,
         amount_remaining |-> q.amount_remaining - (step.amount_in + step.fee_amount),
         amount_in        |-> q.amount_in + step.amount_in,
         amount_out       |-> q.amount_out + step.amount_out,
         fee_amount       |-> q.fee_amount + step.fee_amount,
         tick             |-> IF ~crossed THEN TickAtSqrtPrice(step.sqrt_price_next)
                              ELSE IF zero_for_one THEN boundary.tick - 1 ELSE boundary.tick,
         ahead            |-> IF crossed THEN q.ahead \ {boundary} ELSE q.ahead,
         crossings        |-> IF crossed THEN q.crossings + 1 ELSE q.crossings,
         broke            |-> ~crossed \/ beyond]

QuoteTurn(q, zero_for_one, sqrt_price_limit, fee_rate) ==
    LET target == QuoteTarget(q, zero_for_one, sqrt_price_limit)
        step   == SdkSwapStep(q.sqrt_price, target, q.liquidity, q.amount_remaining, fee_rate)
    IN  IF q.broke \/ q.amount_remaining <= 0 \/ q.crossings >= MAX_TICK_CROSSINGS THEN q
        ELSE AfterQuoteStep(q, step, target, zero_for_one, sqrt_price_limit)

QuoteSwap(p, amount, ticks, zero_for_one, sqrt_price_limit) ==
    LET after[n \in 0 .. MAX_TICK_CROSSINGS] ==
          IF n = 0 THEN QuoteStart(p, amount, ticks, zero_for_one)
          ELSE QuoteTurn(after[n - 1], zero_for_one, sqrt_price_limit, p.fee_rate)
    IN  after[MAX_TICK_CROSSINGS]

\* Mutant: the floor is taken from the input.
SwapFloorOfInput(q) == IF q.amount_out > 0 THEN LessSlippage(q.amount_in, 50) ELSE 0

\* The minimum that scripts/demo_swap.ts demands for a quote.
SwapFloor(q) == IF q.amount_out > 0 THEN LessSlippage(q.amount_out, 50) ELSE 0

\* Mutant: the growth since the pool began.
QuoteFeesSinceStart(pos, p) ==
    [k \in Tokens |-> (p.fee_growth_global[k] * pos.liquidity) \div Q64]

\* quoteFees: an accumulator behind the checkpoint counts as no growth.
QuoteFees(pos, p) ==
    [k \in Tokens |-> (Min0(p.fee_growth_global[k] - pos.fee_growth_checkpoint[k])
                          * pos.liquidity) \div Q64]

\* closePosition's minimums.
CloseMinimum(pos, p) ==
    LET amounts == SdkTokenAmounts(p.sqrt_price, SdkPriceAt(pos.tick_lower),
                                   SdkPriceAt(pos.tick_upper), pos.liquidity)
    IN  [k \in Tokens |-> LessSlippage(amounts[k], slippageBps)]

-------------------------------------------------------------------------------
(* Properties *)

\* The products of a swap without ticks that the program forms fit its u128; the
\* SDK's numbers have no end.
ProductsFit(p, amount, zero_for_one, sqrt_price_limit) ==
    /\ (p.sqrt_price * Greater(p.sqrt_price, sqrt_price_limit)) \div Q64 <= U128Max
    /\ zero_for_one => /\ p.liquidity <= U64Max
                       /\ Greater(amount, p.liquidity) * p.sqrt_price <= U128Max

\* "Quote a swap off-chain. No transaction needed." (sdk/src/swap_math.ts): what
\* the client is told, with no ticks listed as in scripts/demo_swap.ts, is what
\* a swap sent at once does, whenever the program sees no tick either, its
\* products fit, and the price does not fall to where the product of the two
\* prices is less than one.  (The tick the pool ends at may differ, and a fee below
\* zero stands for none.)
QuoteIsExact ==
    \A zero_for_one \in BOOLEAN :
        \A s \in {x \in Swaps(zero_for_one) :
                     /\ NextTicks(x[3], pool.tick_current, zero_for_one) = {}
                     /\ ProductsFit(pool, x[1], zero_for_one, x[2])} :
            LET q == QuoteSwap(pool, s[1], {}, zero_for_one, s[2])
                r == SwapResult(pool, s[1], s[3], zero_for_one, s[2])
            IN  q.sqrt_price * pool.sqrt_price >= Q64 =>
                    /\ q.sqrt_price = r.sqrt_price
                    /\ q.amount_in  = r.total_amount_in
                    /\ q.amount_out = r.total_amount_out
                    /\ Min0(q.fee_amount) = r.total_fee

\* Whatever live ticks above the price the client lists, an upward quote spends the
\* amount to the last unit and stays within the client's limit.  (A listed tick that
\* lies between the coarse tick_current and the price turns the quote around.)
QuoteHoldsLimit ==
    \A amount \in SwapAmounts, limit \in PriceLimits,
       ticks \in SUBSET {b \in LiveTicks : b.sqrt_price > pool.sqrt_price} :
        pool.initialized /\ pool.liquidity \in 1 .. U64Max /\ limit > pool.sqrt_price =>
            LET q == QuoteSwap(pool, amount, ticks, FALSE, limit)
            IN  /\ q.amount_in + q.fee_amount = amount
                /\ pool.sqrt_price <= q.sqrt_price /\ q.sqrt_price <= limit

\* A quote for a swap upwards outlives everything but a swap and a loss of active
\* liquidity: after any other transaction of anybody the swap still gives more
\* than the floor that was derived from the quote.
QuoteSurvives ==
    [][pool'.sqrt_price = pool.sqrt_price /\ pool'.liquidity \in pool.liquidity .. U64Max =>
        \A s \in {x \in Swaps(FALSE) : NextTicks(x[3], pool.tick_current, FALSE) = {}} :
            SwapResult(pool', s[1], {}, FALSE, s[2]).total_amount_out
                >= SwapFloor(QuoteSwap(pool, s[1], {}, FALSE, s[2]))]_vars

\* "Call this before close_position to show the user what they'll receive"
\* (sdk/src/position.ts): in every state, every position's quoted fees are the
\* fees the program would pay, up to the u64 that pays them.
QuoteFeesExact ==
    \A n \in OpenNfts :
        FeesOwed(positions[n], pool)
            = [k \in Tokens |-> Lesser(QuoteFees(positions[n], pool)[k], U64Max)]

\* What a position's liquidity holds between the two prices of its lower tick.
PriceGap(pos) ==
    LET sdk == SdkPriceAt(pos.tick_lower)
        own == SqrtPriceAt[pos.tick_lower]
    IN  [k \in Tokens |-> SdkTokenAmounts(IF k = 0 THEN sdk ELSE own, sdk, own,
                                          pos.liquidity)[k]]

\* Minimums computed for a closing are still met after any other transaction that
\* leaves the price alone, but for what the SDK's lower price of the lower tick is
\* worth and a unit of rounding.  (That much they can be missed by: near its lower
\* end a position cannot be closed without some slippage.)
CloseMinimumSurvives ==
    [][pool'.sqrt_price = pool.sqrt_price =>
        \A n \in OpenNfts : IsOpen(n)' =>
            \A k \in Tokens :
                Claim(positions[n], pool)'[k] + PriceGap(positions[n])[k] + 1
                    >= CloseMinimum(positions[n], pool)[k]]_vars
===============================================================================
