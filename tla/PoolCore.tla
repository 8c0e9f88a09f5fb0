------------------------------- MODULE PoolCore -------------------------------
(* programs/pool_core: the price, the active liquidity, the fee accumulators   *)
(* and the two vaults of one pool, and the swap that moves them.               *)
(*                                                                             *)
(* pool_core shares no code path with tick_manager at run time: it reads the   *)
(* bytes of the TickArray accounts the client passes along.  The module        *)
(* therefore extends TickManager for those accounts and writes none of them.   *)
(*                                                                             *)
(* The fields and variables that come in a pair, one per token of the pool,    *)
(* are functions on Tokens.                                                    *)
EXTENDS TickManager, SwapMath, Functions, FiniteSetsExt

CONSTANTS
    SqrtPriceAt,          \* [Ticks -> U128], tick_to_sqrt_price_q64
    MAX_TICK_CROSSINGS,   \* 10
    TICKS_PER_LOG2,       \* 2 * 13328, the slope of tick_at_sqrt_price
    Users

\* The floating point of tick_to_sqrt_price_q64 is a table; what the programs
\* rely on is that it is positive and increasing.
ASSUME PriceAssumption ==
    /\ SqrtPriceAt \in [Ticks -> U128]
    /\ \A t \in Ticks : SqrtPriceAt[t] > 0
    /\ \A t, u \in Ticks : t < u => SqrtPriceAt[t] < SqrtPriceAt[u]

ASSUME PoolAssumption ==
    /\ MAX_TICK_CROSSINGS \in Nat \ {0}
    /\ TICKS_PER_LOG2 \in Nat \ {0}

\* Only that many have ever sent a transaction.
ASSUME UsersAssumption == IsFiniteSet(Users)

VARIABLES pool,    \* the Pool account
          vault,   \* [Tokens -> tokens held by the pool's vault]
          wallet   \* [Users -> [Tokens -> tokens held]]

poolVars == <<pool, vault, wallet>>

Tokens == {0, 1}

Pool == [initialized       : BOOLEAN,
         sqrt_price        : U128,
         tick_current      : MIN_TICK - 1 .. MAX_TICK,
         liquidity         : U128,
         fee_rate          : 0 .. FEE_DENOMINATOR - 1,
         fee_growth_global : [Tokens -> U128],
         protocol_fee      : [Tokens -> U64]]

NoPool == [initialized       |-> FALSE,
           sqrt_price        |-> 0,
           tick_current      |-> 0,
           liquidity         |-> 0,
           fee_rate          |-> 0,
           fee_growth_global |-> [k \in Tokens |-> 0],
           protocol_fee      |-> [k \in Tokens |-> 0]]

-------------------------------------------------------------------------------
\* initialize_pool.  The initial tick is the client's word: nothing relates it
\* to the initial price.  The vaults are created empty.
InitializePool(initial_sqrt_price, fee_rate, initial_tick) ==
    /\ ~pool.initialized
    /\ initial_sqrt_price > 0
    /\ 0 < fee_rate /\ fee_rate < FEE_DENOMINATOR
    /\ pool' = [NoPool EXCEPT !.initialized  = TRUE,
                              !.sqrt_price   = initial_sqrt_price,
                              !.tick_current = initial_tick,
                              !.fee_rate     = fee_rate]
    /\ UNCHANGED <<vault, wallet>>

-------------------------------------------------------------------------------
(* modify_liquidity: the CPI by which a position enters or leaves the active   *)
(* liquidity, decided by where tick_current is now.                            *)
\* Mutant: a position that begins at the current tick is left out.
InRangeAbove(p, tick_lower, tick_upper) ==
    tick_lower < p.tick_current /\ p.tick_current < tick_upper

InRange(p, tick_lower, tick_upper) ==
    tick_lower <= p.tick_current /\ p.tick_current < tick_upper

ModifyLiquidityOk(p, delta, tick_lower, tick_upper) ==
    /\ p.initialized
    /\ InRange(p, tick_lower, tick_upper) => -delta <= I128Max

\* Mutant: the subtraction does not saturate.
PoolAfterModifyUnsaturated(p, delta, tick_lower, tick_upper) ==
    IF InRange(p, tick_lower, tick_upper) THEN [p EXCEPT !.liquidity = @ + delta] ELSE p

PoolAfterModify(p, delta, tick_lower, tick_upper) ==
    IF ~InRange(p, tick_lower, tick_upper) THEN p
    ELSE [p EXCEPT !.liquidity = IF delta >= 0 THEN SatAdd(@, delta)
                                               ELSE SatSub(@, -delta)]

ModifyLiquidity(delta, tick_lower, tick_upper) ==
    /\ ModifyLiquidityOk(pool, delta, tick_lower, tick_upper)
    /\ pool' = PoolAfterModify(pool, delta, tick_lower, tick_upper)
    /\ UNCHANGED <<vault, wallet>>

-------------------------------------------------------------------------------
(* Token accounts.  A transfer fails when the source is short.                 *)
Credit(balances, user, token, amount) ==
    [balances EXCEPT ![user][token] = @ + amount]
Debit(balances, user, token, amount) ==
    [balances EXCEPT ![user][token] = @ - amount]

\* The SPL token program: anyone may send tokens to a vault; open_position has
\* its user do so.
DepositToVault(user, token, amount) ==
    /\ amount <= wallet[user][token]
    /\ wallet' = Debit(wallet, user, token, amount)
    /\ vault' = [vault EXCEPT ![token] = @ + amount]
    /\ UNCHANGED pool

\* transfer_from_vault: nothing but the vault's balance stands in the way.
TransferFromVault(user, token, amount) ==
    /\ amount <= vault[token]
    /\ vault' = [vault EXCEPT ![token] = @ - amount]
    /\ wallet' = Credit(wallet, user, token, amount)
    /\ UNCHANGED pool

-------------------------------------------------------------------------------
(* The tick-loop helpers.                                                      *)

Min0(a) == IF a < 0 THEN 0 ELSE a

\* The place of the highest one bit: 63 less the leading zeros of a u64.
FloorLog2[n \in U64] == IF n < 2 THEN 0 ELSE 1 + FloorLog2[n \div 2]

\* tick_at_sqrt_price: one tick value per power of two of the integer part.
TickAtSqrtPrice(sqrt_price) ==
    LET int_part == sqrt_price \div Q64
    IN  IF int_part = 0 THEN MIN_TICK
        ELSE Lesser(FloorLog2[int_part] * TICKS_PER_LOG2, MAX_TICK)

(* pool_core decodes a TickArray account with HEADER_SIZE = 48 bytes before    *)
(* the ticks; the struct has 8 more (_padding1).  So every field it reads      *)
(* starts 8 bytes early: the "initialized" byte is a byte of the second half   *)
(* of fee_growth_outside_1, and the "liquidity_net" is 8 bytes of padding      *)
(* below the low half of the real one.                                         *)
ReadInitialized(t) == (t.fee_growth_outside_1 \div Q64) % 256 # 0

ReadLiquidityNet(t) ==
    LET raw == (t.liquidity_net % Q64) * Q64
    IN  IF raw > I128Max THEN raw - Q64 * Q64 ELSE raw

\* The initialised ticks of an array that the search looks at: below or at the
\* current tick, or above it.  The two ends are computed with truncated
\* division, from the start of the array.
SeenBelow(start, current_tick) ==
    IF start >= current_tick THEN {}
    ELSE {i \in Slots : /\ i <= TruncDiv(current_tick - start, TICK_SPACING)
                        /\ ReadInitialized(tick_arrays[start][i])}
SeenAbove(start, current_tick) ==
    IF start + ArraySize <= current_tick THEN {}
    ELSE {i \in Slots : /\ i >= Min0(TruncDiv(current_tick - start, TICK_SPACING) + 1)
                        /\ ReadInitialized(tick_arrays[start][i])}

\* find_next_sqrt_price_target, over the arrays passed with the instruction:
\* the nearest tick seen, else the price limit.  A tick found is not compared
\* with the limit.  The accounts passed are the pool's tick arrays, some or all;
\* that they are is left to the client, for neither their owner nor their pool is
\* looked at.
NextTicks(accounts, current_tick, zero_for_one) ==
    UNION {{start + i * TICK_SPACING :
               i \in IF zero_for_one THEN SeenBelow(start, current_tick)
                                     ELSE SeenAbove(start, current_tick)}
           : start \in accounts}

Nearest(ticks, zero_for_one) ==
    CHOOSE t \in ticks : \A u \in ticks : IF zero_for_one THEN u <= t ELSE t <= u

\* read_liquidity_net_at_tick, from the slot of the coarse tick of the price, in
\* the same accounts, trusted the same way.
LiquidityNetAt(accounts, sqrt_price) ==
    LET tick  == TickAtSqrtPrice(sqrt_price)
        holds == {start \in accounts : HasTick(start, tick)}
    IN  IF holds = {} THEN 0
        ELSE LET start == CHOOSE s \in holds : TRUE
             IN  ReadLiquidityNet(tick_arrays[start][SlotOf(start, tick)])

ApplyLiquidityDelta(liquidity, net) ==
    IF net >= 0 THEN SatAdd(liquidity, net) ELSE SatSub(liquidity, -net)

-------------------------------------------------------------------------------
(* swap.  Its locals are a record; one turn of the loop maps the record to the *)
(* next.  `failed` stands for the errors and the overflow aborts that revert   *)
(* the transaction from inside the loop.                                       *)

SwapStart(p, amount) ==
    [sqrt_price       |-> p.sqrt_price,
     tick             |-> p.tick_current,
     liquidity        |-> p.liquidity,
     amount_remaining |-> amount,
     total_amount_in  |-> 0,
     total_amount_out |-> 0,
     total_fee        |-> 0,
     fee_growth_inc   |-> 0,
     crossings        |-> 0,
     broke            |-> FALSE,
     failed           |-> FALSE]

Locals == [sqrt_price       : U128,
           tick             : MIN_TICK - 1 .. MAX_TICK,
           liquidity        : U128,
           amount_remaining : U128,
           total_amount_in  : U128,
           total_amount_out : U128,
           total_fee        : U128,
           fee_growth_inc   : U128,
           crossings        : 0 .. MAX_TICK_CROSSINGS,
           broke            : BOOLEAN,
           failed           : BOOLEAN]

LoopGoesOn(l) ==
    /\ ~l.broke
    /\ ~l.failed
    /\ l.amount_remaining > 0
    /\ l.crossings < MAX_TICK_CROSSINGS

FeeGrowthDelta(fee_amount, liquidity) ==
    IF liquidity > 0 THEN ((fee_amount % Q64) * Q64) \div liquidity ELSE 0

\* The target price: the nearest tick seen, else the client's limit.  update_tick
\* initialises no tick outside MIN_TICK .. MAX_TICK, so a tick seen has a price.
SqrtPriceTarget(seen, zero_for_one, sqrt_price_limit) ==
    IF seen = {} THEN sqrt_price_limit ELSE SqrtPriceAt[Nearest(seen, zero_for_one)]

\* Mutant: a step that gives nothing out is skipped.
AfterStepUnlessEmpty(l, step, target, net, zero_for_one, sqrt_price_limit) ==
    LET reached == step.sqrt_price_next = target
        arrived == TickAtSqrtPrice(step.sqrt_price_next)
        beyond  == IF zero_for_one THEN step.sqrt_price_next <= sqrt_price_limit
                                   ELSE step.sqrt_price_next >= sqrt_price_limit
    IN  IF step.amount_out = 0 THEN l ELSE
        [sqrt_price       |-> step.sqrt_price_next,
         tick             |-> IF reached /\ zero_for_one THEN arrived - 1 ELSE arrived,
         liquidity        |-> IF reached
                                THEN ApplyLiquidityDelta(l.liquidity,
                                         IF zero_for_one THEN -net ELSE net)
                                ELSE l.liquidity,
         amount_remaining |-> SatSub(l.amount_remaining, step.amount_in + step.fee_amount),
         total_amount_in  |-> SatAdd(l.total_amount_in, step.amount_in),
         total_amount_out |-> SatAdd(l.total_amount_out, step.amount_out),
         total_fee        |-> SatAdd(l.total_fee, step.fee_amount),
         fee_growth_inc   |-> SatAdd(l.fee_growth_inc,
                                     FeeGrowthDelta(step.fee_amount, l.liquidity)),
         crossings        |-> IF reached THEN l.crossings + 1 ELSE l.crossings,
         broke            |-> ~reached \/ beyond,
         failed           |-> reached /\ net = I128Min]

\* What the turn does with the step it has computed and the net liquidity read
\* at the target.
AfterStep(l, step, target, net, zero_for_one, sqrt_price_limit) ==
    LET reached == step.sqrt_price_next = target
        arrived == TickAtSqrtPrice(step.sqrt_price_next)
        beyond  == IF zero_for_one THEN step.sqrt_price_next <= sqrt_price_limit
                                   ELSE step.sqrt_price_next >= sqrt_price_limit
    IN  [sqrt_price       |-> step.sqrt_price_next,
         tick             |-> IF reached /\ zero_for_one THEN arrived - 1 ELSE arrived,
         liquidity        |-> IF reached
                                THEN ApplyLiquidityDelta(l.liquidity,
                                         IF zero_for_one THEN -net ELSE net)
                                ELSE l.liquidity,
         amount_remaining |-> SatSub(l.amount_remaining, step.amount_in + step.fee_amount),
         total_amount_in  |-> SatAdd(l.total_amount_in, step.amount_in),
         total_amount_out |-> SatAdd(l.total_amount_out, step.amount_out),
         total_fee        |-> SatAdd(l.total_fee, step.fee_amount),
         fee_growth_inc   |-> SatAdd(l.fee_growth_inc,
                                     FeeGrowthDelta(step.fee_amount, l.liquidity)),
         crossings        |-> IF reached THEN l.crossings + 1 ELSE l.crossings,
         broke            |-> ~reached \/ beyond,
         failed           |-> reached /\ net = I128Min]

TurnTarget(l, accounts, zero_for_one, sqrt_price_limit) ==
    SqrtPriceTarget(NextTicks(accounts, l.tick, zero_for_one), zero_for_one, sqrt_price_limit)

TurnPrice(l, target, fee_rate) ==
    StepPrice(l.sqrt_price, target, l.liquidity, l.amount_remaining, fee_rate)

TurnStep(l, target, next) ==
    StepTo(l.sqrt_price, next, l.liquidity, l.amount_remaining, l.sqrt_price >= target)

TurnTowards(l, target, accounts, zero_for_one, sqrt_price_limit, fee_rate) ==
    AfterStep(l, TurnStep(l, target, TurnPrice(l, target, fee_rate)), target,
              LiquidityNetAt(accounts, target), zero_for_one, sqrt_price_limit)

SwapTurn(l, accounts, zero_for_one, sqrt_price_limit, fee_rate) ==
    IF ~LoopGoesOn(l) THEN l
    ELSE TurnTowards(l, TurnTarget(l, accounts, zero_for_one, sqrt_price_limit),
                     accounts, zero_for_one, sqrt_price_limit, fee_rate)

\* The locals after n turns.  A turn that does not break adds a crossing, so
\* MAX_TICK_CROSSINGS turns are all the loop can take.
SwapAfter(p, amount, accounts, zero_for_one, sqrt_price_limit) ==
    LET after[n \in 0 .. MAX_TICK_CROSSINGS] ==
          IF n = 0 THEN SwapStart(p, amount)
          ELSE SwapTurn(after[n - 1], accounts, zero_for_one, sqrt_price_limit, p.fee_rate)
    IN  after

SwapResult(p, amount, accounts, zero_for_one, sqrt_price_limit) ==
    SwapAfter(p, amount, accounts, zero_for_one, sqrt_price_limit)[MAX_TICK_CROSSINGS]

TokenIn(zero_for_one)  == IF zero_for_one THEN 0 ELSE 1
TokenOut(zero_for_one) == IF zero_for_one THEN 1 ELSE 0

SwapInputOk(p, amount, zero_for_one, sqrt_price_limit) ==
    /\ p.initialized
    /\ amount > 0
    /\ p.liquidity > 0
    /\ IF zero_for_one THEN sqrt_price_limit < p.sqrt_price
                       ELSE sqrt_price_limit > p.sqrt_price

SwapOutputOk(r, amount_out_minimum) ==
    /\ ~r.failed
    /\ r.total_amount_out > 0
    /\ r.total_amount_out >= amount_out_minimum
    /\ r.total_amount_in <= U64Max
    /\ r.total_amount_out <= U64Max

\* Mutant: the growth of this swap replaces that of the earlier ones.
PoolAfterSwapReplaced(p, r, zero_for_one) ==
    LET k == TokenIn(zero_for_one)
    IN  [p EXCEPT !.sqrt_price           = r.sqrt_price,
                  !.tick_current         = r.tick,
                  !.liquidity            = r.liquidity,
                  !.fee_growth_global[k] = r.fee_growth_inc]

\* A tenth of the fee is booked for the protocol, on top of the whole fee that
\* the liquidity providers are credited with.
PoolAfterSwap(p, r, zero_for_one) ==
    LET k == TokenIn(zero_for_one)
    IN  [p EXCEPT !.sqrt_price           = r.sqrt_price,
                  !.tick_current         = r.tick,
                  !.liquidity            = r.liquidity,
                  !.fee_growth_global[k] = SatAdd(@, r.fee_growth_inc),
                  !.protocol_fee[k]      = SatAdd64(@, (r.total_fee \div 10) % Q64)]

\* Mutant: the user pays the fee, and no vault receives it.
SettleGross(user, r, k_in, k_out) ==
    /\ r.total_amount_in + r.total_fee <= wallet[user][k_in]
    /\ r.total_amount_out <= vault[k_out]
    /\ vault'  = [vault EXCEPT ![k_in]  = @ + r.total_amount_in,
                               ![k_out] = @ - r.total_amount_out]
    /\ wallet' = Credit(Debit(wallet, user, k_in, r.total_amount_in + r.total_fee),
                        user, k_out, r.total_amount_out)

\* The user pays total_amount_in, net of the fee, and receives total_amount_out.
CanSettle(user, r, k_in, k_out) ==
    /\ r.total_amount_in <= wallet[user][k_in]
    /\ r.total_amount_out <= vault[k_out]

Settle(user, r, k_in, k_out) ==
    /\ CanSettle(user, r, k_in, k_out)
    /\ vault'  = [vault EXCEPT ![k_in]  = @ + r.total_amount_in,
                               ![k_out] = @ - r.total_amount_out]
    /\ wallet' = Credit(Debit(wallet, user, k_in, r.total_amount_in),
                        user, k_out, r.total_amount_out)

Swap(user, amount, zero_for_one, sqrt_price_limit, amount_out_minimum, accounts) ==
    /\ SwapInputOk(pool, amount, zero_for_one, sqrt_price_limit)
    /\ \E r \in {SwapResult(pool, amount, accounts, zero_for_one, sqrt_price_limit)} :
          /\ SwapOutputOk(r, amount_out_minimum)
          /\ pool' = PoolAfterSwap(pool, r, zero_for_one)
          /\ Settle(user, r, TokenIn(zero_for_one), TokenOut(zero_for_one))

-------------------------------------------------------------------------------
CONSTANTS InitialPools,   \* <<sqrt_price, fee_rate, tick>> triples
          Ranges,         \* <<tick_lower, tick_upper>> pairs
          SwapAmounts, PriceLimits, OutMinimums,
          Supply,         \* what each user holds of each token at first
          InitialBooks,   \* what tick_manager may have written before
          MaxLiquidity,   \* bound: no more liquidity is added above it
          MaxGrowth       \* bound: no more swaps when an accumulator is above it

ASSUME PoolInputAssumption ==
    /\ \A p \in InitialPools : p[1] \in U128 /\ p[2] \in 1 .. FEE_DENOMINATOR - 1 /\ p[3] \in Ticks
    /\ Ranges \subseteq UsableTicks \X UsableTicks
    /\ SwapAmounts \subseteq U64 /\ PriceLimits \subseteq U128 /\ OutMinimums \subseteq U64
    /\ Supply \in Nat /\ MaxLiquidity \in Nat /\ MaxGrowth \in Nat

\* What tick_manager writes: typed tables, and a flag that pool_core can see only
\* at a slot that stands for a tick.
SeesTicks(book) ==
    \A s \in DOMAIN book.arrays : \A i \in Slots :
        ReadInitialized(book.arrays[s][i]) => s + i * TICK_SPACING \in Ticks

ASSUME BooksAssumption == \A b \in InitialBooks : BookTypeOK(b) /\ SeesTicks(b)

PoolInit == /\ pool = NoPool
            /\ vault = [k \in Tokens |-> 0]
            /\ wallet = [u \in Users |-> [k \in Tokens |-> Supply]]

CreatePool == \E p \in InitialPools : InitializePool(p[1], p[2], p[3])

SwapAny ==
    /\ \A k \in Tokens : pool.fee_growth_global[k] <= MaxGrowth
    /\ \E user \in Users, amount \in SwapAmounts, zero_for_one \in BOOLEAN, limit \in PriceLimits,
          minimum \in OutMinimums, accounts \in SUBSET DOMAIN tick_arrays :
            Swap(user, amount, zero_for_one, limit, minimum, accounts)

\* What position_mgr's transactions ask of pool_core, in any order, and anybody may:
\* modify_liquidity and transfer_from_vault do not ask who calls.
ServePosition ==
    \/ \E delta \in Deltas, r \in Ranges : /\ pool.liquidity + delta <= MaxLiquidity
                                         /\ ModifyLiquidity(delta, r[1], r[2])
    \/ \E user \in Users, token \in Tokens, amount \in SwapAmounts :
          DepositToVault(user, token, amount) \/ TransferFromVault(user, token, amount)

\* pool_core on its own, over tick accounts that stay as they are.
PoolNext == (CreatePool \/ ServePosition \/ SwapAny) /\ UNCHANGED tickVars

PoolOverBooksInit ==
    /\ PoolInit
    /\ \E b \in InitialBooks : tick_arrays = b.arrays /\ tick_bitmaps = b.bitmaps

PoolSpec == PoolOverBooksInit /\ [][PoolNext]_<<tickVars, poolVars>>

-------------------------------------------------------------------------------
(* Properties *)

PoolTypeOK ==
    /\ pool \in Pool
    /\ vault \in [Tokens -> Nat]
    /\ wallet \in [Users -> [Tokens -> Nat]]

\* The fee accumulators "only ever increase" (pool_core/src/state.rs), and the
\* protocol's share with them.  Every position's claim is a difference of two
\* readings, so one decrease would turn into a claim of almost 2^128.
GrowthNeverFalls ==
    [][pool.initialized =>
         \A k \in Tokens :
            /\ pool'.fee_growth_global[k] >= pool.fee_growth_global[k]
            /\ pool'.protocol_fee[k] >= pool.protocol_fee[k]]_pool

\* Tokens only change hands.
Conservation ==
    \A k \in Tokens :
        SumFunction([u \in Users |-> wallet[u][k]]) + vault[k] = Cardinality(Users) * Supply

\* The swaps a client could send now and that the program would carry through,
\* as far as pool_core decides.
Swaps(zero_for_one) ==
    {s \in SwapAmounts \X PriceLimits \X SUBSET DOMAIN tick_arrays :
        /\ SwapInputOk(pool, s[1], zero_for_one, s[2])
        /\ SwapOutputOk(SwapResult(pool, s[1], s[3], zero_for_one, s[2]), 0)}

\* "If price hits the tick boundary first: cross the tick (apply liquidity_net to
\* active liquidity)" (README.md): a swap that goes up past live ticks ends with
\* the liquidity they leave.
CrossingAppliesNet ==
    \A s \in Swaps(FALSE) :
        LET r      == SwapResult(pool, s[1], s[3], FALSE, s[2])
            passed == {t \in UsableTicks :
                         /\ TickToArrayStart(t) \in s[3]
                         /\ Tick(tick_arrays, t).initialized
                         /\ pool.sqrt_price < SqrtPriceAt[t] /\ SqrtPriceAt[t] < r.sqrt_price}
        IN  r.liquidity = pool.liquidity
                + MapThenSumSet(LAMBDA t : Tick(tick_arrays, t).liquidity_net, passed)
===============================================================================
