# NarrowSwap in TLA+

NarrowSwap is a concentrated-liquidity exchange for Solana: three on-chain
programs (`tick_manager`, `pool_core`, `position_mgr`) and a TypeScript SDK.
This directory holds a TLA+ model of the three programs and of what the SDK
computes for their clients, the TLC runs that check it, and TLAPS proofs of its
central invariants and its refinement.

## 1. The system

A Solana transaction is atomic: it runs to the end and every write takes
effect, or it fails and none does. Transactions that write a common account are
executed one after the other, and each operation here writes the pool, a tick
account or a position, so a run of the system is a sequence of whole
transactions. There is no crash to recover from, no message to lose, no thread
inside the programs; nothing ever starts on its own. What is hard is what
*sequences* of transactions by different users do to the shared tables, a loop
that reads the pool once and writes it once with many turns between
(`SwapLoop`), what a client computed from accounts that have changed by the time
its transaction runs (`Sdk`), and arithmetic in fixed width.

| Component | State | Operations | Called by |
|---|---|---|---|
| `tick_manager/math.rs` | none | array, word and bit of a tick | all three programs; mirrored in the SDK |
| `tick_manager` | TickArray accounts (88 slots each), TickBitmap accounts (8 arrays each) | `initialize_tick_array`, `update_tick`, `cross_tick`, `get_next_initialized_tick` | clients; `position_mgr` (CPI `update_tick`) |
| `pool_core/swap_math.rs` | none | one swap step | `swap` |
| `pool_core` | Pool account, two vaults | `initialize_pool`, `modify_liquidity`, `transfer_from_vault`, `swap` | clients; `position_mgr` (CPI) |
| `position_mgr/liquidity_math.rs` | none | amounts to liquidity and back | `open_position`, `close_position` |
| `position_mgr` | Position accounts, NFT mints | `open_position`, `close_position`, `collect_fees` | clients |
| SPL token program (external) | balances, NFT holders | transfers, mint, burn | clients; the programs |
| SDK | none on chain | addresses, quotes, minimums, transactions | clients |

Interactions worth knowing:

* `position_mgr` changes ticks and the pool only by calls inside its own
  transaction: `update_tick` for the lower tick, `update_tick` for the upper
  tick (on what the first has written), transfers, `modify_liquidity`.
* It is not the only one who can. `update_tick` and `cross_tick` ask for a signer,
  any signer; `modify_liquidity` and `transfer_from_vault` ask for none
  (`pool_core/src/lib.rs:522-524`), and `tests/tick_manager.ts` calls the first two
  from a plain wallet. So each of them is a transaction of its own in the model of
  the system, with whoever and whatever arguments.
* Of the accounts that `open_position` is given as vaults only the mint is checked
  (`position_mgr/src/lib.rs:400-410`): a deposit may go to the depositor's own account.
* `pool_core` never calls `tick_manager`. It reads the *bytes* of the TickArray
  accounts the client passes with a swap, at offsets of its own, and it does not
  write them: although README.md of the repository draws a `cross_tick` call
  during a swap, the code has none.
* A position's share of the fees is the difference of two readings of the
  pool's global accumulators, times its liquidity.
* The SDK reads the pool, the ticks and the position, computes a quote and a
  minimum, and only then sends a transaction; others may come between.
* The NFT moves by the token program alone: its holder may send it on or burn it, and
  no program hears of it.

What makes each part correct:

* *ticks*: the SDK and the program name the same accounts; no two ticks share a
  slot; `initialized` follows the liquidity; the bitmap bit follows the array;
  fee snapshots change for the right reason only; the tables are the sum of the
  open positions.
* *pool*: the price moves toward its target and not past it; accumulators never
  fall; the fee is the pool's rate; tokens change hands and nothing else;
  active liquidity is that of the positions in range.
* *positions*: no NFT without its position, no mint used twice; every position can
  leave; only swaps make anybody richer or poorer; claims are covered by the vaults.
* *SDK*: it names the accounts the programs expect; a quote is what the program
  does, and the minimum derived from it is still met when others came first.

`PROJECT.json` lists the hazards behind these, each at its line.

## 2. The modules

| Module | Models | Notes |
|---|---|---|
| `FixedWidth` | Rust's saturating, wrapping and signed operations | one constant, `Q64`, gives every width |
| `TickMath` | `tick_manager/src/math.rs`, `TickArray::get_tick`; `sdk/src/tick_math.ts` addressing | |
| `TickManager` | `tick_manager/src/lib.rs`, `state.rs` | `TickSpec` |
| `SwapMath` | `pool_core/src/swap_math.rs` | |
| `SwapWalk` | one swap step, with an arbitrary input at each step | the inputs of `swap_math.rs` as a state machine |
| `PoolCore` | `pool_core/src/lib.rs`, `state.rs`, a swap as one action | extends `TickManager` (for the accounts it reads) and `SwapMath`; `PoolSpec` |
| `SwapLoop` | the same `swap` one turn of its loop at a time | `LoopSpec`, with fairness |
| `LiquidityMath` | `position_mgr/src/liquidity_math.rs` | |
| `LiquidityBook` | nothing in the code: what ticks, positions and NFTs promise | the abstract specification of `PositionMgr` |
| `PositionMgr` | `position_mgr/src/lib.rs`, `state.rs`, and the system | composes all of the programs; `Spec` |
| `SdkMath`, `Sdk` | `sdk/src/swap_math.ts`, `sdk/src/position.ts`, prices of ticks in `sdk/src/tick_math.ts`, `scripts/demo_swap.ts` | constant level: operators on a pool and a position |
| `ArithmeticProofs`, `TickMathProofs`, `TickManagerProofs`, `SwapWalkProofs`, `PoolCoreProofs`, `SwapLoopProofs`, `PositionMgrProofs`, `SdkProofs` | theorems | section 5 |
| `MC*` | instances for TLC | bounds, section 3 |

Correspondence of state:

* `tick_arrays` is a function from the starts of the TickArray accounts that
  exist to tables of `TickData`; `tick_bitmaps` has one `TickBitmap` per word,
  its byte as the set of its one bits.
* `pool` is the Pool account; pairs such as `fee_growth_global_0/1` are
  functions on `Tokens = {0, 1}`. `vault` and `wallet` are token balances.
* `call` (in `SwapLoop`) is the swap that is running: its arguments and its
  locals, or `NoCall`.
* `positions` maps each mint to a Position or to `NoPosition`; `nft_minted` is
  the set of mints that were ever created, `nft_holder` who has the one token.
* `unbacked` is history and nothing in the code: how many times somebody has changed
  ticks, active liquidity or token balances with no position and no swap behind it.
  Properties that such a call ends say so with it.

Correspondence of actions: one action per instruction, named after it. Its guard
conjoins the account constraints, `require!`s, checked arithmetic and overflow
aborts, the failing transfers included (the programs are built with
`overflow-checks = true`, so a plain `+` or `-` that leaves its type aborts).
`update_tick` is also available as a pure guard and effect on a pair of tables
(`UpdateTickOk`, `AfterUpdateTick`), because `position_mgr` runs it twice in one
transaction. `swap` keeps its locals in a record, and a turn of its loop is a
function on that record. `PoolCore` takes all the turns in one action (at most
`MAX_TICK_CROSSINGS`, because a turn that does not break adds a crossing);
`SwapLoop` has `BeginSwap`, `Turn`, `Commit` and `Revert` as actions of their own.

Refinement:

* `RefinesBook`: `PositionMgr` implements `LiquidityBook`. A share of the abstract
  book is a position's two ticks and its liquidity as an i128; what a tick holds is
  read from its slot, nothing where the array does not exist. Openings issue,
  closings redeem, transfers hand over, a burnt NFT destroys a receipt whose share
  stays. A direct `update_tick` is a write from outside (`Outside`) that changes one
  tick and no share; the book is `sealed` until the first of them, and only a sealed
  book promises that its ticks are the sum of its shares. Everything else is a stutter.

That `SwapLoop` does to the accounts what `PoolCore` does in one action is not
listed as a property: both are written with the same operators, and that no other
transaction comes between is the runtime's hold on writable accounts, which
`SwapLoop` assumes (`~call.running` in `Other`). `LoopIsPool` proves it, because the
theorems about `PoolCore` are wanted for `SwapLoop` too.

Abstractions:

* One pool, and the accounts that are passed are its own: its tick arrays, its
  bitmaps, for payments out of the pool its vaults. This is assumed of the clients and
  not enforced everywhere: `position.pool` is not compared with the pool in
  `close_position` and `collect_fees`, a TickArray's `pool` is compared with nothing, nor
  are the seeds of the bitmap with the array, and `swap` reads whatever accounts it is
  given at the offsets of a tick array. What is said of checkpoints, ticks and swaps is said of
  clients that pass the right accounts.
* Account addresses, mints, bumps, rent and events are left out; a PDA is the tuple it
  is derived from.
* `tick_to_sqrt_price_q64` (floating point) is the constant `SqrtPriceAt`, of
  which only positivity and monotonicity are assumed. The SDK's version keeps 32
  bits of fraction: `SdkPriceAt` is the same table with its low bits cut.
* `pool_core`'s reading of a TickArray account is modelled by what the bytes are:
  its `HEADER_SIZE` is 48 and the ticks begin at byte 56, so "initialized" is a
  byte of the upper half of `fee_growth_outside_1`, and "liquidity_net" the
  low half of the real one shifted up by a word.
* In `Spec` a client may send every instruction of the three programs: those of
  `position_mgr`, `initialize_pool`, `initialize_tick_array` and `swap`, and directly also
  `update_tick`, `cross_tick`, `modify_liquidity` and `transfer_from_vault`; besides
  that, tokens to a vault, and an NFT to somebody else or to nobody.
* The SDK's numbers are unbounded integers, as BigInt is. `MAX_SAFE_INTEGER` is
  where `Number` would round.

## 3. The runs

Runs that pass:

| Run | Module, config | Instance | Properties |
|---|---|---|---|
| `tick_math` | `MCTickMath`, `TickMath.cfg` | the real constants, all 887273 ticks | `SdkAgrees`, `AddressRecoversTick`, `ClientTicksFit` |
| `tick_index` | `MCTickManager`, `TickIndex.cfg` | `Q64 = 2` (liquidity 0..3, every i128 delta in -2..1), two arrays of two ticks, one more that cannot be created, three arrays over two words; crossings when both accumulators are 1 | `TickTypeOK`, `LiveIffGross`, `BitmapSound`, `NextTickExact`, `SnapshotsMoveAlone` |
| `swap_step` | `MCSwapMath`, `SwapStep.cfg` | `Q64 = 64`, 8 prices on both sides of 1 (down to 7/64), 5 liquidities, every u64 amount | `UpwardStepExact`, `MulQ64Exact`, `UpwardMonotone` |
| `pool_core` | `MCSwapLoop`, `SwapLoop.cfg` | `Q64 = 2^14`; books with no array, live ticks, crossed ticks; the swap in small steps | `LoopTypeOK`, `Conservation`, `UpwardExactInput`, `GrowthNeverFalls`, `SwapEnds` |
| `system` | `MCPositionMgr`, `System.cfg` | two users, two mints, overlapping ranges that share a tick, swaps in both directions | `PositionTypeOK`, `TickLedger`, `TicksNeverBlockExit`, `OneReceipt`, `CheckpointBehind`, `QuoteIsExact`, `QuoteHoldsLimit`, `QuoteFeesExact`, `Conservation`, `MintsAreFinal`, `WealthSettled`, `OnlySwapsMiscount`, `RefinesBook`, `QuoteSurvives`, `CloseMinimumSurvives` |
| `direct_calls` | `MCPositionMgr`, `DirectCalls.cfg` | one user, two mints on one range, and one change with no position behind it at any point: `update_tick` or `modify_liquidity` of -500 or 500 at any tick, tokens into or out of a vault, an opening that does not pay for one token or both; any number of `cross_tick` | `TickLedger`, `TicksNeverBlockExit`, `Conservation`, `WealthSettled`, `OnlySwapsMiscount`, `RefinesBook` |

The bounds:

* *Widths.* `Q64` stands for 2^64. The tick runs take `Q64 = 2`, so that deltas
  and liquidity meet the ends of their types all the time. The pool and system
  runs take 2^14 = 16384 (`Q32 = 128`), large enough that amounts of a few
  hundred and their products stay within the types, as real amounts do.
* *Ticks.* Spacing 2, two ticks per array and two arrays per word are the least
  that give an array with several ticks, a word with several arrays, and ticks
  that are not aligned. The range -5..3 has a lowest array that starts below
  `MIN_TICK`, as the real one does.
* *Prices.* One tick is 2^(1/4) of the square-root price; `TICKS_PER_LOG2` is 7,
  so that the slope of `tick_at_sqrt_price` is to the true one as 26656 is to 13863.
* *Liquidity and growth.* `MaxLiquidity` stops additions in the pool run,
  `MaxUnbacked` is how many changes a behaviour has that no position stands behind: none in
  `system`, where two users and overlapping ranges need the room, one in `direct_calls`,
  whose properties say what one of them spoils and what it leaves intact.
  `MaxGrowth` stops swaps when an accumulator has passed it: a few swaps follow
  one another in each behaviour. Mints are used up, which is why the system
  and direct-call runs have deadlock off; `tick_math` and `swap_step` are walks that end.
* *SDK.* `MAX_SAFE_INTEGER` is 8191, less than the largest u64 amount and more
  than any the instance reaches, as 2^53 - 1 is. `slippageBps` is 0: the closing
  minimums have no tolerance to hide behind. `Q32 = 128` makes the SDK's price of a
  tick coarse, so that its difference from the program's is seen in amounts.
* `FEE_DENOMINATOR` is 1000 and `MAX_TICK_CROSSINGS` 3 in the pool and system
  runs. Users and mints are symmetric in `system`; the other runs use no symmetry.

Fairness. The runtime carries a transaction that it has started to its end, so
`LoopSpec` has weak fairness on `Turn`, `Commit` and `Revert`. No client has to
start anything, so nothing else is fair, and the only liveness property is
`SwapEnds`: a swap that has begun comes to its end, whatever book of ticks it
meets. For openings and closings, which are one action each, what takes the place
of liveness is that an exit is never blocked (`TicksNeverBlockExit`).

Properties that go beyond one instruction:

* `TickLedger`: until somebody sends `update_tick` past `position_mgr`, gross and net
  liquidity of every slot equal the sums over the open positions that begin or end
  there, after any order of openings, closings and swaps, and of direct calls of the
  other instructions. The defects in `pool_core` never touch the tick tables. `RefinesBook`
  says the same of each step, and goes on saying it of openings and closings after a direct
  `update_tick`.
* `TicksNeverBlockExit`: as long, the guards of both `update_tick` calls and of
  `modify_liquidity` hold for closing each open position. (The vault and the NFT may still
  stand in the way: see the findings. After a direct `update_tick` the ticks may, too:
  its subtraction leaves less than a closing needs.)
* `OnlySwapsMiscount`: where the pool's active liquidity is that of the positions
  in range, no opening, closing, collecting or direct call but `modify_liquidity`
  makes it wrong; a swap can (see section 4 for why a swap does).
* `WealthSettled`: with the price unmoved, wallet plus claims of every user is
  the same before and after every step that moves no tokens past `position_mgr`;
  collecting twice, collecting and then closing, opening and closing at once win
  and lose nothing, also when tokens were moved before.
* `OneReceipt`: no NFT outlives its position, and no open position has an unused mint.
  The converse is not true: a holder may burn the NFT, the position stays and cannot be
  closed any more.
* `CheckpointBehind`: no checkpoint is ahead of the pool's accumulator. It is about one
  pool: the programs would take another pool's accumulators for a position's.
* `UpwardExactInput`, `UpwardStepExact`, `UpwardMonotone` hold of upward moves
  only; the downward formula is wrong (section 4).
* `UpwardMonotone`: more input takes the price at least as far. It brings no less
  output where the product of the two prices fits, and where the output times the
  current price, in whole units rounded up, is below the liquidity. The second
  bound is needed: `get_amount_0_delta` divides by the product of the
  prices rounded down, and where that product is a small whole number a step of the
  divisor outweighs the step of the dividend (at price 7/64 with liquidity 2, one
  unit more of input gives less output).
* `QuoteIsExact`: for every swap a client could send, in both directions, what
  `quoteSwap` says without listed ticks is what `swap` does, where the program sees
  no tick, its products fit their widths (`ProductsFit`), and the product of the two
  prices is at least one. Beyond that the program's products saturate and lose
  bits, and the SDK's do not; below it the program takes the target for out of reach
  and the SDK takes it for free.
* `QuoteHoldsLimit`: with any listed ticks above the price, an upward quote spends
  the whole amount and ends within the limit.
* `QuoteSurvives`: an upward quote's floor (half a per cent below it, as in
  `scripts/demo_swap.ts`) is met after any transaction of anybody that leaves the
  price alone and takes no active liquidity away.
* `QuoteFeesExact`: `quoteFees` is what `collect_fees` computes, up to the u64 that
  pays it. The SDK takes an
  accumulator behind its checkpoint for no growth, the program wraps around:
  the two agree because `CheckpointBehind` holds.
* `CloseMinimumSurvives`: a minimum computed for a closing is met after any
  transaction of anybody that leaves the price alone, but for what the difference
  between the two prices of the lower tick is worth, and one unit.
* `ClientTicksFit`: which ticks `nearestUsableTick` turns into one that the
  programs accept, exactly; the ends of the scale are lost.

## 4. Where the code and its documents disagree

Each is a run that TLC finds violated, with the quoted line in `PROJECT.json`.

| Run | Property | In short |
|---|---|---|
| `tick_bitmap_complete` | `BitmapComplete` | one tick's death turns the array's bit off |
| `swap_crossing` | `CrossingAppliesNet` | live ticks are passed without their net liquidity |
| `swap_repeats` | `SwapGoesOn` | a swap that comes to a tick it sees stops there: the step books all its unspent input as the fee |
| `nft_transfer` | `OwnershipFollowsNft` | the recorded owner stays when the NFT moves |
| `fees_funded` | `ClaimsAreFunded` | fees are credited and not paid in |
| `out_of_range` | `EarnsOnlyInRange` | positions out of range earn |

Other disagreements met while modelling, which reading settles and which have no
run of their own:

* `update_tick` and `cross_tick` ask for a signer and compare it with nothing, where
  their comments have "Only position_mgr (a specific PDA) can call this" and "Only pool_core
  can call cross_tick"; the tests call both from a plain wallet. What follows is the
  subject of the run `direct_calls`.
* `get_next_sqrt_price_from_amount_0` computes `L / (L + amount * price)`, where its own
  formula has `L * price` above the line: a step downwards that stops partway lands at the
  right price divided by the one it started from. Above price 1 it overshoots (at width 64: from 65/64 towards 63/64, two
  units of input against liquidity 47 end below 63/64).
* `find_next_sqrt_price_target` returns the price of the tick it finds without comparing it
  with the client's limit, which the loop looks at after the step: a swap that finds a tick beyond
  its limit ends there. The SDK's loop ("Enforce price limit") takes the nearer of the two.
* An opening may take more of token 0 than `amount_0_desired`:
  `get_liquidity_for_amount_0` divides by the width of the range cut to 32 bits, which rounds
  the liquidity up, and `get_amount_0_for_liquidity`, "Inverse of
  get_liquidity_for_amounts", multiplies by the whole width.
* The lowest array cannot be created: it starts at -444928, and
  `initialize_tick_array` refuses a start below `MIN_TICK` = -443636, so a
  position cannot begin among the lowest valid ticks.
* `tick_at_sqrt_price` estimates the tick from the power of two below the price.
  After a swap `tick_current` is that estimate, and `Pool.liquidity` is not the
  liquidity of the positions in range.
* `nearestUsableTick` is documented as rounding down (100 to 64, -10 to -64). It
  rounds to the nearest multiple: 128 and 0. Near `MAX_TICK` the nearest multiple
  lies beyond it.
* The SDK's price of a tick is a little below the program's. Near the lower end of
  its range a position cannot be closed with zero slippage.
* A listed tick that lies between the coarse `tick_current` and the price is a target
  behind the price, and `quoteSwap` turns around.
* `openPosition` of the SDK demands nearly all of both desired amounts, though a
  range takes them in one ratio only: an unbalanced deposit is refused.

## 5. What is proved

The theorems hold for every value of the constants that meets the named
assumptions: `Q64Assumption` (an even natural number, at least 2), `Q32Assumption`
(its square is `Q64`), `TickAssumption` (positive sizes, a range around zero),
`PriceAssumption` (tick prices positive and increasing), `PoolAssumption` and
`FeeAssumption` (positive constants), `DeltasAssumption`, `FeeGrowthsAssumption`,
`PoolInputAssumption` and `DepositsAssumption` (inputs are of their Rust types),
`BooksAssumption` (tick tables that `tick_manager` can have written),
`NobodyAssumption`, `UsersAssumption` and `NftsAssumption` (finitely many users
and mints: the sums are over them), and four that follow from the programs' own
numbers:

* `FeeDenominatorAssumption`: 1_000_000 is a u64, so the fee on a u64 never saturates.
* `SafeIntegerAssumption` and `SlippageAssumption`: the SDK's constants are numbers, and
  no more than all can be lost.
* `SpacingAssumption`: more than one tick between usable ticks (the spacing is 64);
  then two of them have prices at least two apart, and a position's liquidity is less
  than half of what u128 holds.
* `RoomAssumption`: as many positions as there are mints, each as large as its range
  lets it be (`LiquidityLimit`), fit an i128 together. The code does not check that:
  `update_tick` refuses when the sum is exceeded. With the programs' constants the
  largest position has less than 2^105 of liquidity, at the lowest tick, and 2^22
  of them are needed to come near the limit. Only `TickLedgerCorrect`,
  `ExitNeverBlocked` and `OnlySwapsMiscountCorrect` rest on it.

No proof relies on a bound of a run: `MaxLiquidity` and
`MaxGrowth` are arbitrary numbers.

* `ArithmeticProofs`, about pure functions, in three parts:
  * Integer division, induction, and sums. The library's induction
    theorems take an operator, which the installed provers do not instantiate;
    `LeastNatural` and `SetInduction` say the same of a set of numbers, from
    well-foundedness of the naturals. A sum over a finite set is the community modules'
    fold, which is defined by recursion on the set: `SumExists` builds it by induction on
    the cardinality, `SumRemove` takes a member out, and from these `SumUpdate` (one
    summand changes), `SumFilter` (summands that are zero may be left out), `SumBound`
    and the rest.
  * The tick arithmetic: `ArrayStartIsFloor` (truncated division with its correction
    is the floor division of the SDK) from uniqueness of the quotient,
    `TickIsInItsArray`, `SlotRecoversTick` (no two aligned ticks share a slot) and
    `SdkFindsTheAccounts` (array, word and bit).
  * The swap step: `UpwardStep`, what `compute_swap_step` does in its upward
    direction: it stops at the target at the latest, takes no more than the amount less
    its fee, and pays for the whole way it went. `MulQ64Product`, the product from four
    halves, where it fits. Both need nonlinear facts about floors and ceilings
    of quotients, which the lemmas isolate one at a time. `UpwardStepGrows` compares
    the steps for two amounts: the fee grows by at most one per unit, so the net amount
    grows, so does the price (`NextPriceGrows`), and the output (`OutputUp`) is a
    quotient whose dividend grows by the liquidity when its divisor grows by the
    current price (`QuotientGrows`): the bound on the output is what makes the first
    outweigh the second.
* `TickMathProofs` turns the tick arithmetic into the properties of the run `tick_math`,
  whose behaviour walks over the ticks, for every geometry: `SdkAgreesCorrect`,
  `AddressRecoversTickCorrect` and `ClientTicksFitCorrect`. The last one asks for an even
  spacing (`nearestUsableTick` rounds at half of it) and that the lowest array begins
  below the lowest tick, as 64 and -443636 have it.
* `SwapWalkProofs` does the same for the swap step and the run `swap_step`.
* `TickManagerProofs`:
  * `TickTypeCorrect`, `[]TickTypeOK`. Inductive as it stands, given that a tick
    with a slot lies in one array only.
  * `LiveIffGrossCorrect`, `[]LiveIffGross`. Relies on the types, for the sign of
    gross; the step has one case per instruction, and for an update one for the
    slot written and one for the others.
  * `BitmapSoundCorrect`, `[]BitmapSound`. A bit goes on only with a tick that goes
    live in that array; an array loses its last live tick only by an update that
    flips, which clears the bit. The flip test compares the old flag with the
    new gross, so the step needs `LiveIffGross` as a hypothesis.
  * `SnapshotsMoveAloneCorrect`, the action property.
  * `NextTickExactCorrect`, `[]NextTickExact`. The slots searched are those of the
    array strictly beyond the tick; that none of them is missed needs the
    arithmetic of slots above, and that the search returns the nearest needs a least
    and a largest element of a set of slots.
* `PoolCoreProofs`: a recursive function is one that satisfies its equation, *if
  there is any*. `IterationExists` builds it, a number at a time, for any step on a set;
  with it `FloorLog2` and `SwapAfter` unfold, and `ResultIsOneTurn` shows that the
  loop's state after any number of turns is that after one. From
  there `PoolTypeCorrect` and `GrowthNeverFallsCorrect`. The inductive invariant
  `PoolInv` adds to the types that an existing pool has a positive fee (without it
  the step could leave input over and the loop go on) and that a flag
  `pool_core` takes for "initialized" stands at a slot of a legal tick (without it
  a target price need not exist). `ConservationCorrect`: the sum over the wallets loses
  what the vault gains (`TradeConserves`), whichever user trades and whichever
  way, and the guards of the transfers keep both in their types.
* `SwapLoopProofs`: `LoopInv` says of a running swap that its locals are the start
  or the result of one turn, and that the pool is still the one it has read.
  From it `LoopTypeCorrect`, `UpwardExactInputCorrect` and `LoopGrowthCorrect`, and
  `OneTurnCorrect`, the reach of the defect that the run `swap_repeats` shows: the loop never
  takes a second turn, whatever the ticks.
* `PositionMgrProofs`, about the whole system:
  * `OneReceiptCorrect` and `MintsAreFinalCorrect`, from the inductive
    `ReceiptInv`: `OneReceipt` with the shape of the tables, and that what is open
    has an owner among the users (`Nobody` is none), so that no open position is the
    record `NoPosition`.
  * `PositionTypeCorrect`, `CheckpointBehindCorrect`, `SystemTicksCorrect` and
    `SystemGrowthCorrect`, from `SystemInv`. It joins the types of all accounts,
    `CheckpointBehind`, the invariants of the tick tables (carried over two updates in
    one transaction and over direct updates and crossings), and that a pool which does
    not exist has collected nothing. `TicksSeen` supplies what `pool_core`'s own theorems
    ask of the tables: a snapshot is kept only by a live tick, and only a usable tick is live.
    What a client calls directly in `pool_core` is `ServePosition` (`DirectCallsServe`), so
    those theorems cover it.
  * `BookRefined`, `Spec => RefinesBook`. Two updates move net and gross of two ticks
    and nothing else (`TwoUpdates`), because aligned ticks do not share slots
    (`SlotRecoversTick`); an opening is then an `Issue`, a closing a `Redeem`, a direct
    update the write from outside (`DirectUpdateMoves`), a burn of an NFT a `Destroy`.
  * `TickLedgerCorrect`, from `BookRefined` and not from the code again: every step is
    one of the abstract book, where one share appears or disappears and two ticks
    move by its amount (`BookStepAgrees`), so the sums of all shares go along
    (`LedgerAgrees`), as long as `unbacked` counts no direct update. The invariant `BalanceInv` adds that a share is the position's
    liquidity and not its bits read as a negative i128 (`SharesFit`, from
    `LiquidityWithinLimit` at the opening), and the tables' `UnusedEmpty` and `WordsOwn`.
  * `ExitNeverBlocked`: what a closing takes from a tick is part of what
    `TickLedger` says is there, so the subtraction does not go below zero, the net stays
    an i128 by `RoomAssumption`, and the accounts exist and are the right ones.
  * `OnlySwapsMiscountCorrect`: an opening or closing changes one summand of the
    active liquidity and `modify_liquidity` adds or takes the same
    (`OneActiveChanges`); a swap that is carried through gives something out, and
    then it has moved the price (`SwapMovesPrice`), so no swap meets the hypothesis;
    nor does a direct `modify_liquidity`, for it is counted.
  * `SystemConservationCorrect` adds `PayIn` and `PayOut` to the argument of `pool_core`.
  * `WealthSettledCorrect`: a user's wealth is the wallet and a sum of claims over
    the receipts. A transaction that leaves the price alone changes one claim, by what it
    pays (`SettledAt`, `SettlingKeepsWealth`): for an opening that is paid into the vaults
    (which `unbacked` tells, `Counted`) the cost is the new claim, because the checkpoint is the accumulator (`ClaimAtCheckpoint`); for a
    collection the claim before is the claim after and the fees, where no
    saturating addition cuts it (`UncutClaim`), which is the hypothesis
    that the property states.
* `SdkProofs`, on top of `SystemInv`:
  * `QuoteFeesExactCorrect`: a product that saturates, divided by the unit and cut to
    u64, is the quotient capped at the largest u64 (`SaturatedShare`), and
    with `CheckpointBehind` the wrapping difference is the difference.
  * `QuoteHoldsLimitCorrect`: one turn of the quote leaves nothing of the amount
    (`SdkStepUp`), so it is the whole quote (`QuoteIsOneTurn`, with the iteration of
    `PoolCoreProofs`); its target lies between the price and the limit.
  * `QuoteIsExactCorrect`: swap and quote are both one step to the limit
    (`ResultTotals`, `QuoteTotals`), and the steps agree function by function.
    Upwards (`UpStepAgrees`) what an amount of u64 pays for never saturates, and an
    output that fits u64 is not the saturated one. Downwards (`DownStepAgrees`) the products fit by
    hypothesis; a target out of the program's reach is one that the SDK
    does not stop at either, given that the quote ends where the product of prices is
    at least one. `RateAlways` supplies that an existing pool has a fee.

Only model-checked:

* liveness (`SwapEnds`): ENABLED is beyond the installed provers.
* `QuoteSurvives` and `CloseMinimumSurvives`. They are about amounts of an instance and not
  true for every value of the constants: where the liquidity comes near its width,
  added liquidity makes a step of the price so fine that the rounding exceeds half a per cent,
  and a claim that is capped at u64 or saturates no longer covers the minimum.
* what the violated runs show: a counterexample is a proof of its own.

## 6. Not modelled

* Of the SDK: prices from ticks and ticks from prices (floating point), the price
  impact that is only displayed, the derivation and decoding of accounts and the
  sending of transactions, which keep no state and decide nothing.
* `TickBitmap::is_set`, `next_/prev_initialized_array_from`, the removing
  variants of `get_next_sqrt_price_*`: they have no caller.
* Several pools, accounts that are not the pool's own (section 2), account derivation and rent, events and messages.
* Floating point in `tick_to_sqrt_price_q64`.
* Scripts (but for the floor of `demo_swap.ts`), migrations, tests, generated
  scaffolding, the vendored crate.
* Crashes, lost or repeated messages: a transaction takes effect whole or not at all, and
  the programs keep nothing else. A client that sends again sends a new transaction,
  which `Next` allows at any time.

Hazards that no property covers are in `PROJECT.json` with the reason: that
`initialize_pool` takes the client's word for the tick, that `openPosition` refuses
unbalanced deposits, that `as u64` cuts large values, and that a listed tick behind the
price turns a quote around.

## 7. What could follow

1. `QuoteSurvives` and `CloseMinimumSurvives` under explicit bounds on liquidity, price
   and amounts, so that they can be proved too.
2. The refinement of a pool with a *correct* reading of tick arrays, to say
   what the crossing loop would promise once the header size is right.
3. `QuoteIsExact` with listed ticks, between the first of them and the price.
