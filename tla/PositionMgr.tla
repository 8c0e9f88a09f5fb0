------------------------------ MODULE PositionMgr -----------------------------
(* programs/position_mgr, and the whole of NarrowSwap with it: positions, the  *)
(* NFT that stands for each, and the transactions a client can send.           *)
(*                                                                             *)
(* position_mgr changes ticks and the pool only by calling tick_manager and    *)
(* pool_core inside its own transaction.  Each of its instructions is one      *)
(* action that composes their guards and effects in call order; a guard that   *)
(* fails anywhere reverts all of it.                                           *)
(*                                                                             *)
(* The other two programs do not ask who calls them.  update_tick and          *)
(* cross_tick want a signer, any signer; modify_liquidity and                  *)
(* transfer_from_vault want none ("We trust the program logic, not a key").    *)
(* So a client may send them without position_mgr, and Next says so.           *)
(*                                                                             *)
(* There is one pool, and every account passed is the pool's own.  The         *)
(* programs check less: no instruction compares position.pool with the pool it *)
(* is given, nor a TickArray's pool with either.                               *)
EXTENDS PoolCore, LiquidityMath

CONSTANTS Nfts,         \* mint addresses: each open_position takes a fresh one
          Nobody,       \* no holder
          MaxUnbacked   \* bound: how many changes have no position behind them

ASSUME NobodyAssumption == Nobody \notin Users

\* Only that many mints have ever been made.
ASSUME NftsAssumption == IsFiniteSet(Nfts)

\* The spacing leaves room between the prices of two usable ticks.
ASSUME SpacingAssumption == TICK_SPACING > 1

\* What is registered together stays in an i128 when every position is as large
\* as its range lets it be.  The programs leave this to the number of positions:
\* with their constants it takes more than 2^22 of the largest ones to exceed it.
ASSUME RoomAssumption ==
    \A t, u \in UsableTicks :
        t < u => Cardinality(Nfts) * LiquidityLimit(SqrtPriceAt[t], SqrtPriceAt[u]) <= I128Max

VARIABLES positions,    \* [Nfts -> Position or NoPosition]
          nft_minted,   \* the mints that have been created
          nft_holder    \* [Nfts -> the user holding the NFT, or Nobody]

VARIABLE unbacked       \* history: how many changes, of each kind, had no position behind

positionVars == <<positions, nft_minted, nft_holder>>
vars == <<tickVars, poolVars, positionVars, unbacked>>

\* Liquidity registered at a tick, active liquidity, and tokens of a vault: what
\* the programs let change without a position that is opened, closed or paid, and
\* without a swap.
Kinds == {"ticks", "liquidity", "tokens"}

ASSUME UnbackedAssumption == MaxUnbacked \in Nat

Unbacked(kind) ==
    /\ unbacked["ticks"] + unbacked["liquidity"] + unbacked["tokens"] < MaxUnbacked
    /\ unbacked' = [unbacked EXCEPT ![kind] = @ + 1]

Position == [owner                 : Users,
             tick_lower            : UsableTicks,
             tick_upper            : UsableTicks,
             liquidity             : U128,
             fee_growth_checkpoint : [Tokens -> U128],
             tokens_owed           : [Tokens -> U64]]

NoPosition == [owner |-> Nobody]

IsOpen(n) == positions[n] # NoPosition
OpenNfts  == {n \in Nfts : IsOpen(n)}

-------------------------------------------------------------------------------
\* `liquidity as i128` keeps the bits.
AsI128(a) == IF a > I128Max THEN a - Q64 * Q64 ELSE a

\* The two update_tick calls of one instruction, the second on the book that
\* the first leaves.
BookAfterLowerStale(tick_lower, delta) == Book   \* Mutant: the first is not seen.
BookAfterLower(tick_lower, delta) == AfterUpdateTick(Book, tick_lower, delta, FALSE)

UpdateTicksOk(tick_lower, tick_upper, delta) ==
    /\ UpdateTickOk(Book, tick_lower, TickWord(tick_lower), delta, FALSE)
    /\ UpdateTickOk(BookAfterLower(tick_lower, delta),
                    tick_upper, TickWord(tick_upper), delta, TRUE)

\* Mutant: both ends are registered as lower ticks.
UpdateTicksBothLower(tick_lower, tick_upper, delta) ==
    LET book == AfterUpdateTick(BookAfterLower(tick_lower, delta), tick_upper, delta, FALSE)
    IN  tick_arrays' = book.arrays /\ tick_bitmaps' = book.bitmaps

UpdateTicks(tick_lower, tick_upper, delta) ==
    LET book == AfterUpdateTick(BookAfterLower(tick_lower, delta), tick_upper, delta, TRUE)
    IN  tick_arrays' = book.arrays /\ tick_bitmaps' = book.bitmaps

\* What a position's liquidity is worth at the pool's price.
PositionAmounts(p, tick_lower, tick_upper, liquidity) ==
    AmountsForLiquidity(p.sqrt_price, SqrtPriceAt[tick_lower], SqrtPriceAt[tick_upper],
                        liquidity)

\* Position::compute_fees_owed: growth since the checkpoint times liquidity,
\* cut to u64.
FeesOwed(pos, p) ==
    [k \in Tokens |->
        (SatMul(WrapSub(p.fee_growth_global[k], pos.fee_growth_checkpoint[k]),
                pos.liquidity) \div Q64) % Q64]

ClaimedFees(pos, p) ==
    [k \in Tokens |-> SatAdd64(FeesOwed(pos, p)[k], pos.tokens_owed[k])]

Claim(pos, p) ==
    LET amounts == PositionAmounts(p, pos.tick_lower, pos.tick_upper, pos.liquidity)
    IN  [k \in Tokens |->
            SatAdd64(SatAdd64(amounts[k], FeesOwed(pos, p)[k]), pos.tokens_owed[k])]

\* Tokens from a user to the accounts given as vaults.  Of those only the mint is
\* checked: the tokens that are not `paid` went to an account of the user's own.
Due(amounts, paid) == [k \in Tokens |-> IF k \in paid THEN amounts[k] ELSE 0]

PayIn(user, amounts, paid) ==
    /\ \A k \in Tokens : amounts[k] <= wallet[user][k]
    /\ wallet' = [wallet EXCEPT ![user] = [k \in Tokens |-> @[k] - Due(amounts, paid)[k]]]
    /\ vault'  = [k \in Tokens |-> vault[k] + Due(amounts, paid)[k]]
    /\ \/ paid = Tokens /\ UNCHANGED unbacked
       \/ paid # Tokens /\ Unbacked("tokens")

\* Tokens from the vaults to a user.
\* Mutant: the vault does not shrink.
PayOutTwice(user, amounts) ==
    /\ \A k \in Tokens : amounts[k] <= vault[k]
    /\ wallet' = [wallet EXCEPT ![user] = [k \in Tokens |-> @[k] + amounts[k]]]
    /\ UNCHANGED vault

PayOut(user, amounts) ==
    /\ \A k \in Tokens : amounts[k] <= vault[k]
    /\ wallet' = [wallet EXCEPT ![user] = [k \in Tokens |-> @[k] + amounts[k]]]
    /\ vault'  = [k \in Tokens |-> vault[k] - amounts[k]]

\* The position account that open_position writes.
NewPositionSwapped(owner, tick_lower, tick_upper, liquidity) ==   \* Mutant
    [owner                 |-> owner,
     tick_lower            |-> tick_upper,
     tick_upper            |-> tick_lower,
     liquidity             |-> liquidity,
     fee_growth_checkpoint |-> pool.fee_growth_global,
     tokens_owed           |-> [k \in Tokens |-> 0]]

NewPosition(owner, tick_lower, tick_upper, liquidity) ==
    [owner                 |-> owner,
     tick_lower            |-> tick_lower,
     tick_upper            |-> tick_upper,
     liquidity             |-> liquidity,
     fee_growth_checkpoint |-> pool.fee_growth_global,
     tokens_owed           |-> [k \in Tokens |-> 0]]

\* The position account that collect_fees leaves.
CheckpointKept(pos)  == [pos EXCEPT !.tokens_owed = [k \in Tokens |-> 0]]   \* Mutant
CheckpointAdded(pos) ==                                                     \* Mutant
    [pos EXCEPT !.fee_growth_checkpoint = [k \in Tokens |-> @[k] + pool.fee_growth_global[k]],
                !.tokens_owed = [k \in Tokens |-> 0]]

Checkpointed(pos) ==
    [pos EXCEPT !.fee_growth_checkpoint = pool.fee_growth_global,
                !.tokens_owed = [k \in Tokens |-> 0]]

\* The SPL token program, outside the repository: an NFT is minted to its first
\* holder and burnt by its last.
MintNft(nft, to) == nft_holder' = [nft_holder EXCEPT ![nft] = to]

BurnForgotten(nft) == UNCHANGED nft_holder   \* Mutant
BurnNft(nft) == nft_holder' = [nft_holder EXCEPT ![nft] = Nobody]

-------------------------------------------------------------------------------
\* open_position: how much liquidity the two amounts are good for, and what it
\* then costs.
OpenLiquidity(tick_lower, tick_upper, desired) ==
    LiquidityForAmounts(pool.sqrt_price, SqrtPriceAt[tick_lower], SqrtPriceAt[tick_upper],
                        desired[0], desired[1])

OpenWith(owner, nft, liquidity, amounts, minimum, tick_lower, tick_upper, paid) ==
    /\ liquidity > 0
    /\ \A k \in Tokens : amounts[k] >= minimum[k]
    /\ UpdateTicksOk(tick_lower, tick_upper, AsI128(liquidity))
    /\ UpdateTicks(tick_lower, tick_upper, AsI128(liquidity))
    /\ PayIn(owner, amounts, paid)
    /\ ModifyLiquidityOk(pool, AsI128(liquidity), tick_lower, tick_upper)
    /\ pool' = PoolAfterModify(pool, AsI128(liquidity), tick_lower, tick_upper)
    /\ nft_minted' = nft_minted \cup {nft}
    /\ MintNft(nft, owner)
    /\ positions' = [positions EXCEPT
                       ![nft] = NewPosition(owner, tick_lower, tick_upper, liquidity)]

\* Mutant: the mint of a closed position will do.
OpenPositionReused(owner, nft, desired, minimum, tick_lower, tick_upper, paid) ==
    /\ tick_lower < tick_upper
    /\ tick_lower \in UsableTicks /\ tick_upper \in UsableTicks
    /\ pool.initialized
    /\ ~IsOpen(nft)
    /\ \E liquidity \in {OpenLiquidity(tick_lower, tick_upper, desired)} :
       \E amounts \in {PositionAmounts(pool, tick_lower, tick_upper, liquidity)} :
          OpenWith(owner, nft, liquidity, amounts, minimum, tick_lower, tick_upper, paid)

OpenPosition(owner, nft, desired, minimum, tick_lower, tick_upper, paid) ==
    /\ tick_lower < tick_upper
    /\ tick_lower \in UsableTicks /\ tick_upper \in UsableTicks
    /\ pool.initialized
    /\ nft \notin nft_minted
    /\ \E liquidity \in {OpenLiquidity(tick_lower, tick_upper, desired)} :
       \E amounts \in {PositionAmounts(pool, tick_lower, tick_upper, liquidity)} :
          OpenWith(owner, nft, liquidity, amounts, minimum, tick_lower, tick_upper, paid)

\* close_position.  The signer must be the recorded owner and hold the NFT; that
\* the pool is the position's is not asked.  The principal, the fees and the NFT
\* are settled together, and the position account goes.
RemoveLiquidity(pos, delta) ==
    /\ delta <= I128Max
    /\ UpdateTicksOk(pos.tick_lower, pos.tick_upper, delta)
    /\ UpdateTicks(pos.tick_lower, pos.tick_upper, delta)
    /\ ModifyLiquidityOk(pool, delta, pos.tick_lower, pos.tick_upper)
    /\ pool' = PoolAfterModify(pool, delta, pos.tick_lower, pos.tick_upper)

ClosePosition(owner, nft, minimum) ==
    /\ IsOpen(nft)
    /\ positions[nft].owner = owner
    /\ nft_holder[nft] = owner
    /\ \E claim \in {Claim(positions[nft], pool)} :
          /\ \A k \in Tokens : claim[k] >= minimum[k]
          /\ PayOut(owner, claim)
    /\ RemoveLiquidity(positions[nft], -AsI128(positions[nft].liquidity))
    /\ BurnNft(nft)
    /\ positions' = [positions EXCEPT ![nft] = NoPosition]
    /\ UNCHANGED <<nft_minted, unbacked>>

\* collect_fees: only the recorded owner is asked for; who holds the NFT is not, nor
\* whether the pool is the position's.
CollectFees(owner, nft) ==
    /\ IsOpen(nft)
    /\ positions[nft].owner = owner
    /\ PayOut(owner, ClaimedFees(positions[nft], pool))
    /\ positions' = [positions EXCEPT ![nft] = Checkpointed(@)]
    /\ UNCHANGED <<tickVars, pool, nft_minted, nft_holder, unbacked>>

\* The SPL token program again: whoever holds an NFT may send it to somebody
\* else, or burn it.  No program of NarrowSwap is told.
TransferNft(from, to, nft) ==
    /\ nft_holder[nft] = from
    /\ from # to
    /\ nft_holder' = [nft_holder EXCEPT ![nft] = to]
    /\ UNCHANGED <<tickVars, poolVars, positions, nft_minted, unbacked>>

BurnByHolder(from, nft) ==
    /\ nft_holder[nft] = from
    /\ BurnNft(nft)
    /\ UNCHANGED <<tickVars, poolVars, positions, nft_minted, unbacked>>

-------------------------------------------------------------------------------
CONSTANTS Deposits, Minimums   \* sets of [Tokens -> U64], the inputs of a run

ASSUME DepositsAssumption ==
    \A d \in Deposits \cup Minimums : DOMAIN d = {0, 1} /\ d[0] \in U64 /\ d[1] \in U64

Init ==
    /\ TickInit
    /\ PoolInit
    /\ positions = [n \in Nfts |-> NoPosition]
    /\ nft_minted = {}
    /\ nft_holder = [n \in Nfts |-> Nobody]
    /\ unbacked = [kind \in Kinds |-> 0]

\* The transactions of a deployed NarrowSwap.
CreateArray == \E start \in ArrayStarts : InitializeTickArray(start)

Open == \E owner \in Users, nft \in Nfts, d \in Deposits, m \in Minimums, r \in Ranges,
           paid \in SUBSET Tokens :
           OpenPosition(owner, nft, d, m, r[1], r[2], paid)

Close == \E owner \in Users, nft \in Nfts, m \in Minimums : ClosePosition(owner, nft, m)

Collect == \E owner \in Users, nft \in Nfts : CollectFees(owner, nft)

HandOver == \E from, to \in Users, nft \in Nfts : TransferNft(from, to, nft)

Burn == \E from \in Users, nft \in Nfts : BurnByHolder(from, nft)

\* Sent to tick_manager and to pool_core directly, by anybody.
CallUpdateTick ==
    /\ \E tick \in UsableTicks, delta \in Deltas, is_upper_tick \in BOOLEAN :
          UpdateTick(tick, TickWord(tick), delta, is_upper_tick)
    /\ Unbacked("ticks")

CallCrossTick ==
    /\ \E start \in DOMAIN tick_arrays, tick \in Ticks, g0, g1 \in FeeGrowths :
          CrossTick(start, tick, g0, g1)
    /\ UNCHANGED unbacked

CallModifyLiquidity ==
    /\ \E delta \in Deltas, r \in Ranges : /\ pool.liquidity + delta <= MaxLiquidity
                                         /\ ModifyLiquidity(delta, r[1], r[2])
    /\ Unbacked("liquidity")

\* transfer_from_vault sent directly, and a plain token transfer to a vault.
MoveTokens ==
    /\ \E user \in Users, token \in Tokens, amount \in SwapAmounts :
          DepositToVault(user, token, amount) \/ TransferFromVault(user, token, amount)
    /\ Unbacked("tokens")

Next ==
    \/ CreatePool /\ UNCHANGED <<tickVars, positionVars, unbacked>>
    \/ CreateArray /\ UNCHANGED <<poolVars, positionVars, unbacked>>
    \/ Open
    \/ Close
    \/ Collect
    \/ HandOver
    \/ Burn
    \/ SwapAny /\ UNCHANGED <<tickVars, positionVars, unbacked>>
    \/ (CallUpdateTick \/ CallCrossTick) /\ UNCHANGED <<poolVars, positionVars>>
    \/ (CallModifyLiquidity \/ MoveTokens) /\ UNCHANGED <<tickVars, positionVars>>

Spec == Init /\ [][Next]_vars

-------------------------------------------------------------------------------
(* Properties *)

\* The tables, and of a position "tick_lower < tick_upper always"
\* (position_mgr/src/state.rs).
PositionTypeOK ==
    /\ positions \in [Nfts -> Position \cup {NoPosition}]
    /\ \A n \in OpenNfts : /\ positions[n].tick_lower < positions[n].tick_upper
                           /\ positions[n].liquidity > 0
    /\ nft_minted \subseteq Nfts
    /\ nft_holder \in [Nfts -> Users \cup {Nobody}]
    /\ unbacked \in [Kinds -> Nat]

\* The tick tables are the sum of the open positions.
LiquidityOf(nfts) == SumFunction([n \in nfts |-> positions[n].liquidity])

TicksSumPositions ==
    \A s \in DOMAIN tick_arrays : \A i \in Slots :
        LET tick   == s + i * TICK_SPACING
            lowers == {n \in OpenNfts : positions[n].tick_lower = tick}
            uppers == {n \in OpenNfts : positions[n].tick_upper = tick}
            t      == tick_arrays[s][i]
        IN  /\ t.liquidity_gross = LiquidityOf(lowers) + LiquidityOf(uppers)
            /\ t.liquidity_net = LiquidityOf(lowers) - LiquidityOf(uppers)

\* As long as nobody else has called update_tick, they are: every opening and
\* closing, in every order and overlap, adds to and takes from two ticks what the
\* position stands for, whatever is swapped, crossed, paid elsewhere, burnt or
\* asked of pool_core directly.  A leak here changes the price curve for everybody.
TickLedger == unbacked["ticks"] = 0 => TicksSumPositions

\* The same said as a refinement: through the arrays, the bitmaps and the two
\* update_tick calls of an instruction, the programs keep LiquidityBook.  A direct
\* update_tick is its write from outside; every opening and closing after one is
\* still entered exactly.
ShareOf(n) == IF ~IsOpen(n) THEN [amount |-> 0]
              ELSE [lower  |-> positions[n].tick_lower,
                    upper  |-> positions[n].tick_upper,
                    amount |-> AsI128(positions[n].liquidity)]

TickAt(t) == IF TickToArrayStart(t) \in DOMAIN tick_arrays THEN Tick(tick_arrays, t)
                                                          ELSE ZeroTick
NetOf(t)   == TickAt(t).liquidity_net
GrossOf(t) == TickAt(t).liquidity_gross

Promised == INSTANCE LiquidityBook WITH
    Receipts <- Nfts,
    Holders  <- Users,
    TickSet  <- UsableTicks,
    sealed   <- unbacked["ticks"] = 0,
    holder   <- nft_holder,
    spent    <- nft_minted,
    share    <- [n \in Nfts |-> ShareOf(n)],
    net      <- [t \in UsableTicks |-> NetOf(t)],
    gross    <- [t \in UsableTicks |-> GrossOf(t)]

RefinesBook == Promised!Spec

\* The bookkeeping of ticks and pool never stands between a position and its
\* closing: no order of openings, closings, swaps, crossings and direct calls of
\* pool_core makes update_tick or modify_liquidity refuse to take a position's
\* liquidity back.  (A direct update_tick can: its checked_sub then lacks what
\* somebody else took.)
TicksNeverBlockExit ==
    unbacked["ticks"] = 0 =>
        \A n \in OpenNfts :
            LET pos   == positions[n]
                delta == -AsI128(pos.liquidity)
            IN  /\ UpdateTicksOk(pos.tick_lower, pos.tick_upper, delta)
                /\ ModifyLiquidityOk(pool, delta, pos.tick_lower, pos.tick_upper)

\* "1:1 relationship - one position = one NFT mint" (position_mgr/src/state.rs): an
\* NFT that can change hands stands for an open position, and the mint of an open
\* position is used up.  (The converse is not the programs' to keep: a holder
\* may burn the NFT, and the position stays.)
OneReceipt ==
    \A n \in Nfts : /\ nft_holder[n] # Nobody => IsOpen(n)
                    /\ IsOpen(n) => n \in nft_minted

\* A mint that was used is never used again.
MintsAreFinal == [][\A n \in nft_minted : ~IsOpen(n) => ~IsOpen(n)']_vars

\* No checkpoint is ahead of its accumulator, so that the wrapping subtraction
\* of compute_fees_owed never wraps.  (With one pool: another pool's accumulators,
\* which the programs would take, have nothing to do with the checkpoint.)
CheckpointBehind ==
    \A n \in OpenNfts, k \in Tokens :
        positions[n].fee_growth_checkpoint[k] <= pool.fee_growth_global[k]

ClaimsOf(nfts, k) == SumFunction([n \in nfts |-> Claim(positions[n], pool)[k]])

\* What a user has of a token: in the wallet, and in the positions recorded as the
\* user's.
Wealth(user, k) ==
    wallet[user][k] + ClaimsOf({n \in OpenNfts : positions[n].owner = user}, k)

\* No open position is owed more than a u64 holds.  close_position cuts a larger
\* claim to u64::MAX, and whoever collects the fees first then gets more.
NoClaimCut ==
    \A n \in OpenNfts, k \in Tokens :
        LET pos == positions[n]
        IN  PositionAmounts(pool, pos.tick_lower, pos.tick_upper, pos.liquidity)[k]
                + FeesOwed(pos, pool)[k] + pos.tokens_owed[k] <= U64Max

\* Only a swap makes anybody richer or poorer.  Opening with deposits that reach
\* the vaults, collecting twice, closing, handing an NFT on, calling update_tick or
\* modify_liquidity directly: none of them gains or loses its user a token, or
\* anybody else, whatever tokens were moved before.
WealthSettled ==
    [][/\ NoClaimCut
       /\ pool.initialized
       /\ pool'.sqrt_price = pool.sqrt_price
       /\ unbacked'["tokens"] = unbacked["tokens"]
       => \A user \in Users, k \in Tokens : Wealth(user, k)' = Wealth(user, k)]_vars

\* "give someone your NFT, they own your liquidity" (position_mgr/src/state.rs).
OwnershipFollowsNft == \A n \in OpenNfts : positions[n].owner = nft_holder[n]

\* "Only positions whose range contains tick_current contribute to this"
\* (pool_core/src/state.rs, of Pool.liquidity), and all of those do: no opening,
\* closing or collecting, in any overlap of ranges, makes it wrong.  (A swap does,
\* for it moves tick_current by a coarse estimate, and so does a direct call of
\* modify_liquidity.)
ActiveLiquidityRight ==
    pool.liquidity =
        LiquidityOf({n \in OpenNfts : /\ positions[n].tick_lower <= pool.tick_current
                                     /\ pool.tick_current < positions[n].tick_upper})

OnlySwapsMiscount ==
    [][/\ ActiveLiquidityRight
       /\ pool'.sqrt_price = pool.sqrt_price
       /\ unbacked'["liquidity"] = unbacked["liquidity"]
       => ActiveLiquidityRight']_vars

\* The vaults hold what the open positions are owed together, so that whoever
\* closes last gets it too: "We burn it and return tokens + fees"
\* (position_mgr/src/state.rs).
ClaimsAreFunded ==
    \A k \in Tokens : ClaimsOf(OpenNfts, k) <= vault[k]

\* The claim of a position "equals exactly the fees they earned while price was
\* in their range" (position_mgr/src/state.rs): a swap that starts above a range
\* and moves up adds nothing to the claim.
EarnsOnlyInRange ==
    \A s \in Swaps(FALSE), n \in OpenNfts :
        LET pos == positions[n]
            r   == SwapResult(pool, s[1], s[3], FALSE, s[2])
        IN  SqrtPriceAt[pos.tick_upper] <= pool.sqrt_price /\ pool.sqrt_price <= r.sqrt_price
              => FeesOwed(pos, PoolAfterSwap(pool, r, FALSE)) = FeesOwed(pos, pool)
===============================================================================
