----------------------------- MODULE SwapLoopProofs ---------------------------
(* The swap in small steps, for any widths, prices, tick tables, users and     *)
(* inputs: what the loop computes, and why it takes one turn only.             *)
EXTENDS SwapLoop, PoolCoreProofs

\* The turn a call has before it.
FirstTurn(c) == SwapTurn(SwapStart(pool, c.amount), c.accounts, c.zero_for_one,
                         c.sqrt_price_limit, pool.fee_rate)

\* A call that runs was let in by the checks on a pool that nobody has touched
\* since, and is before its turn or after it.
CallOK(c) ==
    /\ c \in Calls
    /\ c.amount \in SwapAmounts
    /\ c.sqrt_price_limit \in PriceLimits
    /\ c.amount_out_minimum \in OutMinimums
    /\ c.accounts \in SUBSET DOMAIN tick_arrays
    /\ SwapInputOk(pool, c.amount, c.zero_for_one, c.sqrt_price_limit)
    /\ \A k \in Tokens : pool.fee_growth_global[k] <= MaxGrowth
    /\ \/ c.locals = SwapStart(pool, c.amount)
       \/ c.locals = FirstTurn(c) /\ c.locals.amount_remaining = 0

LoopInv ==
    /\ PoolInv
    /\ call = NoCall \/ CallOK(call)

\* A call that is typed runs.
LEMMA CallRuns ==
    ASSUME NEW c \in Calls
    PROVE  c.running
BY DEF Calls

LEMMA NoCallIdle == ~NoCall.running
BY DEF NoCall

\* The first turn is the result.
LEMMA FirstTurnIsResult ==
    ASSUME PoolInv, NEW c, CallOK(c)
    PROVE  /\ SwapStart(pool, c.amount) \in Locals
           /\ SwapInputs(c.accounts, c.zero_for_one, c.sqrt_price_limit, pool.fee_rate)
           /\ LoopGoesOn(SwapStart(pool, c.amount))
           /\ FirstTurn(c) = SwapResult(pool, c.amount, c.accounts, c.zero_for_one,
                                        c.sqrt_price_limit)
           /\ FirstTurn(c) \in Locals
           /\ FirstTurn(c).amount_remaining = 0
<1>1. /\ c.zero_for_one \in BOOLEAN /\ c.amount \in SwapAmounts
      /\ c.sqrt_price_limit \in PriceLimits /\ c.accounts \in SUBSET DOMAIN tick_arrays
      /\ pool \in Pool /\ TablesOK
  BY DEF CallOK, Calls, PoolInv, PoolTypeOK
<1>2. /\ SwapStart(pool, c.amount) \in Locals
      /\ SwapInputs(c.accounts, c.zero_for_one, c.sqrt_price_limit, pool.fee_rate)
      /\ FirstTurn(c) = SwapResult(pool, c.amount, c.accounts, c.zero_for_one,
                                   c.sqrt_price_limit)
      /\ FirstTurn(c) \in Locals
  BY <1>1, ResultType DEF FirstTurn
<1>3. LoopGoesOn(SwapStart(pool, c.amount))
  BY PoolAssumption DEF CallOK, SwapInputOk, LoopGoesOn, SwapStart
<1>4. FirstTurn(c).amount_remaining = 0
  BY <1>2, <1>3, SwapTurnType DEF FirstTurn
<1> QED
  BY <1>2, <1>3, <1>4

\* A call on accounts that stay as they are.
LEMMA CallStays ==
    ASSUME NEW c, CallOK(c), UNCHANGED <<tickVars, poolVars>>, call' = c
    PROVE  CallOK(call)'
<1>1. pool' = pool /\ tick_arrays' = tick_arrays
  BY DEF tickVars, poolVars
<1>2. FirstTurn(call)' = FirstTurn(c)
  BY <1>1 DEF FirstTurn, SwapTurn, TurnTowards, TurnTarget, TurnPrice, TurnStep,
              NextTicks, SeenBelow, SeenAbove, LiquidityNetAt
<1> QED
  BY <1>1, <1>2 DEF CallOK

LEMMA BeginKeeps ==
    ASSUME LoopInv, BeginAny
    PROVE  LoopInv' /\ UNCHANGED <<tickVars, poolVars>>
<1>1. PICK user \in Users, amount \in SwapAmounts, zero_for_one \in BOOLEAN,
           limit \in PriceLimits, minimum \in OutMinimums,
           accounts \in SUBSET DOMAIN tick_arrays :
             BeginSwap(user, amount, zero_for_one, limit, minimum, accounts)
  BY DEF BeginAny
<1> DEFINE c == NewCall(user, amount, zero_for_one, limit, minimum, accounts)
<1>2. /\ call' = c
      /\ UNCHANGED <<tickVars, poolVars>>
      /\ SwapInputOk(pool, amount, zero_for_one, limit)
  BY <1>1 DEF BeginSwap
<1>3. /\ c.amount = amount /\ c.zero_for_one = zero_for_one /\ c.sqrt_price_limit = limit
      /\ c.amount_out_minimum = minimum /\ c.accounts = accounts
      /\ c.locals = SwapStart(pool, amount)
  BY DEF NewCall
<1>4. c \in Calls
  <2>1. /\ amount \in U64 /\ limit \in U128 /\ minimum \in U64
    BY PoolInputAssumption
  <2>2. accounts \in SUBSET ArrayStarts
    BY DEF LoopInv, PoolInv, TablesOK, BookTypeOK, Book
  <2>3. SwapStart(pool, amount) \in Locals
    BY <2>1, StartType DEF LoopInv, PoolInv, PoolTypeOK
  <2> QED
    BY <2>1, <2>2, <2>3 DEF NewCall, Calls
<1> HIDE DEF c
<1>5. CallOK(c)
  BY <1>2, <1>3, <1>4 DEF CallOK, BeginAny
<1>6. CallOK(call)'
  BY <1>2, <1>5, CallStays
<1>7. PoolInv'
  BY <1>2, TablesStay DEF LoopInv, PoolInv, PoolTypeOK, RateOK, poolVars
<1> QED
  BY <1>2, <1>6, <1>7 DEF LoopInv

LEMMA TurnKeeps ==
    ASSUME LoopInv, Turn
    PROVE  LoopInv' /\ UNCHANGED <<tickVars, poolVars>>
<1>1. CallOK(call)
  BY NoCallIdle DEF LoopInv, Turn
<1>2. /\ SwapStart(pool, call.amount) \in Locals
      /\ LoopGoesOn(SwapStart(pool, call.amount))
      /\ FirstTurn(call) \in Locals
      /\ FirstTurn(call).amount_remaining = 0
  BY <1>1, FirstTurnIsResult DEF LoopInv
<1>3. call.locals = SwapStart(pool, call.amount)
  BY <1>1 DEF CallOK, Turn, LoopGoesOn
<1> DEFINE c == [call EXCEPT !.locals = FirstTurn(call)]
<1>4. call' = c /\ UNCHANGED <<tickVars, poolVars>>
  BY <1>2, <1>3 DEF Turn, FirstTurn, SwapTurn, TurnTowards
<1>5. CallOK(c)
  <2> DEFINE first == FirstTurn(call)
  <2>1. call \in Calls /\ first \in Locals /\ first.amount_remaining = 0
    BY <1>1, <1>2 DEF CallOK
  <2> HIDE DEF first
  <2> DEFINE d == [call EXCEPT !.locals = first]
  <2>2. /\ d \in Calls /\ d.amount = call.amount /\ d.zero_for_one = call.zero_for_one
        /\ d.sqrt_price_limit = call.sqrt_price_limit /\ d.accounts = call.accounts
        /\ d.amount_out_minimum = call.amount_out_minimum /\ d.locals = first
    BY <2>1 DEF Calls
  <2> HIDE DEF d
  <2>3. first = FirstTurn(d)
    BY <2>2 DEF first, FirstTurn
  <2>4. CallOK(d)
    BY <1>1, <2>1, <2>2, <2>3 DEF CallOK
  <2> QED
    BY <2>4 DEF d, first
<1> HIDE DEF c
<1>6. CallOK(call)'
  BY <1>4, <1>5, CallStays
<1>7. PoolInv'
  BY <1>4, TablesStay DEF LoopInv, PoolInv, PoolTypeOK, RateOK, poolVars
<1> QED
  BY <1>4, <1>6, <1>7 DEF LoopInv

\* What a finished loop holds is the result of the atomic swap.
LEMMA DoneIsResult ==
    ASSUME LoopInv, LoopDone
    PROVE  /\ CallOK(call)
           /\ call.locals \in Locals
           /\ call.locals = SwapResult(pool, call.amount, call.accounts, call.zero_for_one,
                                       call.sqrt_price_limit)
           /\ call.locals = FirstTurn(call)
<1>1. CallOK(call)
  BY NoCallIdle DEF LoopInv, LoopDone
<1>2. /\ LoopGoesOn(SwapStart(pool, call.amount))
      /\ FirstTurn(call) = SwapResult(pool, call.amount, call.accounts, call.zero_for_one,
                                      call.sqrt_price_limit)
      /\ FirstTurn(call) \in Locals
  BY <1>1, FirstTurnIsResult DEF LoopInv
<1> QED
  BY <1>1, <1>2 DEF CallOK, LoopDone

LEMMA CommitSwaps ==
    ASSUME LoopInv, Commit
    PROVE  PoolNext /\ LoopInv'
<1>1. /\ CallOK(call)
      /\ call.locals = SwapResult(pool, call.amount, call.accounts, call.zero_for_one,
                                  call.sqrt_price_limit)
  BY DoneIsResult DEF Commit
<1>2. /\ call.user \in Users /\ call.amount \in SwapAmounts
      /\ call.zero_for_one \in BOOLEAN /\ call.sqrt_price_limit \in PriceLimits
      /\ call.amount_out_minimum \in OutMinimums
      /\ call.accounts \in SUBSET DOMAIN tick_arrays
      /\ SwapInputOk(pool, call.amount, call.zero_for_one, call.sqrt_price_limit)
      /\ \A k \in Tokens : pool.fee_growth_global[k] <= MaxGrowth
  BY <1>1 DEF CallOK, Calls
<1>3. Swap(call.user, call.amount, call.zero_for_one, call.sqrt_price_limit,
           call.amount_out_minimum, call.accounts)
  BY <1>1, <1>2 DEF Swap, Commit, Succeeds
<1>4. SwapAny
  BY <1>2, <1>3 DEF SwapAny
<1>5. PoolNext
  BY <1>4 DEF PoolNext, Commit
<1>6. PoolInv'
  BY <1>5, PoolStep DEF LoopInv
<1> QED
  BY <1>5, <1>6 DEF LoopInv, Commit

LEMMA RevertKeeps ==
    ASSUME LoopInv, Revert
    PROVE  LoopInv' /\ UNCHANGED <<tickVars, poolVars>>
<1>1. call' = NoCall /\ UNCHANGED <<tickVars, poolVars>>
  BY DEF Revert
<1>2. PoolInv'
  BY <1>1, TablesStay DEF LoopInv, PoolInv, PoolTypeOK, RateOK, poolVars
<1> QED
  BY <1>1, <1>2 DEF LoopInv

LEMMA OtherKeeps ==
    ASSUME LoopInv, Other
    PROVE  PoolNext /\ LoopInv'
<1>1. PoolNext
  BY DEF Other, PoolNext
<1>2. call = NoCall /\ call' = call
  BY CallRuns DEF LoopInv, CallOK, Other
<1>3. PoolInv'
  BY <1>1, PoolStep DEF LoopInv
<1> QED
  BY <1>1, <1>2, <1>3 DEF LoopInv

\* Every small step is a step of PoolCore, or changes nothing that PoolCore has.
LEMMA LoopStep ==
    ASSUME LoopInv, [LoopNext]_loopVars
    PROVE  LoopInv' /\ [PoolNext]_<<tickVars, poolVars>>
<1>1. CASE BeginAny
  BY <1>1, BeginKeeps
<1>2. CASE Turn
  BY <1>2, TurnKeeps
<1>3. CASE Commit
  BY <1>3, CommitSwaps
<1>4. CASE Revert
  BY <1>4, RevertKeeps
<1>5. CASE Other
  BY <1>5, OtherKeeps
<1>6. CASE UNCHANGED loopVars
  <2>1. UNCHANGED <<tickVars, poolVars>> /\ call' = call
    BY <1>6 DEF loopVars
  <2>2. PoolInv'
    BY <2>1, TablesStay DEF LoopInv, PoolInv, PoolTypeOK, RateOK, poolVars
  <2>3. call # NoCall => CallOK(call)'
    BY <2>1, CallStays DEF LoopInv
  <2> QED
    BY <2>1, <2>2, <2>3 DEF LoopInv
<1> QED
  BY <1>1, <1>2, <1>3, <1>4, <1>5, <1>6 DEF LoopNext

LEMMA LoopStarts ==
    ASSUME LoopInit
    PROVE  LoopInv
<1>1. PICK b \in InitialBooks : tick_arrays = b.arrays /\ tick_bitmaps = b.bitmaps
  BY DEF LoopInit, PoolOverBooksInit
<1>2. BookTypeOK(b) /\ SeesTicks(b)
  BY BooksAssumption
<1>3. TablesOK
  BY <1>1, <1>2 DEF TablesOK, BookTypeOK, SeesTicks, Book
<1> QED
  BY <1>3, PoolStartsOK DEF LoopInit, PoolOverBooksInit, PoolInv, LoopInv

LEMMA LoopInvAlways == LoopSpec => []LoopInv
<1>1. LoopInv /\ [LoopNext]_loopVars => LoopInv'
  BY LoopStep
<1> QED
  BY <1>1, LoopStarts, PTL DEF LoopSpec

\* The accounts and the locals of a running swap keep their types.
THEOREM LoopTypeCorrect == LoopSpec => []LoopTypeOK
<1>1. LoopInv => LoopTypeOK
  BY DEF LoopInv, PoolInv, CallOK, LoopTypeOK
<1> QED
  BY <1>1, LoopInvAlways, PTL

OneTurn == call.running => \/ call.locals = SwapStart(pool, call.amount)
                           \/ ~LoopGoesOn(call.locals)

\* The step books all of the unspent input as its fee, so that a swap runs its loop
\* body once, whatever the amount, the ticks and the limit: SwapGoesOn fails
\* wherever its hypotheses hold.
THEOREM OneTurnCorrect == LoopSpec => []OneTurn
<1>1. LoopInv => OneTurn
  BY NoCallIdle DEF LoopInv, CallOK, OneTurn, LoopGoesOn
<1> QED
  BY <1>1, LoopInvAlways, PTL

\* A swap in small steps, with other transactions between them, does nothing to the
\* tables that a swap in one step does not do: PoolCore's theorems carry over.
LEMMA LoopIsPool == LoopSpec => PoolSpec
<1>1. LoopInit => PoolOverBooksInit
  BY DEF LoopInit
<1>2. LoopInv /\ [LoopNext]_loopVars => [PoolNext]_<<tickVars, poolVars>>
  BY LoopStep
<1> QED
  BY <1>1, <1>2, LoopInvAlways, PTL DEF LoopSpec, PoolSpec

\* Accumulators do not fall while swaps run in small steps.
THEOREM LoopGrowthCorrect == LoopSpec => GrowthNeverFalls
  BY LoopIsPool, GrowthNeverFallsCorrect, PTL

\* Without a tick on the way, a swap upwards takes exactly what it was given,
\* keeps at least the fee rate of it, and stops at the limit: for every width,
\* liquidity, price and amount.
THEOREM UpwardExactInputCorrect == LoopSpec => []UpwardExactInput
<1>1. LoopInv => UpwardExactInput
  <2> SUFFICES ASSUME LoopInv, LoopDone, ~call.zero_for_one,
                      NextTicks(call.accounts, pool.tick_current, FALSE) = {}
               PROVE  /\ call.locals.total_amount_in + call.locals.total_fee = call.amount
                      /\ call.locals.total_fee >= ComputeFee(call.amount, pool.fee_rate)
                      /\ pool.sqrt_price <= call.locals.sqrt_price
                      /\ call.locals.sqrt_price <= call.sqrt_price_limit
    BY DEF UpwardExactInput
  <2> DEFINE limit  == call.sqrt_price_limit
             amount == call.amount
             start  == SwapStart(pool, amount)
             step   == ComputeSwapStep(pool.sqrt_price, limit, pool.liquidity, amount,
                                       pool.fee_rate)
             net    == AmountLessFee(amount, pool.fee_rate)
             fee    == ComputeFee(amount, pool.fee_rate)
  <2>1. /\ CallOK(call)
        /\ call.locals = FirstTurn(call)
        /\ start \in Locals
        /\ LoopGoesOn(start)
        /\ SwapInputs(call.accounts, call.zero_for_one, limit, pool.fee_rate)
    BY DoneIsResult, FirstTurnIsResult DEF LoopInv
  <2>2. call.zero_for_one = FALSE
    BY <2>1 DEF CallOK, Calls
  <2>3. /\ pool.sqrt_price \in U128 /\ limit \in U128 /\ pool.sqrt_price < limit
        /\ pool.liquidity \in U128 \ {0} /\ amount \in U64
        /\ pool.fee_rate \in 0 .. FEE_DENOMINATOR - 1 /\ pool.fee_rate > 0
    <3>1. pool \in Pool /\ RateOK
      BY DEF LoopInv, PoolInv, PoolTypeOK
    <3>2. SwapInputOk(pool, amount, FALSE, limit) /\ limit \in U128 /\ amount \in U64
      BY <2>1, <2>2 DEF CallOK, Calls
    <3>3. pool.sqrt_price \in Nat /\ limit \in Nat
      BY <3>1, <3>2, U128IsNat DEF Pool
    <3> QED
      BY <3>1, <3>2, <3>3 DEF SwapInputOk, Pool, RateOK
  <2>4. pool.fee_rate \in Nat \ {0}
    BY <2>3, FeeAssumption
  <2>5. TurnTarget(start, call.accounts, FALSE, limit) = limit
    BY DEF TurnTarget, SqrtPriceTarget, SwapStart
  <2>6. TurnStep(start, limit, TurnPrice(start, limit, pool.fee_rate)) = step
    BY DEF TurnStep, TurnPrice, ComputeSwapStep, SwapStart
  <2>7. call.locals = AfterStep(start, step, limit, LiquidityNetAt(call.accounts, limit),
                                FALSE, limit)
    BY <2>1, <2>2, <2>5, <2>6 DEF FirstTurn, SwapTurn, TurnTowards
  <2>8. /\ call.locals.sqrt_price = step.sqrt_price_next
        /\ call.locals.total_amount_in = SatAdd(0, step.amount_in)
        /\ call.locals.total_fee = SatAdd(0, step.fee_amount)
    <3> HIDE DEF step, limit
    <3> QED
      BY <2>7 DEF AfterStep, SwapStart
  <2>9. /\ pool.sqrt_price <= step.sqrt_price_next /\ step.sqrt_price_next <= limit
        /\ step.amount_in <= net
    BY <2>3, <2>4, UpwardStep
  <2>10. step \in SwapStep
    BY <2>3, <2>4, ComputeSwapStepType, WidthsPositive
  <2>11. step.fee_amount = SatSub(amount, step.amount_in)
    BY DEF ComputeSwapStep, StepTo, StepResult
  <2>12. fee \in Nat /\ fee <= amount /\ net = amount - fee
    BY <2>3, FeeWithinAmount
  <2>13. amount \in Nat /\ amount <= U128Max /\ U128Max \in Nat
    BY <2>3, WidthsPositive, U128IsNat
  <2>14. step.amount_in \in Nat /\ step.fee_amount \in Nat
    BY <2>10, U128IsNat DEF SwapStep
  <2> HIDE DEF step, net, fee, amount, limit
  <2>15. step.amount_in <= amount /\ step.fee_amount = amount - step.amount_in
    BY <2>9, <2>11, <2>12, <2>13, <2>14 DEF SatSub
  <2>16. SatAdd(0, step.amount_in) = step.amount_in /\ SatAdd(0, step.fee_amount) = step.fee_amount
    BY <2>13, <2>14, <2>15 DEF SatAdd
  <2>17. /\ step.amount_in + step.fee_amount = amount
         /\ step.fee_amount >= fee
    BY <2>9, <2>12, <2>13, <2>14, <2>15
  <2> QED
    BY <2>8, <2>9, <2>16, <2>17 DEF amount, limit, fee
<1> QED
  BY <1>1, LoopInvAlways, PTL
===============================================================================
