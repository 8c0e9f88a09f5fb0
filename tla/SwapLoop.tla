------------------------------- MODULE SwapLoop -------------------------------
(* pool_core's swap one turn of its loop at a time, the way the program runs   *)
(* it: the pool is read once, at the start, and written once, at the end, with *)
(* any number of turns in between.  PoolCore has the same swap as one action.  *)
(*                                                                             *)
(* The runtime lets a transaction hold its writable accounts from its first    *)
(* instruction to its last.  pool and both vaults are writable in Swap, and    *)
(* every other operation writes one of them, so none runs while a swap does:   *)
(* that is assumed here (~call.running in Other), and nothing the program      *)
(* does.                                                                       *)
EXTENDS PoolCore

VARIABLE call   \* the swap that is running, with its locals, or NoCall

loopVars == <<tickVars, poolVars, call>>

NoCall == [running |-> FALSE]

NewCall(user, amount, zero_for_one, sqrt_price_limit, amount_out_minimum, accounts) ==
    [running            |-> TRUE,
     user               |-> user,
     amount             |-> amount,
     zero_for_one       |-> zero_for_one,
     sqrt_price_limit   |-> sqrt_price_limit,
     amount_out_minimum |-> amount_out_minimum,
     accounts           |-> accounts,
     locals             |-> SwapStart(pool, amount)]

-------------------------------------------------------------------------------
\* The checks on the input, and the reading of the pool.
BeginSwap(user, amount, zero_for_one, sqrt_price_limit, amount_out_minimum, accounts) ==
    /\ ~call.running
    /\ SwapInputOk(pool, amount, zero_for_one, sqrt_price_limit)
    /\ call' = NewCall(user, amount, zero_for_one, sqrt_price_limit,
                       amount_out_minimum, accounts)
    /\ UNCHANGED <<tickVars, poolVars>>

\* One turn of the loop: a target, the price that the rest of the input reaches
\* on the way there, the step to that price, and what the step changes.  It
\* writes no account.
Turn ==
    /\ call.running
    /\ LoopGoesOn(call.locals)
    /\ \E target \in {TurnTarget(call.locals, call.accounts, call.zero_for_one,
                                 call.sqrt_price_limit)} :
       \E next \in {TurnPrice(call.locals, target, pool.fee_rate)} :
       \E step \in {TurnStep(call.locals, target, next)} :
       \E net \in {LiquidityNetAt(call.accounts, target)} :
          call' = [call EXCEPT !.locals = AfterStep(@, step, target, net, call.zero_for_one,
                                                    call.sqrt_price_limit)]
    /\ UNCHANGED <<tickVars, poolVars>>

LoopDone == call.running /\ ~LoopGoesOn(call.locals)

Succeeds ==
    /\ SwapOutputOk(call.locals, call.amount_out_minimum)
    /\ CanSettle(call.user, call.locals, TokenIn(call.zero_for_one), TokenOut(call.zero_for_one))

\* The checks on the output, the writing of the pool and the two transfers.
Commit ==
    /\ LoopDone
    /\ Succeeds
    /\ pool' = PoolAfterSwap(pool, call.locals, call.zero_for_one)
    /\ Settle(call.user, call.locals, TokenIn(call.zero_for_one), TokenOut(call.zero_for_one))
    /\ call' = NoCall
    /\ UNCHANGED tickVars

\* A check or a transfer fails: nothing has happened.
Revert ==
    /\ LoopDone
    /\ ~Succeeds
    /\ call' = NoCall
    /\ UNCHANGED <<tickVars, poolVars>>

Other == ~call.running /\ (CreatePool \/ ServePosition) /\ UNCHANGED <<tickVars, call>>

BeginAny ==
    /\ \A k \in Tokens : pool.fee_growth_global[k] <= MaxGrowth
    /\ \E user \in Users, amount \in SwapAmounts, zero_for_one \in BOOLEAN, limit \in PriceLimits,
          minimum \in OutMinimums, accounts \in SUBSET DOMAIN tick_arrays :
            BeginSwap(user, amount, zero_for_one, limit, minimum, accounts)

LoopInit == PoolOverBooksInit /\ call = NoCall

LoopNext == BeginAny \/ Turn \/ Commit \/ Revert \/ Other

\* The runtime carries a transaction that it has started to its end.  Clients
\* need not start any.
LoopFairness == WF_loopVars(Turn) /\ WF_loopVars(Commit) /\ WF_loopVars(Revert)

LoopSpec == LoopInit /\ [][LoopNext]_loopVars /\ LoopFairness

-------------------------------------------------------------------------------
(* Properties *)

\* The locals keep their types from turn to turn, whatever ticks and limits the
\* loop is led by.
Calls == [running            : {TRUE},
          user               : Users,
          amount             : U64,
          zero_for_one       : BOOLEAN,
          sqrt_price_limit   : U128,
          amount_out_minimum : U64,
          accounts           : SUBSET ArrayStarts,
          locals             : Locals]

LoopTypeOK == PoolTypeOK /\ (call = NoCall \/ call \in Calls)

\* The loop of swap ends whatever ticks it meets: `while amount_remaining > 0 &&
\* crossings < MAX_TICK_CROSSINGS` (pool_core/src/lib.rs), with its two breaks,
\* neither spins on a step that moves nothing nor runs out of turns undecided.
SwapEnds == call.running ~> ~call.running

\* "If price hits the tick boundary first: cross the tick [...], advance to the next
\* tick, repeat" (README.md), "The loop repeats for (b)"
\* (pool_core/src/swap_math.rs): a swap that is at a tick, short of its limit and of
\* the crossings it may make, with input left for more than the fee, takes another
\* turn.
ShortOfLimit == IF call.zero_for_one THEN call.locals.sqrt_price > call.sqrt_price_limit
                                     ELSE call.locals.sqrt_price < call.sqrt_price_limit

SwapGoesOn ==
    /\ call.running
    /\ ~call.locals.failed
    /\ call.locals.crossings \in 1 .. MAX_TICK_CROSSINGS - 1
    /\ ShortOfLimit
    /\ call.locals.total_amount_in + ComputeFee(call.amount, pool.fee_rate) + 1 < call.amount
    => LoopGoesOn(call.locals)

\* A swap that pays token 1 in and finds no tick on its way takes the amount it
\* was given and no more, keeps at least the fee rate of it back, never moves the
\* price against its direction and stops at the client's limit.
UpwardExactInput ==
    LET r == call.locals
    IN  /\ LoopDone
        /\ ~call.zero_for_one
        /\ NextTicks(call.accounts, pool.tick_current, FALSE) = {}
        /\ SwapOutputOk(r, 0)
        => /\ r.total_amount_in + r.total_fee = call.amount
           /\ r.total_fee >= ComputeFee(call.amount, pool.fee_rate)
           /\ pool.sqrt_price <= r.sqrt_price /\ r.sqrt_price <= call.sqrt_price_limit
===============================================================================
