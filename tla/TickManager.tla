----------------------------- MODULE TickManager ------------------------------
(* programs/tick_manager: the index of initialised ticks of one pool.          *)
(*                                                                             *)
(* State: the TickArray accounts that exist, each a table of TickData by slot, *)
(* and the TickBitmap accounts, one per word.  A Solana transaction is atomic: *)
(* an instruction either passes every check and writes, or changes nothing, so *)
(* an instruction is one action whose guard is the conjunction of its checks.  *)
(*                                                                             *)
(* update_tick is written as a guard and an effect on the pair of tables (a    *)
(* "book"), because position_mgr runs it twice inside one transaction, the     *)
(* second time on what the first has written.                                  *)
EXTENDS TickMath, FiniteSets

VARIABLES tick_arrays,   \* [start tick of an existing array -> [Slots -> TickData]]
          tick_bitmaps   \* [Words -> TickBitmap]

tickVars == <<tick_arrays, tick_bitmaps>>

-------------------------------------------------------------------------------
TickData == [liquidity_net        : I128,
             liquidity_gross      : U128,
             fee_growth_outside_0 : U128,
             fee_growth_outside_1 : U128,
             initialized          : BOOLEAN]

\* An account is created zeroed.
ZeroTick == [liquidity_net        |-> 0,
             liquidity_gross      |-> 0,
             fee_growth_outside_0 |-> 0,
             fee_growth_outside_1 |-> 0,
             initialized          |-> FALSE]

\* The bitmap byte is the set of its one bits.  claimed: the account's pool
\* field is no longer Pubkey::default(); an account never claimed is as good as
\* absent (init_if_needed).
TickBitmap == [claimed            : BOOLEAN,
               word_index         : Words \cup {0},
               initialized_arrays : SUBSET (0 .. ARRAYS_PER_BITMAP_WORD - 1)]

ZeroBitmap == [claimed |-> FALSE, word_index |-> 0, initialized_arrays |-> {}]

Tick(arrays, tick) ==
    LET start == TickToArrayStart(tick) IN arrays[start][SlotOf(start, tick)]

TickInit == /\ tick_arrays = [s \in {} |-> [i \in Slots |-> ZeroTick]]
            /\ tick_bitmaps = [w \in Words |-> ZeroBitmap]

-------------------------------------------------------------------------------
\* Mutant: an array may start anywhere.
InitializeTickArrayAnywhere(start) ==
    /\ ValidTick(start)
    /\ start \notin DOMAIN tick_arrays
    /\ tick_arrays' = [s \in DOMAIN tick_arrays \cup {start} |->
                          IF s = start THEN [i \in Slots |-> ZeroTick]
                                       ELSE tick_arrays[s]]
    /\ UNCHANGED tick_bitmaps

InitializeTickArray(start) ==
    /\ TruncRem(start, ArraySize) = 0
    /\ ValidTick(start)
    /\ start \notin DOMAIN tick_arrays
    /\ tick_arrays' = [s \in DOMAIN tick_arrays \cup {start} |->
                          IF s = start THEN [i \in Slots |-> ZeroTick]
                                       ELSE tick_arrays[s]]
    /\ UNCHANGED tick_bitmaps

-------------------------------------------------------------------------------
(* update_tick.  The client passes the array that owns the tick (the PDA of    *)
(* its start) and the word index it computed for the bitmap PDA.               *)

\* Mutant: an addition overwrites what is there.
GrossOverwritten(gross, delta) == IF delta > 0 THEN delta ELSE gross - (-delta)

GrossAfter(gross, delta) == IF delta > 0 THEN gross + delta ELSE gross - (-delta)
NetAfter(net, delta, is_upper_tick) == IF is_upper_tick THEN net - delta ELSE net + delta

\* Mutants: a tick stays live for ever; an update clears the snapshots always.
UpdatedTickNeverDies(old, delta, is_upper_tick) ==
    [old EXCEPT !.liquidity_net   = NetAfter(@, delta, is_upper_tick),
                !.liquidity_gross = GrossAfter(@, delta),
                !.initialized     = @ \/ GrossAfter(old.liquidity_gross, delta) > 0]

UpdatedTickAlwaysCleared(old, delta, is_upper_tick) ==
    [liquidity_net        |-> NetAfter(old.liquidity_net, delta, is_upper_tick),
     liquidity_gross      |-> GrossAfter(old.liquidity_gross, delta),
     fee_growth_outside_0 |-> 0,
     fee_growth_outside_1 |-> 0,
     initialized          |-> GrossAfter(old.liquidity_gross, delta) > 0]

\* The tick's slot after the update.  The snapshots are cleared when the tick
\* goes live and when it goes dead; liquidity_net is not.
UpdatedTick(old, delta, is_upper_tick) ==
    LET gross     == GrossAfter(old.liquidity_gross, delta)
        goes_live == ~old.initialized /\ gross > 0
        reset     == goes_live \/ gross = 0
    IN  [liquidity_net        |-> NetAfter(old.liquidity_net, delta, is_upper_tick),
         liquidity_gross      |-> gross,
         fee_growth_outside_0 |-> IF reset THEN 0 ELSE old.fee_growth_outside_0,
         fee_growth_outside_1 |-> IF reset THEN 0 ELSE old.fee_growth_outside_1,
         initialized          |-> IF reset THEN goes_live ELSE old.initialized]

Flips(old, delta) == ~(old.initialized <=> GrossAfter(old.liquidity_gross, delta) > 0)

\* The checks: the tick is in range and aligned, it has a slot, gross and net
\* stay in their types, negating the delta does not overflow, and when the tick
\* goes live or dead the bitmap account is that of the tick's word.  That array and
\* bitmap are the pool's own is the caller's word: the array's seeds and pool are not
\* compared with anything, the bitmap's seeds with the pool that the caller names.
UpdateTickOk(book, tick, word, delta, is_upper_tick) ==
    /\ ValidTick(tick)
    /\ ValidTickSpacing(tick)
    /\ TickToArrayStart(tick) \in DOMAIN book.arrays
    /\ LET old == Tick(book.arrays, tick) IN
       /\ -delta <= I128Max
       /\ GrossAfter(old.liquidity_gross, delta) \in U128
       /\ NetAfter(old.liquidity_net, delta, is_upper_tick) \in I128
       /\ Flips(old, delta) =>
            /\ word = TickWord(tick)
            /\ book.bitmaps[word].claimed => book.bitmaps[word].word_index = word

UpdatedArrays(arrays, tick, delta, is_upper_tick) ==
    LET start == TickToArrayStart(tick) IN
    [arrays EXCEPT ![start][SlotOf(start, tick)] =
        UpdatedTick(Tick(arrays, tick), delta, is_upper_tick)]

\* Mutant: the bit of a dead array is left on.
UpdatedBitmapsNeverCleared(book, tick, delta) ==
    IF Flips(Tick(book.arrays, tick), delta)
      THEN [book.bitmaps EXCEPT ![TickWord(tick)] =
              [claimed            |-> TRUE,
               word_index         |-> TickWord(tick),
               initialized_arrays |-> @.initialized_arrays \cup {TickBit(tick)}]]
      ELSE book.bitmaps

\* Only a tick that goes live or dead touches the bitmap: set_bit or clear_bit
\* of its array, whatever the other ticks of the array are.
UpdatedBitmaps(book, tick, delta) ==
    LET old  == Tick(book.arrays, tick)
        word == TickWord(tick)
        bits == book.bitmaps[word].initialized_arrays
    IN  IF ~Flips(old, delta) THEN book.bitmaps
        ELSE [book.bitmaps EXCEPT ![word] =
               [claimed            |-> TRUE,
                word_index         |-> word,
                initialized_arrays |-> IF old.initialized
                                         THEN bits \ {TickBit(tick)}
                                         ELSE bits \cup {TickBit(tick)}]]

AfterUpdateTick(book, tick, delta, is_upper_tick) ==
    [arrays  |-> UpdatedArrays(book.arrays, tick, delta, is_upper_tick),
     bitmaps |-> UpdatedBitmaps(book, tick, delta)]

Book == [arrays |-> tick_arrays, bitmaps |-> tick_bitmaps]

UpdateTick(tick, word, delta, is_upper_tick) ==
    /\ UpdateTickOk(Book, tick, word, delta, is_upper_tick)
    /\ tick_arrays'  = UpdatedArrays(tick_arrays, tick, delta, is_upper_tick)
    /\ tick_bitmaps' = UpdatedBitmaps(Book, tick, delta)

-------------------------------------------------------------------------------
(* cross_tick: the snapshots become "global minus snapshot", modulo 2^128.     *)
(* Neither range nor alignment of the tick is checked; it needs an array with  *)
(* a slot for it, initialised.                                                 *)
CrossedTick(old, fee_growth_global_0, fee_growth_global_1) ==
    [old EXCEPT !.fee_growth_outside_0 = WrapSub(fee_growth_global_0, @),
                !.fee_growth_outside_1 = WrapSub(fee_growth_global_1, @)]

\* Mutant: a dead tick may be crossed.
CrossDeadTick(start, tick, fee_growth_global_0, fee_growth_global_1) ==
    /\ start \in DOMAIN tick_arrays
    /\ HasTick(start, tick)
    /\ tick_arrays' =
         [tick_arrays EXCEPT ![start][SlotOf(start, tick)] =
            CrossedTick(@, fee_growth_global_0, fee_growth_global_1)]
    /\ UNCHANGED tick_bitmaps

CrossTick(start, tick, fee_growth_global_0, fee_growth_global_1) ==
    /\ start \in DOMAIN tick_arrays
    /\ HasTick(start, tick)
    /\ tick_arrays[start][SlotOf(start, tick)].initialized
    /\ tick_arrays' =
         [tick_arrays EXCEPT ![start][SlotOf(start, tick)] =
            CrossedTick(@, fee_growth_global_0, fee_growth_global_1)]
    /\ UNCHANGED tick_bitmaps

-------------------------------------------------------------------------------
(* get_next_initialized_tick: steps of TICK_SPACING from current_tick, looking *)
(* only at slots of the one array.  The answer is a set of at most one tick;   *)
(* the empty set is the TickNotInitialized error.                              *)
\* Mutant: the tick the search starts from counts.
NextInitializedTickFromHere(start, current_tick, zero_for_one) ==
    LET ahead == {t \in start .. start + ArraySize - 1 :
                    /\ (t - current_tick) % TICK_SPACING = 0
                    /\ tick_arrays[start][SlotOf(start, t)].initialized
                    /\ IF zero_for_one THEN t <= current_tick ELSE t >= current_tick}
    IN  {t \in ahead : \A u \in ahead : IF zero_for_one THEN u <= t ELSE t <= u}

NextInitializedTick(start, current_tick, zero_for_one) ==
    LET step     == IF zero_for_one THEN -TICK_SPACING ELSE TICK_SPACING
        reach    == (MAX_TICK - MIN_TICK) \div TICK_SPACING + TICKS_PER_ARRAY
        live(t)  == HasTick(start, t) /\ tick_arrays[start][SlotOf(start, t)].initialized
        hits     == {k \in 1 .. reach : live(current_tick + k * step)}
    IN  {current_tick + k * step : k \in {h \in hits : \A g \in hits : h <= g}}

-------------------------------------------------------------------------------
CONSTANTS Deltas, FeeGrowths   \* the inputs a run enumerates
ASSUME DeltasAssumption == Deltas \subseteq I128
ASSUME FeeGrowthsAssumption == FeeGrowths \subseteq U128

TickNext ==
    \/ \E start \in Ticks : InitializeTickArray(start)
    \/ \E tick \in Ticks, word \in Words, delta \in Deltas, is_upper_tick \in BOOLEAN :
          UpdateTick(tick, word, delta, is_upper_tick)
    \/ \E start \in DOMAIN tick_arrays, tick \in Ticks, g0, g1 \in FeeGrowths :
          CrossTick(start, tick, g0, g1)

TickSpec == TickInit /\ [][TickNext]_tickVars

-------------------------------------------------------------------------------
(* Properties *)

\* Every array has a legal start and holds one TickData per slot.
BookTypeOK(book) ==
    /\ DOMAIN book.arrays \subseteq ArrayStarts
    /\ book.arrays \in [DOMAIN book.arrays -> [Slots -> TickData]]
    /\ book.bitmaps \in [Words -> TickBitmap]

TickTypeOK == BookTypeOK(Book)

\* The initialized flag, which every reader trusts, is on exactly where some
\* liquidity is registered, and a dead tick carries no fee snapshot into its
\* next life.
LiveTickHasGross(t) ==
    /\ t.initialized <=> t.liquidity_gross > 0
    /\ ~t.initialized => t.fee_growth_outside_0 = 0 /\ t.fee_growth_outside_1 = 0

BookLiveIffGross(book) ==
    \A s \in DOMAIN book.arrays : \A i \in Slots : LiveTickHasGross(book.arrays[s][i])

LiveIffGross == BookLiveIffGross(Book)

\* A bitmap bit never points at an empty array: "Bit i is ON -> TickArray i has
\* at least one initialized tick" (sdk/src/tick_math.ts).
ArrayLive(book, start) == \E i \in Slots : book.arrays[start][i].initialized

BookBitmapSound(book) ==
    \A w \in Words : \A b \in book.bitmaps[w].initialized_arrays :
        \E s \in DOMAIN book.arrays :
            TickWord(s) = w /\ TickBit(s) = b /\ ArrayLive(book, s)

BitmapSound == BookBitmapSound(Book)

BitOn(start) ==
    TickBit(start) \in tick_bitmaps[TickWord(start)].initialized_arrays

\* The converse: "This lets the swap engine skip empty regions instantly"
\* (sdk/src/tick_math.ts), so an array whose bit is off has no live tick.
BitmapComplete == \A s \in DOMAIN tick_arrays : ArrayLive(Book, s) => BitOn(s)

\* A tick's fee snapshot changes in two ways only: it is cleared by the update
\* that brings the tick to life or retires it, or it is flipped by a crossing,
\* which leaves the liquidity alone.  In particular adding to or removing from
\* a tick that stays live never moves its snapshot.
SnapshotDiscipline ==
    \A s \in DOMAIN tick_arrays : \A i \in Slots :
        LET old == tick_arrays[s][i]
            new == tick_arrays'[s][i]
        IN  old.initialized /\ new.initialized =>
              \/ /\ new.fee_growth_outside_0 = old.fee_growth_outside_0
                 /\ new.fee_growth_outside_1 = old.fee_growth_outside_1
              \/ /\ new.liquidity_gross = old.liquidity_gross
                 /\ new.liquidity_net = old.liquidity_net
SnapshotsMoveAlone == [][SnapshotDiscipline]_tickVars

\* From an aligned tick the search finds the nearest live tick of the array in
\* its direction, and fails only when there is none.
NextTickExact ==
    \A s \in DOMAIN tick_arrays, zero_for_one \in BOOLEAN :
    \A c \in {t \in s - TICK_SPACING .. s + ArraySize : ValidTickSpacing(t)} :
        LET ahead == {t \in s .. s + ArraySize - 1 :
                        /\ (t - s) % TICK_SPACING = 0
                        /\ tick_arrays[s][SlotOf(s, t)].initialized
                        /\ IF zero_for_one THEN t < c ELSE t > c}
        IN  NextInitializedTick(s, c, zero_for_one) =
              {t \in ahead : \A u \in ahead : IF zero_for_one THEN u <= t ELSE t <= u}
===============================================================================
