------------------------------- MODULE TickMath -------------------------------
(* programs/tick_manager/src/math.rs: where a tick lives.  Ticks that may be   *)
(* initialised are the multiples of TICK_SPACING; TICKS_PER_ARRAY of them are  *)
(* stored in one TickArray account, and ARRAYS_PER_BITMAP_WORD arrays share    *)
(* one TickBitmap account, a bit each.                                         *)
EXTENDS FixedWidth

CONSTANTS TICK_SPACING,            \* 64
          TICKS_PER_ARRAY,         \* 88
          ARRAYS_PER_BITMAP_WORD,  \* 8
          MIN_TICK,                \* -443636
          MAX_TICK                 \*  443636

ASSUME TickAssumption ==
    /\ TICK_SPACING \in Nat \ {0}
    /\ TICKS_PER_ARRAY \in Nat \ {0}
    /\ ARRAYS_PER_BITMAP_WORD \in Nat \ {0}
    /\ MIN_TICK \in Int
    /\ MAX_TICK \in Int
    /\ MIN_TICK < 0 /\ 0 < MAX_TICK

ArraySize == TICKS_PER_ARRAY * TICK_SPACING

Slots == 0 .. TICKS_PER_ARRAY - 1

Ticks == MIN_TICK .. MAX_TICK

-------------------------------------------------------------------------------
ValidTick(tick)        == MIN_TICK <= tick /\ tick <= MAX_TICK
ValidTickSpacing(tick) == TruncRem(tick, TICK_SPACING) = 0

\* The ticks a position may be bounded by.
UsableTicks == {t \in Ticks : ValidTickSpacing(t)}

\* Mutant: no correction for negative ticks.
TickToArrayStartTruncated(tick) == TruncDiv(tick, ArraySize) * ArraySize

\* The first tick of the array a tick belongs to: truncated division, one less
\* when there is a negative remainder.
TickToArrayStart(tick) ==
    LET quot == TruncDiv(tick, ArraySize)
        rem  == TruncRem(tick, ArraySize)
    IN  (IF rem < 0 THEN quot - 1 ELSE quot) * ArraySize

\* Arrays are numbered from the one that holds MIN_TICK.
ArrayStartToBitmapIndex(start) ==
    TruncDiv(start - TickToArrayStart(MIN_TICK), ArraySize)

BitmapWord(index) == TruncDiv(index, ARRAYS_PER_BITMAP_WORD)
BitmapBit(index)  == TruncRem(index, ARRAYS_PER_BITMAP_WORD)

TickIndex(tick) == ArrayStartToBitmapIndex(TickToArrayStart(tick))
TickWord(tick)  == BitmapWord(TickIndex(tick))
TickBit(tick)   == BitmapBit(TickIndex(tick))

\* sdk/src/tick_math.ts computes the same three by Math.floor.
SdkArrayStart(tick)  == (tick \div ArraySize) * ArraySize
SdkBitmapIndex(start) == (start - SdkArrayStart(MIN_TICK)) \div ArraySize
SdkWordAndBit(index) == <<index \div ARRAYS_PER_BITMAP_WORD, index % ARRAYS_PER_BITMAP_WORD>>

\* Mutant: rounded towards zero.
NearestUsableTickTruncated(tick) == tick - TruncRem(tick, TICK_SPACING)

\* nearestUsableTick, from which a client's range is made: the multiple of the
\* spacing nearest to a tick, away from zero when two are as near.
NearestUsableTick(tick) ==
    LET rem  == TruncRem(tick, TICK_SPACING)
        half == TICK_SPACING \div 2
    IN  tick - rem + (IF rem >= half THEN TICK_SPACING
                      ELSE IF rem <= -half THEN -TICK_SPACING ELSE 0)

-------------------------------------------------------------------------------
\* TickArray::get_tick: the array that starts at `start` has a slot for `tick`,
\* and which.  A tick between two multiples of the spacing shares the slot of
\* the lower one.
HasTick(start, tick) == start <= tick /\ tick < start + ArraySize

\* Mutant: rounded to the next multiple of the spacing.
SlotOfRoundedUp(start, tick) == (tick - start + TICK_SPACING - 1) \div TICK_SPACING

SlotOf(start, tick) == (tick - start) \div TICK_SPACING

\* The array starts that initialize_tick_array accepts.
ArrayStarts == {t \in Ticks : TruncRem(t, ArraySize) = 0}

Words == {TickWord(t) : t \in Ticks}
===============================================================================
