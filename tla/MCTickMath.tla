------------------------------ MODULE MCTickMath ------------------------------
(* The tick arithmetic at its real constants: one behaviour walks through      *)
(* every tick index from MIN_TICK to MAX_TICK, and the invariants speak of the *)
(* tick it has reached.                                                        *)
EXTENDS TickMath

MCMinTick == -443636

VARIABLE tick

Init == tick = MIN_TICK
Advance == tick < MAX_TICK /\ tick' = tick + 1
Spec == Init /\ [][Advance]_tick

-------------------------------------------------------------------------------
\* The on-chain arithmetic and the SDK's put a tick in the same array, word and
\* bit.  A client derives every account address from the SDK's answer; where it
\* differed, the program would be handed the wrong account.
SdkAgrees ==
    LET start == TickToArrayStart(tick)
        index == ArrayStartToBitmapIndex(start)
    IN  /\ start = SdkArrayStart(tick)
        /\ index = SdkBitmapIndex(start)
        /\ <<BitmapWord(index), BitmapBit(index)>> = SdkWordAndBit(index)

\* Word, bit and slot are an address: from them the tick can be recovered, so
\* no two usable ticks share a slot and no two arrays share a bit.
AddressRecoversTick ==
    LET start == TickToArrayStart(tick)
        slot  == SlotOf(start, tick)
        index == TickWord(tick) * ARRAYS_PER_BITMAP_WORD + TickBit(tick)
        base  == TickToArrayStart(MIN_TICK) + index * ArraySize + slot * TICK_SPACING
    IN  /\ HasTick(start, tick)
        /\ slot \in Slots
        /\ TickBit(tick) \in 0 .. ARRAYS_PER_BITMAP_WORD - 1
        /\ base <= tick /\ tick < base + TICK_SPACING
        /\ ValidTickSpacing(tick) <=> base = tick

\* Which ticks a client may name: the SDK rounds to the nearest multiple of the
\* spacing, up from the middle.  From the highest multiple that is a tick, and
\* below the first array that initialize_tick_array accepts, what it rounds to
\* cannot be used: at both ends of the scale a range is refused that lies within
\* MIN_TICK .. MAX_TICK.
LowestArray == TickToArrayStart(MIN_TICK) + ArraySize
HighestTick == TruncDiv(MAX_TICK, TICK_SPACING) * TICK_SPACING

ClientTicksFit ==
    LET usable == NearestUsableTick(tick)
        half   == TICK_SPACING \div 2
    IN  /\ ValidTickSpacing(usable)
        /\ usable - half <= tick /\ tick <= usable + half
        /\ (ValidTick(usable) /\ ValidTick(TickToArrayStart(usable)))
              <=> (LowestArray - half < tick /\ tick < HighestTick + half)
===============================================================================
