\* Two full arrays of two ticks and the unusable lowest one; liquidity in 0..3,
\* crossings when the accumulators are at 1.
CONSTANTS
    Q64 = 2
    TICK_SPACING = 2
    TICKS_PER_ARRAY = 2
    ARRAYS_PER_BITMAP_WORD = 2
    MIN_TICK <- MCMinus5
    MAX_TICK = 3
    Deltas <- MCDeltas
    FeeGrowths = {1}
SPECIFICATION TickSpec
INVARIANTS
    TickTypeOK
    LiveIffGross
    BitmapSound
    NextTickExact
PROPERTIES
    SnapshotsMoveAlone
