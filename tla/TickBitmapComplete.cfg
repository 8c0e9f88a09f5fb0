CONSTANTS
    Q64 = 2
    TICK_SPACING = 2
    TICKS_PER_ARRAY = 2
    ARRAYS_PER_BITMAP_WORD = 2
    MIN_TICK <- MCMinus1
    MAX_TICK = 3
    Deltas <- MCDeltas
    FeeGrowths <- MCNoGrowth
SPECIFICATION TickSpec
INVARIANTS
    BitmapComplete
