\* The constants of programs/tick_manager/src/math.rs.
CONSTANTS
    Q64 = 2
    TICK_SPACING = 64
    TICKS_PER_ARRAY = 88
    ARRAYS_PER_BITMAP_WORD = 8
    MIN_TICK <- MCMinTick
    MAX_TICK = 443636
SPECIFICATION Spec
INVARIANTS
    SdkAgrees
    AddressRecoversTick
    ClientTicksFit
\* The walk ends at MAX_TICK.
CHECK_DEADLOCK FALSE
