\* A swap with input to spare beyond a tick that it sees.
CONSTANTS
    Q64 = 16384
    FEE_DENOMINATOR = 1000
    TICK_SPACING = 2
    TICKS_PER_ARRAY = 2
    ARRAYS_PER_BITMAP_WORD = 2
    MIN_TICK <- MCMinTick
    MAX_TICK <- MCMaxTick
    SqrtPriceAt <- MCSqrtPriceAt
    MAX_TICK_CROSSINGS = 3
    TICKS_PER_LOG2 = 7
    Users = {u1}
    Deltas <- MCDeltas
    FeeGrowths <- MCFeeGrowths
    InitialPools <- MCPools
    Ranges <- MCRanges
    SwapAmounts <- MCAmounts
    PriceLimits <- MCLimits
    OutMinimums <- MCMinimums
    Supply = 600
    InitialBooks <- MCBooks
    MaxLiquidity = 2400
    MaxGrowth = 20
SPECIFICATION LoopSpec
INVARIANTS
    SwapGoesOn
