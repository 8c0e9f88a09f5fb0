\* Two swaps or more over three books: none, live ticks, crossed ticks.
CONSTANTS
    Q64 = 16384
    FEE_DENOMINATOR = 1000
    TICK_SPACING = 2
    TICKS_PER_ARRAY = 2
    ARRAYS_PER_BITMAP_WORD = 2
    MIN_TICK <- MCMinTick
    MAX_TICK <- MCMaxTick
    SqrtPriceAt <- MCSqrtPriceAt
    MAX_TICK_CROSSINGS = 3
    TICKS_PER_LOG2 = 7
    Users = {u1}
    Deltas <- MCDeltas
    FeeGrowths <- MCFeeGrowths
    InitialPools <- MCPools
    Ranges <- MCRanges
    SwapAmounts <- MCAmounts
    PriceLimits <- MCLimits
    OutMinimums <- MCMinimums
    Supply = 600
    InitialBooks <- MCBooks
    MaxLiquidity = 2400
    MaxGrowth = 20
SPECIFICATION LoopSpec
INVARIANTS
    LoopTypeOK
    Conservation
    UpwardExactInput
PROPERTIES
    GrowthNeverFalls
    SwapEnds
