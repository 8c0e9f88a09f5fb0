\* One user, two positions on one range, and one call sent past position_mgr.
CONSTANTS
    Q64 = 16384
    Q32 = 128
    FEE_DENOMINATOR = 1000
    MAX_SAFE_INTEGER = 8191
    slippageBps = 0
    TICK_SPACING = 2
    TICKS_PER_ARRAY = 2
    ARRAYS_PER_BITMAP_WORD = 2
    MIN_TICK <- MCMinTick
    MAX_TICK <- MCMaxTick
    SqrtPriceAt <- MCSqrtPriceAt
    MAX_TICK_CROSSINGS = 3
    TICKS_PER_LOG2 = 7
    Users = {alice}
    Nfts = {nft1, nft2}
    Nobody = Nobody
    MaxUnbacked = 1
    Deltas <- MCDeltas
    FeeGrowths = {16384}
    InitialPools <- MCPools
    Ranges <- MCOneRange
    SwapAmounts = {300}
    PriceLimits <- MCUpLimits
    OutMinimums = {0}
    Supply = 400
    InitialBooks = {}
    MaxLiquidity = 3000
    MaxGrowth = 10
    Deposits <- MCDeposits
    Minimums <- MCMinimums
\* The instance runs out of mints and of swaps.
CHECK_DEADLOCK FALSE
SYMMETRY MCSymmetry
SPECIFICATION Spec
INVARIANTS
    TickLedger
    TicksNeverBlockExit
    Conservation
PROPERTIES
    WealthSettled
    OnlySwapsMiscount
    RefinesBook
