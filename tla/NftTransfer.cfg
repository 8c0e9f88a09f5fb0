\* An NFT changes hands.
CONSTANTS
    Q64 = 16384
    Q32 = 128
    FEE_DENOMINATOR = 1000
    MAX_SAFE_INTEGER = 8191
    slippageBps = 0
    TICK_SPACING = 2
    TICKS_PER_ARRAY = 2
    ARRAYS_PER_BITMAP_WORD = 2
    MIN_TICK <- MCMinTick
    MAX_TICK <- MCMaxTick
    SqrtPriceAt <- MCSqrtPriceAt
    MAX_TICK_CROSSINGS = 3
    TICKS_PER_LOG2 = 7
    Users = {alice, bob}
    Nfts = {nft1, nft2}
    Nobody = Nobody
    MaxUnbacked = 0
    Deltas = {}
    FeeGrowths = {}
    InitialPools <- MCPools
    Ranges <- MCRanges
    SwapAmounts = {300}
    PriceLimits <- MCLimits
    OutMinimums = {0}
    Supply = 700
    InitialBooks = {}
    MaxLiquidity = 0
    MaxGrowth = 10
    Deposits <- MCDeposits
    Minimums <- MCMinimums
SPECIFICATION Spec
INVARIANTS
    OwnershipFollowsNft
