CONSTANTS
    Q64 = 64
    FEE_DENOMINATOR = 100
    Prices <- MCPrices
    Liquidities <- MCLiquidities
    FeeRate = 3
SPECIFICATION Spec
INVARIANTS
    UpwardStepExact
    MulQ64Exact
PROPERTIES
    UpwardMonotone
\* The walk ends when the input is as large as a u64.
CHECK_DEADLOCK FALSE
