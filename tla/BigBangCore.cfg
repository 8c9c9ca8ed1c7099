SPECIFICATION Spec
SYMMETRY UserSymmetry
CONSTANTS
    u1 = u1  u2 = u2
    Users = {u1, u2}
    FEE_PRECISION = 10
    EXCHANGE_RATE_PRECISION = 10
    ShareRatio = 2
    collateralizationRate = 5
    liquidationCollateralizationRate = 6
    liquidationMultiplier = 1
    liquidationBonusAmount = 5
    minLiquidatorReward = 6
    maxLiquidatorReward = 8
    maxLiquidationSlippage = 3
    DebtRatePerSecond = 2
    RATE_PRECISION = 4
    rateValidDuration = 0
    MaxUint128 = 9
    totalBorrowCap = 0
    LeverageExecutorSet = FALSE
    minMintFee = 0
    maxMintFee = 5
    minMintFeeStart = 10
    maxMintFeeStart = 8
    ExternalUsdo = 2
    MaxTime = 1
    MaxCollateral = 34
    Shares = {17}
    Transfers = {}
    Amounts = {2, 4}
    Parts = {2, 9}
    Rates = {10, 14, 30}
    AssetPrices = {8}
    Bonuses = {1}
    Pausable = {}
INVARIANTS PositionsAddUp DebtShape UsdoBacked CollateralBacked
PROPERTIES DebtPerPartOnlyGrowsByInterest SolventStaysSolvent SolventNeverLiquidated
           ImplementsLedger
