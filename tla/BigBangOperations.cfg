SPECIFICATION Spec
CONSTANTS
    u1 = u1
    Users = {u1}
    FEE_PRECISION = 10
    EXCHANGE_RATE_PRECISION = 10
    ShareRatio = 2
    collateralizationRate = 5
    liquidationCollateralizationRate = 6
    liquidationMultiplier = 1
    liquidationBonusAmount = 5
    minLiquidatorReward = 6
    maxLiquidatorReward = 8
    maxLiquidationSlippage = 3
    DebtRatePerSecond = 2
    RATE_PRECISION = 4
    rateValidDuration = 0
    MaxUint128 = 7
    totalBorrowCap = 0
    LeverageExecutorSet = TRUE
    minMintFee = 0
    maxMintFee = 5
    minMintFeeStart = 10
    maxMintFeeStart = 8
    ExternalUsdo = 1
    MaxTime = 1
    MaxCollateral = 17
    Shares = {17}
    Transfers = {17}
    Amounts = {2, 4}
    Parts = {2}
    Rates = {10, 14}
    AssetPrices = {10}
    Bonuses = {1}
    Pausable <- AllPauses
PROPERTIES FullyPausedFreezes
