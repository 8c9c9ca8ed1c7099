SPECIFICATION Spec
CONSTANTS
    l1 = l1  b1 = b1  b2 = b2
    Lenders = {l1}
    Penrose = penrose
    Borrowers = {b1, b2}
    FEE_PRECISION = 10
    EXCHANGE_RATE_PRECISION = 10
    ShareRatio = 2
    AssetShareRatio = 2
    collateralizationRate = 5
    liquidationCollateralizationRate = 6
    liquidationMultiplier = 1
    liquidationBonusAmount = 5
    minLiquidatorReward = 6
    maxLiquidatorReward = 8
    maxLiquidationSlippage = 3
    MinFraction = 2
    INTEREST_PRECISION = 2
    UTILIZATION_PRECISION = 4
    minimumTargetUtilization = 1
    maximumTargetUtilization = 2
    minimumInterestPerSecond = 1
    maximumInterestPerSecond = 2
    startingInterestPerSecond = 1
    interestElasticity = 4
    protocolFee = 5
    borrowOpeningFee = 5
    totalBorrowCap = 0
    MaxUint128 = 9
    LeverageExecutorSet = FALSE
    MaxTime = 1
    MaxAssets = 9
    MaxCollateral = 34
    AssetShares = {8}
    Fractions = {6}
    Shares = {17}
    Amounts = {3}
    Parts = {4}
    Transfers = {}
    Rates = {10, 30}
    Bonuses = {1}
    Pausable = {}
SYMMETRY UserSymmetry
INVARIANTS HoldingsAddUp AssetBacked PoolShape
PROPERTIES  DebtPerPartOnlyGrowsByInterest SolventStaysSolvent
