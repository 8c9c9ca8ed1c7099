SPECIFICATION Spec
CONSTANTS
    l1 = l1  l2 = l2  b1 = b1
    Lenders = {l1, l2}
    Penrose = penrose
    Borrowers = {b1}
    FEE_PRECISION = 10
    EXCHANGE_RATE_PRECISION = 10
    ShareRatio = 2
    AssetShareRatio = 1
    collateralizationRate = 5
    liquidationCollateralizationRate = 6
    liquidationMultiplier = 1
    liquidationBonusAmount = 5
    minLiquidatorReward = 6
    maxLiquidatorReward = 8
    maxLiquidationSlippage = 3
    MinFraction = 2
    INTEREST_PRECISION = 2
    UTILIZATION_PRECISION = 4
    minimumTargetUtilization = 1
    maximumTargetUtilization = 2
    minimumInterestPerSecond = 1
    maximumInterestPerSecond = 2
    startingInterestPerSecond = 1
    interestElasticity = 4
    protocolFee = 5
    borrowOpeningFee = 5
    totalBorrowCap = 0
    MaxUint128 = 6
    LeverageExecutorSet = TRUE
    MaxTime = 1
    MaxAssets = 11
    MaxCollateral = 20
    AssetShares = {5}
    Fractions = {3}
    Shares = {16}
    Amounts = {2}
    Parts = {6}
    Transfers = {8}
    Rates = {10}
    Bonuses = {1}
    Pausable = {"RemoveCollateral"}
SYMMETRY UserSymmetry

PROPERTIES FractionsNeverLoseValue
