SPECIFICATION MintSpec
CONSTANTS
    u1 = u1  u2 = u2
    Users = {u1, u2}
    Owner = u1
    FEE_PRECISION = 5
    EXCHANGE_RATE_PRECISION = 5
    ShareRatio = 2
    collateralizationRate = 5
    liquidationCollateralizationRate = 5
    liquidationMultiplier = 1
    liquidationBonusAmount = 1
    minLiquidatorReward = 3
    maxLiquidatorReward = 4
    maxLiquidationSlippage = 0
    totalBorrowCap = 6
    MaxUint128 = 9
    ExternalUsdo = 1
    MaxCollateral = 12
    Shares = {6}
    Amounts = {0, 1, 4}
    Parts = {1, 5}
    Rates = {3, 5, 9}
    Pausable = {"Borrow"}
    ETH_AMOUNT_FOR_USDC = 2
    ETH_AMOUNT_FOR_DAI = 1
    PERCENT = 5
    Deltas = {0, 2}
    MaxMints = 2
INVARIANTS DebtIsUsdo UnmovedRateSuffices
PROPERTIES SolventStaysSolvent
