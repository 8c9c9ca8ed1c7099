SPECIFICATION AdminSpec
CONSTANTS
    b1 = b1  b2 = b2  b3 = b3  s1 = s1  o1 = o1  o2 = o2
    riskLow = riskLow  riskHigh = riskHigh  sgl = sgl
    BigBangs = {b1, b2, b3}
    Singularities = {s1}
    OriginsMarkets = {o1, o2}
    BigBangMasters = {riskLow, riskHigh}
    SingularityMasters = {sgl}
    NoContract = none
    FEE_PRECISION = 5
    EXCHANGE_RATE_PRECISION = 5
    ShareRatio = 1
    CollateralRates = {0, 2, 4, 5}
    SingularityRates = {0, 4, 6}
    Rewards = {0}
    Bonuses = {0}
    Fees = {0}
    Multipliers = {0, 2, 4}
    SingularityMultipliers = {0, 6}
    Slippages = {1}
    Shares = {0, 1, 3, 6}
    Parts = {1, 2, 4, 6}
    ExchangeRates = {3, 5, 9}
    DEBT_PRECISION = 10
    RATE_PRECISION = 10
    isMainMarket = FALSE
    DebtRates = {0, 2, 5, 7}
    DebtShares = {5}
    MintFees = {0, 1, 3}
    Prices = {1, 2, 4}
    DebtAmounts = {0, 3, 20}
    UTILIZATION_PRECISION = 10
    OpeningFees = {0, 6}
    InterestRates = {0, 2, 9}
    Targets = {0, 6, 10}
    Elasticities = {0}
    Utilizations = {0, 1, 4, 8}
    Times = {1, 3}
SYMMETRY Symmetry
INVARIANTS ListsAreExact RegisteredAreReachable
           SolventNotLiquidatable SolventIsNotBadDebt RatesInRange
PROPERTIES DebtRatesChangeSafely RateFollowsTarget InterestChangesSafely
