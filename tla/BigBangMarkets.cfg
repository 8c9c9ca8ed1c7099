SPECIFICATION Spec
CONSTANTS
    eth = eth  glp = glp
    Markets = {eth, glp}
    MainMarkets = {eth}
    NoMarket = none
    minDebtRate = 5
    maxDebtRate = 20
    debtRateAgainstEthMarket = 10
    DEBT_PRECISION = 10
    RATE_PRECISION = 10
    YEAR = 1
    MaxUint128 = 5
    ExternalUsdo = 0
    MaxTime = 2
    EthDebtRates = {10}
    Amounts = {2}
    Fees = {0}

INVARIANTS DebtCoversUsdo
PROPERTIES ChargedBeforeEthDebtChanges PausesFreezeDebt
