---------------------------- MODULE BigBangConfig ---------------------------
(***************************************************************************)
(* The configuration of a BigBang market: MarketConfig's, its opening fee  *)
(* and its debt rates.  The rates take effect from the moment they are set *)
(* because the market accrues first; that it has is all that is kept of    *)
(* its accrual.                                                            *)
(***************************************************************************)
EXTENDS MarketConfig

CONSTANTS
    DEBT_PRECISION, RATE_PRECISION, \* 1e18
    isMainMarket,                   \* whether the collateral is the main asset
    DebtRates, DebtShares,          \* inputs, 0 for no change
    MintFees, Prices,               \* inputs of the two setters, and prices of USDO
    DebtAmounts                     \* the debts the debt rate is looked at for

VARIABLES
    minMintFee, maxMintFee, minMintFeeStart, maxMintFeeStart,
    minDebtRate, maxDebtRate, debtRateAgainstEthMarket,
    accrued  \* whether interest is charged up to now

mintVars == <<minMintFee, maxMintFee, minMintFeeStart, maxMintFeeStart>>
debtVars == <<minDebtRate, maxDebtRate, debtRateAgainstEthMarket>>
vars == <<configVars, mintVars, debtVars, accrued>>

Fee  == INSTANCE MintFee
Debt == INSTANCE DebtRate

(* _initDebtStorage compares the new rates only if the old ones are set,   *)
(* and they never are.                                                     *)
InitDebtStorage(against, min, max) ==
    IF isMainMarket
    THEN minDebtRate = 0 /\ maxDebtRate = 0 /\ debtRateAgainstEthMarket = 0
    ELSE minDebtRate = min /\ maxDebtRate = max /\ debtRateAgainstEthMarket = against

(* init: the defaults, scaled, and what the deployer chooses; 0 is for the *)
(* default of a collateralization rate.                                    *)
Init ==
    /\ collateralizationRate \in CollateralRates \ {0}
    /\ liquidationCollateralizationRate \in CollateralRates \ {0}
    /\ collateralizationRate <= FEE_PRECISION
    /\ liquidationCollateralizationRate <= FEE_PRECISION
    /\ collateralizationRate <= liquidationCollateralizationRate
    /\ minLiquidatorReward = FEE_PRECISION - 2
    /\ maxLiquidatorReward = FEE_PRECISION - 1
    /\ liquidationBonusAmount = 1
    /\ liquidationMultiplier = 1
    /\ protocolFee = 1
    /\ maxLiquidationSlippage = 0
    /\ minMintFee = 0 /\ maxMintFee = 1
    /\ \E p \in Prices : maxMintFeeStart = p /\ minMintFeeStart = p + 1
    /\ \E against \in DebtShares, min, max \in DebtRates : InitDebtStorage(against, min, max)
    /\ accrued = TRUE

-----------------------------------------------------------------------------
SetMinAndMaxMintRange(min, max) ==
    /\ max < min
    /\ minMintFeeStart' = min
    /\ maxMintFeeStart' = max
    /\ UNCHANGED <<configVars, minMintFee, maxMintFee, debtVars, accrued>>

SetMinAndMaxMintFeeUnchecked(min, max) == \* mutant: the fees may be swapped
    /\ minMintFee' = min
    /\ maxMintFee' = max
    /\ UNCHANGED <<configVars, minMintFeeStart, maxMintFeeStart, debtVars, accrued>>
SetMinAndMaxMintFee(min, max) ==
    /\ min < max
    /\ minMintFee' = min
    /\ maxMintFee' = max
    /\ UNCHANGED <<configVars, minMintFeeStart, maxMintFeeStart, debtVars, accrued>>

(* setBigBangConfig: nothing for the main market; any other accrues first. *)
(* Like setMarketConfig it checks a new minimum against the old maximum,   *)
(* and a new maximum against the new minimum.                              *)
SetDebtRates(min, max) ==
    /\ min > 0 => min < maxDebtRate
    /\ minDebtRate' = Updated(min, minDebtRate)
    /\ max > 0 => max > minDebtRate' /\ max <= RATE_PRECISION
    /\ maxDebtRate' = Updated(max, maxDebtRate)

SetBigBangConfigUncharged(min, max, against, multiplier) == \* mutant: no _accrue()
    /\ ~isMainMarket
    /\ SetDebtRates(min, max)
    /\ debtRateAgainstEthMarket' = Updated(against, debtRateAgainstEthMarket)
    /\ multiplier < FEE_PRECISION
    /\ liquidationMultiplier' = Updated(multiplier, liquidationMultiplier)
    /\ UNCHANGED <<rateVars, rewardVars, liquidationBonusAmount, protocolFee,
                   maxLiquidationSlippage, mintVars, accrued>>
SetBigBangConfig(min, max, against, multiplier) ==
    /\ ~isMainMarket
    /\ accrued' = TRUE
    /\ SetDebtRates(min, max)
    /\ debtRateAgainstEthMarket' = Updated(against, debtRateAgainstEthMarket)
    /\ multiplier < FEE_PRECISION
    /\ liquidationMultiplier' = Updated(multiplier, liquidationMultiplier)
    /\ UNCHANGED <<rateVars, rewardVars, liquidationBonusAmount, protocolFee,
                   maxLiquidationSlippage, mintVars>>

(* Time passes, and interest is due again.                                 *)
Tick ==
    /\ accrued
    /\ accrued' = FALSE
    /\ UNCHANGED <<configVars, mintVars, debtVars>>

Next ==
    \/ MarketConfigStep /\ UNCHANGED <<mintVars, debtVars, accrued>>
    \/ \E min, max \in Prices : SetMinAndMaxMintRange(min, max)
    \/ \E min, max \in MintFees : SetMinAndMaxMintFee(min, max)
    \/ \E min, max \in DebtRates, against \in DebtShares, multiplier \in Multipliers :
          SetBigBangConfig(min, max, against, multiplier)
    \/ Tick

Spec == Init /\ [][Next]_vars

-----------------------------------------------------------------------------
(* Properties.                                                             *)

(* However the owner got there, what a borrower pays is within what was    *)
(* set.  At every price the opening fee is between the two fees, and no    *)
(* less the cheaper USDO is (_computeVariableOpeningFee); and while the    *)
(* debt rates are ordered, the rate of every debt is between them, and     *)
(* grows with it (getDebtRate).                                            *)
RatesInRange ==
    /\ \A p, q \in Prices :
          /\ Fee!OpeningFeeRate(p) \in minMintFee..maxMintFee
          /\ p <= q => Fee!OpeningFeeRate(p) >= Fee!OpeningFeeRate(q)
    /\ minDebtRate <= maxDebtRate =>
          \A d, e, ethDebt \in DebtAmounts :
              /\ Debt!DebtRateOf(d, ethDebt) \in minDebtRate..maxDebtRate
              /\ d <= e => Debt!DebtRateOf(d, ethDebt) <= Debt!DebtRateOf(e, ethDebt)

(* Once the debt rates are ordered they stay so, and they change only when *)
(* the interest at the old ones is charged (setBigBangConfig).             *)
DebtRatesChangeSafely ==
    [][/\ minDebtRate < maxDebtRate => minDebtRate' < maxDebtRate'
       /\ debtVars' # debtVars => accrued']_vars
=============================================================================
