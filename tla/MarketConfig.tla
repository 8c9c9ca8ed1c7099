---------------------------- MODULE MarketConfig ----------------------------
(***************************************************************************)
(* How the owner configures any market (Market.sol): each call replaces    *)
(* some of the rates and keeps those it passes as 0.  The rates that are   *)
(* constants of module Market are variables here, and Rules is what Market *)
(* computes from their current values.                                     *)
(*                                                                         *)
(* Oracles, addresses and the borrow cap are stored unchecked and are left *)
(* out.                                                                    *)
(***************************************************************************)
EXTENDS Integers

CONSTANTS
    FEE_PRECISION, EXCHANGE_RATE_PRECISION, ShareRatio, \* as in Market
    CollateralRates,   \* the inputs the owner chooses from, 0 for no change:
    Rewards,           \*   collateralization rates and liquidator rewards,
    Bonuses, Fees, Multipliers, Slippages,
    Shares, Parts, ExchangeRates \* the positions the rules are looked at for

VARIABLES
    collateralizationRate, liquidationCollateralizationRate,
    minLiquidatorReward, maxLiquidatorReward,
    liquidationBonusAmount, liquidationMultiplier,
    protocolFee, maxLiquidationSlippage

rateVars   == <<collateralizationRate, liquidationCollateralizationRate>>
rewardVars == <<minLiquidatorReward, maxLiquidatorReward>>
configVars == <<rateVars, rewardVars, liquidationBonusAmount, liquidationMultiplier,
                protocolFee, maxLiquidationSlippage>>

Rules == INSTANCE Market

(* The new value of a rate that is updated only if it is not 0.            *)
Updated(new, old) == IF new > 0 THEN new ELSE old

-----------------------------------------------------------------------------
(* setMarketConfig checks and stores its arguments one by one, so that     *)
(* each is compared with the values set before it: a new minimum reward    *)
(* with the old maximum, a new maximum with the new minimum.               *)
SetRewards(min, max) ==
    /\ min > 0 => min < FEE_PRECISION /\ min < maxLiquidatorReward
    /\ minLiquidatorReward' = Updated(min, minLiquidatorReward)
    /\ max > 0 => max < FEE_PRECISION /\ max > minLiquidatorReward'
    /\ maxLiquidatorReward' = Updated(max, maxLiquidatorReward)

SetRatesUnchecked(cr, lcr) == \* mutant: the liquidation rate checked against the old one
    /\ cr > 0 =>
          /\ cr <= FEE_PRECISION
          /\ cr <= liquidationCollateralizationRate
          /\ cr * (FEE_PRECISION + liquidationMultiplier) < FEE_PRECISION * FEE_PRECISION
    /\ lcr > 0 => lcr >= collateralizationRate /\ lcr <= FEE_PRECISION
    /\ collateralizationRate' = Updated(cr, collateralizationRate)
    /\ liquidationCollateralizationRate' = Updated(lcr, liquidationCollateralizationRate)
SetRates(cr, lcr) ==
    /\ cr > 0 =>
          /\ cr <= FEE_PRECISION
          /\ cr <= liquidationCollateralizationRate
          /\ cr * (FEE_PRECISION + liquidationMultiplier) < FEE_PRECISION * FEE_PRECISION
    /\ collateralizationRate' = Updated(cr, collateralizationRate)
    /\ lcr > 0 => lcr >= collateralizationRate' /\ lcr <= FEE_PRECISION
    /\ liquidationCollateralizationRate' = Updated(lcr, liquidationCollateralizationRate)

SetMarketConfig(fee, bonus, min, max, cr, lcr) ==
    /\ fee <= FEE_PRECISION
    /\ protocolFee' = Updated(fee, protocolFee)
    /\ bonus < FEE_PRECISION
    /\ liquidationBonusAmount' = Updated(bonus, liquidationBonusAmount)
    /\ SetRewards(min, max)
    /\ SetRates(cr, lcr)
    /\ UNCHANGED <<liquidationMultiplier, maxLiquidationSlippage>>

SetLiquidationMaxSlippage(val) ==
    /\ val < FEE_PRECISION
    /\ maxLiquidationSlippage' = val
    /\ UNCHANGED <<rateVars, rewardVars, liquidationBonusAmount, liquidationMultiplier,
                   protocolFee>>

MarketConfigStep ==
    \/ \E fee \in Fees, bonus \in Bonuses, min, max \in Rewards, cr, lcr \in CollateralRates :
          SetMarketConfig(fee, bonus, min, max, cr, lcr)
    \/ \E val \in Slippages : SetLiquidationMaxSlippage(val)

-----------------------------------------------------------------------------
(* Properties of every market's configuration.                             *)

(* A position of coll shares and of a debt shared in tb.base parts.        *)
Debts == {tb \in [elastic : Parts, base : Parts] : tb.base <= tb.elastic}

(* However the owner got there, a position that may borrow is not one that *)
(* may be liquidated: the two rates are applied by _isSolvent alike.       *)
SolventNotLiquidatable ==
    \A coll \in Shares, rate \in ExchangeRates, tb \in Debts :
        \A part \in 1..tb.base :
            Rules!IsSolvent(collateralizationRate, coll, part, tb, rate)
                => Rules!IsSolvent(liquidationCollateralizationRate, coll, part, tb, rate)

(* "Market: CR * (1 + LM) >= 1" is refused (setMarketConfig) ...           *)
BadDebtAboveCollateralRate == Rules!BadDebtThresholdAboveCR

(* ... so that, where that holds, no position that may borrow may be       *)
(* written off as bad debt (liquidateBadDebt, which does not look at its   *)
(* solvency), whatever is rounded.                                         *)
SolventIsNotBadDebt ==
    BadDebtAboveCollateralRate =>
        \A coll \in Shares, rate \in ExchangeRates, tb \in Debts :
            \A part \in 1..tb.base :
                Rules!IsSolvent(collateralizationRate, coll, part, tb, rate)
                    => coll >= Rules!RequiredCollateral(part, tb, rate)
=============================================================================
