------------------------------- MODULE Market -------------------------------
(***************************************************************************)
(* What BigBang and Singularity share (Market.sol): when a position is     *)
(* solvent, how much of it may be liquidated, and what the liquidator      *)
(* earns.  Everything here is a function of one position -- its collateral *)
(* shares `coll` and its debt parts `part` -- of the market's totalBorrow  *)
(* `tb` and of the exchange rate `rate`, which counts collateral units per *)
(* EXCHANGE_RATE_PRECISION units of asset.                                 *)
(***************************************************************************)
EXTENDS BoringRebase

CONSTANTS
    FEE_PRECISION,                    \* 1e5: rates and rewards are fractions of it
    EXCHANGE_RATE_PRECISION,          \* 1e18
    ShareRatio,                       \* YieldBox shares per unit of collateral
    collateralizationRate,            \* a loan may reach this share of its collateral
    liquidationCollateralizationRate, \* and is liquidated above this one
    liquidationMultiplier,            \* the liquidator's bonus in the bad debt test
    liquidationBonusAmount,           \* the bonus in collateral of a liquidation
    minLiquidatorReward,
    maxLiquidatorReward,
    maxLiquidationSlippage

ASSUME PrecisionAssumption ==
    /\ FEE_PRECISION \in Nat \ {0}
    /\ EXCHANGE_RATE_PRECISION \in Nat \ {0}
    /\ EXCHANGE_RATE_PRECISION \div FEE_PRECISION \in Nat \ {0}
    /\ EXCHANGE_RATE_PRECISION =
          FEE_PRECISION * (EXCHANGE_RATE_PRECISION \div FEE_PRECISION)
    /\ ShareRatio \in Nat \ {0}

(* The ranges that init and the setters keep.  setMarketConfig refuses     *)
(* rates above FEE_PRECISION, the init of Singularity does not.            *)
ASSUME RatesAssumption ==
    /\ collateralizationRate \in 1..liquidationCollateralizationRate
    /\ liquidationCollateralizationRate \in Nat \ {0}
    /\ liquidationMultiplier \in 0..FEE_PRECISION
    /\ liquidationBonusAmount \in 0..(FEE_PRECISION - 1)
    /\ minLiquidatorReward \in Nat
    /\ maxLiquidatorReward \in minLiquidatorReward..(FEE_PRECISION - 1)
    /\ maxLiquidationSlippage \in 0..(FEE_PRECISION - 1)

(* What setMarketConfig refuses to configure otherwise, Market.sol:276.    *)
BadDebtThresholdAboveCR ==
    collateralizationRate * (FEE_PRECISION + liquidationMultiplier)
        < FEE_PRECISION * FEE_PRECISION

-----------------------------------------------------------------------------
(* The value of a position's collateral in the borrowed asset.             *)
CollateralInAsset(coll, rate) ==
    (ToAmount(ShareRatio, coll) * EXCHANGE_RATE_PRECISION) \div rate

(* A position's debt, rounded down.                                        *)
BorrowedAmount(part, tb) == (part * tb.elastic) \div tb.base

(* _isSolvent, at the collateralization rate cr; the check reverts on the  *)
(* division when no parts are left.                                        *)
IsSolvent(cr, coll, part, tb, rate) ==
    \/ part = 0
    \/ /\ coll # 0
       /\ tb.base # 0
       /\ ToAmount(ShareRatio, coll)
             * (EXCHANGE_RATE_PRECISION \div FEE_PRECISION) * cr
          >= (part * tb.elastic * rate) \div tb.base

(* _computeClosingFactor. The denominator can be zero, and then the call   *)
(* reverts (ClosingFactorDefined), or negative, and then the code takes    *)
(* the absolute value of the quotient.                                     *)
ClosingDenominator ==
    FEE_PRECISION - (liquidationCollateralizationRate
                       * (FEE_PRECISION + liquidationMultiplier)) \div FEE_PRECISION

LiquidationStartsAt(collInAsset) ==
    (collInAsset * liquidationCollateralizationRate) \div FEE_PRECISION

ClosingFactorDefined(borrowed, collInAsset) ==
    borrowed >= LiquidationStartsAt(collInAsset) => ClosingDenominator # 0

ClosingFactor(borrowed, collInAsset) ==
    LET startsAt == LiquidationStartsAt(collInAsset)
        denominator == IF ClosingDenominator > 0 THEN ClosingDenominator
                                                 ELSE - ClosingDenominator
    IN  IF borrowed < startsAt THEN 0
        ELSE Least(((borrowed - startsAt) * FEE_PRECISION) \div denominator, borrowed)

(* _getCallerReward: the share of the profit that goes to the liquidator,  *)
(* from maxLiquidatorReward for a position that has just crossed the       *)
(* collateralization rate down to minLiquidatorReward at 100% LTV, which   *)
(* the percentage, at most 100%, never goes below.                         *)
CallerReward(coll, part, tb, rate) ==
    LET maxTVL   == CollateralInAsset(coll, rate)
        startTVL == (maxTVL * collateralizationRate) \div FEE_PRECISION
        borrowed == BorrowedAmount(part, tb)
    IN  IF part = 0 \/ startTVL = 0 THEN 0
        ELSE IF borrowed < startTVL THEN 0
        ELSE IF borrowed >= maxTVL THEN minLiquidatorReward
        ELSE LET percentage == ((borrowed - startTVL) * FEE_PRECISION)
                                  \div (maxTVL - startTVL)
             IN  maxLiquidatorReward
                   - ((maxLiquidatorReward - minLiquidatorReward) * percentage)
                        \div FEE_PRECISION

-----------------------------------------------------------------------------
(* _updateBorrowAndCollateralShare, shared by both markets' liquidations:  *)
(* what one liquidation of a position takes.                               *)

(* The debt that may be liquidated, before the liquidator's own limit.     *)
Liquidatable(coll, part, tb, rate) ==
    Least(ClosingFactor(BorrowedAmount(part, tb), CollateralInAsset(coll, rate)),
          ToElasticUp(tb, part))

(* The debt repaid, once limited by the liquidator's maxBorrowPart ...     *)
LiquidatedAmount(coll, part, tb, rate, maxBorrowPart) ==
    Least(Liquidatable(coll, part, tb, rate), maxBorrowPart)

(* ... the parts of the position it stands for: all of them, without       *)
(* rounding dust, when the debt is repaid in full ...                      *)
LiquidatedPartUp(part, tb, amount) == ToBaseUp(tb, amount) \* mutant: rounded up
LiquidatedPart(part, tb, amount) ==
    IF amount = ToElasticUp(tb, part) THEN part ELSE ToBaseDown(tb, amount)

(* ... and the collateral the liquidator is to receive for it.             *)
AmountWithBonus(amount) ==
    amount + (amount * liquidationBonusAmount) \div FEE_PRECISION

BonusCovered(coll, rate, amount) ==
    CollateralInAsset(coll, rate) >= AmountWithBonus(amount)

LiquidatedShare(coll, rate, amount) ==
    IF BonusCovered(coll, rate, amount)
    THEN ToShare(ShareRatio,
                 (AmountWithBonus(amount) * rate) \div EXCHANGE_RATE_PRECISION)
    ELSE coll

(* The conditions under which the liquidation does not revert: the         *)
(* divisions are defined, there is no bad debt, something is repaid, and   *)
(* the collateral is enough for the bonus or, failing that, covers the     *)
(* debt and the liquidator is content with what is left.                   *)
MayLiquidate(coll, part, tb, rate, maxBorrowPart, minLiquidationBonus) ==
    LET inAsset == CollateralInAsset(coll, rate)
        amount  == LiquidatedAmount(coll, part, tb, rate, maxBorrowPart)
    IN  /\ tb.base # 0
        /\ ClosingFactorDefined(BorrowedAmount(part, tb), inAsset)
        /\ inAsset >= Liquidatable(coll, part, tb, rate)
        /\ LiquidatedPart(part, tb, amount) # 0
        /\ \/ /\ BonusCovered(coll, rate, amount)
              /\ LiquidatedShare(coll, rate, amount) <= coll
           \/ /\ ~BonusCovered(coll, rate, amount)
              /\ inAsset > ToElasticUp(tb, part)
              /\ minLiquidationBonus > 0
              /\ ((inAsset - amount) * FEE_PRECISION) \div amount
                    >= minLiquidationBonus

(* The least the swapped collateral must return, _swapCollateralWithAsset. *)
MinReceivable(share, rate) ==
    LET receivable == CollateralInAsset(share, rate)
    IN  receivable - (receivable * maxLiquidationSlippage) \div FEE_PRECISION

(* The swap must pay the debt, in full, and respect the slippage.          *)
SwapSucceeds(share, rate, amount, returned) ==
    /\ returned > 0
    /\ returned >= MinReceivable(share, rate)
    /\ returned >= amount

(* The liquidator's part of the profit, deposited for it as YieldBox       *)
(* shares and so paid in whole units, rounded up; _extractLiquidationFees. *)
CallerAmount(profit, reward) ==
    ToAmountUp(ShareRatio, (ToShare(ShareRatio, profit) * reward) \div FEE_PRECISION)

(* Bad debt: the collateral a full liquidation with the bonus would need;  *)
(* a position may be written off only when it has no more than that.       *)
RequiredCollateralTwice(part, tb, rate) == \* mutant: the debt counted twice
    LET amount == ToElasticDown(tb, part)
        withBonus == amount
            + (amount * (FEE_PRECISION + liquidationMultiplier)) \div FEE_PRECISION
    IN  ToShare(ShareRatio, (withBonus * rate) \div EXCHANGE_RATE_PRECISION)
RequiredCollateral(part, tb, rate) ==
    LET amount == ToElasticDown(tb, part)
        withBonus == amount + (amount * liquidationMultiplier) \div FEE_PRECISION
    IN  ToShare(ShareRatio, (withBonus * rate) \div EXCHANGE_RATE_PRECISION)
=============================================================================
