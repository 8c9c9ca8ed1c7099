-------------------------- MODULE SingularityConfig -------------------------
(***************************************************************************)
(* The configuration of a Singularity market: MarketConfig's, its opening  *)
(* fee and its interest rate, which moves at each accrual and is not moved *)
(* when its bounds are.  Of the market itself there are only whether it    *)
(* has loans, its utilization, and whether it is charged up to now.        *)
(***************************************************************************)
EXTENDS MarketConfig

CONSTANTS
    UTILIZATION_PRECISION,   \* 1e18, FULL_UTILIZATION
    OpeningFees, InterestRates, Targets, Elasticities, \* inputs, 0 for no change
    Utilizations,            \* what the market's utilization may be
    Times                    \* the time that may pass before an accrual

VARIABLES
    borrowOpeningFee,
    minimumTargetUtilization, maximumTargetUtilization,
    minimumInterestPerSecond, maximumInterestPerSecond, startingInterestPerSecond,
    interestElasticity,
    interestHelper,          \* whether there is one
    interestPerSecond,       \* accrueInfo.interestPerSecond
    elapsed,                 \* the time since the last accrual
    utilization, borrowed    \* of the market; whether it has loans

boundVars    == <<minimumInterestPerSecond, maximumInterestPerSecond>>
targetVars   == <<minimumTargetUtilization, maximumTargetUtilization>>
interestVars == <<boundVars, targetVars, startingInterestPerSecond, interestElasticity>>
vars == <<configVars, borrowOpeningFee, interestVars, interestHelper, interestPerSecond,
          elapsed, utilization, borrowed>>

Interest == INSTANCE SGLInterest

(* init, which leaves the interest helper unset.  The two bounds share a   *)
(* storage slot, which init writes as a whole for either (_initDefault-    *)
(* Values): the default maximum is stored as the minimum, and the maximum  *)
(* is 0.                                                                   *)
Init ==
    /\ collateralizationRate \in CollateralRates \ {0}
    /\ liquidationCollateralizationRate \in CollateralRates \ {0}
    /\ collateralizationRate < liquidationCollateralizationRate
    /\ minLiquidatorReward = FEE_PRECISION - 2
    /\ maxLiquidatorReward = FEE_PRECISION - 1
    /\ liquidationBonusAmount = 1
    /\ liquidationMultiplier = 1
    /\ protocolFee = 1
    /\ maxLiquidationSlippage = 0
    /\ borrowOpeningFee = 0
    /\ minimumTargetUtilization = 3 /\ maximumTargetUtilization = 5
    /\ minimumInterestPerSecond = 8 /\ maximumInterestPerSecond = 0
    /\ startingInterestPerSecond = minimumInterestPerSecond
    /\ interestElasticity = 10
    /\ interestHelper = FALSE
    /\ interestPerSecond = startingInterestPerSecond
    /\ elapsed = 0 /\ utilization = 0 /\ borrowed = FALSE

-----------------------------------------------------------------------------
(* _accrue: of the interest rate's parameters it uses the ones in force.   *)
ChargeInterestOfLoans == \* mutant: without loans the accrual is not even recorded
    /\ elapsed' = IF borrowed THEN 0 ELSE elapsed
    /\ interestPerSecond' =
          IF elapsed = 0 \/ ~borrowed THEN interestPerSecond
          ELSE Interest!NextRate(interestPerSecond, utilization, elapsed)
ChargeInterest ==
    /\ elapsed' = 0
    /\ interestPerSecond' =
          IF elapsed = 0 THEN interestPerSecond
          ELSE IF ~borrowed THEN startingInterestPerSecond
          ELSE Interest!NextRate(interestPerSecond, utilization, elapsed)

(* A handler of the market, which accrues first and may change its         *)
(* utilization.                                                            *)
UseMarket(u) ==
    /\ interestHelper
    /\ ChargeInterest
    /\ utilization' = u
    /\ borrowed' = (u > 0)
    /\ UNCHANGED <<configVars, borrowOpeningFee, interestVars, interestHelper>>

(* setSingularityConfig: the helper is set first, then the interest is     *)
(* charged, then each value is checked against those set before it.        *)
SetTargets(minTarget, maxTarget) ==
    /\ minimumTargetUtilization' = Updated(minTarget, minimumTargetUtilization)
    /\ maxTarget < UTILIZATION_PRECISION
    /\ maximumTargetUtilization' = Updated(maxTarget, maximumTargetUtilization)

SetBounds(min, max) ==
    /\ min > 0 => min < maximumInterestPerSecond
    /\ minimumInterestPerSecond' = Updated(min, minimumInterestPerSecond)
    /\ max > 0 => max > minimumInterestPerSecond'
    /\ maximumInterestPerSecond' = Updated(max, maximumInterestPerSecond)

SetSingularityConfig(fee, multiplier, minTarget, maxTarget, min, max, elasticity, helper) ==
    /\ interestHelper' = (interestHelper \/ helper)
    /\ interestHelper'
    /\ ChargeInterest
    /\ fee <= FEE_PRECISION
    /\ borrowOpeningFee' = fee
    /\ SetTargets(minTarget, maxTarget)
    /\ SetBounds(min, max)
    /\ interestElasticity' = Updated(elasticity, interestElasticity)
    /\ multiplier <= FEE_PRECISION
    /\ liquidationMultiplier' = Updated(multiplier, liquidationMultiplier)
    /\ UNCHANGED <<rateVars, rewardVars, liquidationBonusAmount, protocolFee,
                   maxLiquidationSlippage, startingInterestPerSecond, utilization, borrowed>>

Tick(time) ==
    /\ elapsed = 0
    /\ elapsed' = time
    /\ UNCHANGED <<configVars, borrowOpeningFee, interestVars, interestHelper,
                   interestPerSecond, utilization, borrowed>>

SetConfigStep ==
    \E fee \in OpeningFees, multiplier \in Multipliers, minTarget, maxTarget \in Targets,
       min, max \in InterestRates, elasticity \in Elasticities, helper \in BOOLEAN :
        SetSingularityConfig(fee, multiplier, minTarget, maxTarget, min, max, elasticity,
                             helper)

Next ==
    \/ MarketConfigStep
         /\ UNCHANGED <<borrowOpeningFee, interestVars, interestHelper, interestPerSecond,
                        elapsed, utilization, borrowed>>
    \/ \E u \in Utilizations : UseMarket(u)
    \/ SetConfigStep
    \/ \E time \in Times : Tick(time)

Spec == Init /\ [][Next]_vars

-----------------------------------------------------------------------------
(* Properties.                                                             *)

RateInBounds ==
    interestPerSecond \in minimumInterestPerSecond..maximumInterestPerSecond

(* Between two changes of its bounds, and while there are loans, a rate    *)
(* within the bounds stays within them, rises only above the target        *)
(* utilization and falls only below it (getInterestRate), even if the      *)
(* owner's targets overlap.                                                *)
RateFollowsTarget ==
    [][UNCHANGED boundVars /\ borrowed /\ RateInBounds =>
         /\ RateInBounds'
         /\ interestPerSecond' > interestPerSecond => utilization > maximumTargetUtilization
         /\ interestPerSecond' < interestPerSecond => utilization < minimumTargetUtilization]_vars

(* The parameters of the interest change only once it is charged at the    *)
(* old ones (setSingularityConfig), none of it is charged without a helper *)
(* to compute it, and bounds that are ordered stay so.                     *)
InterestChangesSafely ==
    [][/\ interestVars' # interestVars => elapsed' = 0
       /\ interestPerSecond' # interestPerSecond => interestHelper' /\ elapsed > 0
       /\ minimumInterestPerSecond < maximumInterestPerSecond
             => minimumInterestPerSecond' < maximumInterestPerSecond']_vars
=============================================================================
