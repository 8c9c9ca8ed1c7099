-------------------------- MODULE MCAdministration --------------------------
(***************************************************************************)
(* What the owner administers, on small instances: Penrose's registry, or  *)
(* the configuration of a BigBang market, or that of a Singularity market. *)
(* The three share no state, so that one of them is chosen to begin with   *)
(* and the others stand still.                                             *)
(***************************************************************************)
EXTENDS PenroseRegistry, Integers, TLC

CONSTANTS
    FEE_PRECISION, EXCHANGE_RATE_PRECISION, ShareRatio,
    CollateralRates, Rewards, Bonuses, Fees, Multipliers, Slippages,
    Shares, Parts, ExchangeRates,
    DEBT_PRECISION, RATE_PRECISION, isMainMarket, DebtRates, DebtShares, MintFees,
    Prices, DebtAmounts,
    UTILIZATION_PRECISION, OpeningFees, InterestRates, Targets, Elasticities,
    Utilizations, Times, SingularityRates, SingularityMultipliers

ASSUME AdministrationAssumption ==
    /\ FEE_PRECISION \in Nat \ {0, 1}
    /\ EXCHANGE_RATE_PRECISION \in Nat \ {0}
    /\ EXCHANGE_RATE_PRECISION \div FEE_PRECISION \in Nat \ {0}
    /\ EXCHANGE_RATE_PRECISION =
          FEE_PRECISION * (EXCHANGE_RATE_PRECISION \div FEE_PRECISION)
    /\ ShareRatio \in Nat \ {0}
    /\ DEBT_PRECISION \in Nat \ {0} /\ RATE_PRECISION \in Nat \ {0}
    /\ UTILIZATION_PRECISION \in Nat \ 0..5 \* above the target that init sets
    /\ isMainMarket \in BOOLEAN

(* What the owner passes are unsigned integers, and no oracle's rate is 0. *)
ASSUME InputsAssumption ==
    /\ CollateralRates \subseteq Nat /\ SingularityRates \subseteq Nat
    /\ Rewards \subseteq Nat /\ Bonuses \subseteq Nat
    /\ Multipliers \subseteq Nat /\ SingularityMultipliers \subseteq Nat
    /\ Slippages \subseteq Nat /\ Fees \subseteq Nat /\ OpeningFees \subseteq Nat
    /\ Shares \subseteq Nat /\ Parts \subseteq Nat /\ ExchangeRates \subseteq Nat \ {0}
    /\ DebtRates \subseteq Nat /\ DebtShares \subseteq Nat /\ DebtAmounts \subseteq Nat
    /\ MintFees \subseteq Nat /\ Prices \subseteq Nat
    /\ InterestRates \subseteq Nat /\ Targets \subseteq Nat /\ Elasticities \subseteq Nat
    /\ Utilizations \subseteq Nat /\ Times \subseteq Nat

VARIABLES
    collateralizationRate, liquidationCollateralizationRate,
    minLiquidatorReward, maxLiquidatorReward,
    liquidationBonusAmount, liquidationMultiplier,
    protocolFee, maxLiquidationSlippage,
    minMintFee, maxMintFee, minMintFeeStart, maxMintFeeStart,
    minDebtRate, maxDebtRate, debtRateAgainstEthMarket, accrued,
    borrowOpeningFee, minimumTargetUtilization, maximumTargetUtilization,
    minimumInterestPerSecond, maximumInterestPerSecond, startingInterestPerSecond,
    interestElasticity, interestHelper, interestPerSecond, elapsed, utilization, borrowed,
    administered   \* "registry", "BigBang" or "Singularity"

BB  == INSTANCE BigBangConfig
SGL == INSTANCE SingularityConfig WITH
          CollateralRates <- SingularityRates, Multipliers <- SingularityMultipliers

marketConfig ==
    <<collateralizationRate, liquidationCollateralizationRate, minLiquidatorReward,
      maxLiquidatorReward, liquidationBonusAmount, liquidationMultiplier, protocolFee,
      maxLiquidationSlippage>>
bigBangConfig ==
    <<minMintFee, maxMintFee, minMintFeeStart, maxMintFeeStart, minDebtRate, maxDebtRate,
      debtRateAgainstEthMarket, accrued>>
singularityConfig ==
    <<borrowOpeningFee, minimumTargetUtilization, maximumTargetUtilization,
      minimumInterestPerSecond, maximumInterestPerSecond, startingInterestPerSecond,
      interestElasticity, interestHelper, interestPerSecond, elapsed, utilization,
      borrowed>>
adminVars == <<vars, marketConfig, bigBangConfig, singularityConfig, administered>>

(* The storage of markets that are not there.                              *)
NoMarketConfig ==
    /\ collateralizationRate = 0 /\ liquidationCollateralizationRate = 0
    /\ minLiquidatorReward = 0 /\ maxLiquidatorReward = 0
    /\ liquidationBonusAmount = 0 /\ liquidationMultiplier = 0
    /\ protocolFee = 0 /\ maxLiquidationSlippage = 0
NoBigBang ==
    /\ minMintFee = 0 /\ maxMintFee = 0 /\ minMintFeeStart = 0 /\ maxMintFeeStart = 0
    /\ minDebtRate = 0 /\ maxDebtRate = 0 /\ debtRateAgainstEthMarket = 0
    /\ accrued = TRUE
NoSingularity ==
    /\ borrowOpeningFee = 0
    /\ minimumTargetUtilization = 0 /\ maximumTargetUtilization = 0
    /\ minimumInterestPerSecond = 0 /\ maximumInterestPerSecond = 0
    /\ startingInterestPerSecond = 0 /\ interestElasticity = 0
    /\ interestHelper = FALSE /\ interestPerSecond = 0
    /\ elapsed = 0 /\ utilization = 0 /\ borrowed = FALSE

AdminInit ==
    /\ Init
    /\ \/ administered = "registry" /\ NoMarketConfig /\ NoBigBang /\ NoSingularity
       \/ administered = "BigBang" /\ BB!Init /\ NoSingularity
       \/ administered = "Singularity" /\ SGL!Init /\ NoBigBang

AdministerRegistry ==
    /\ administered = "registry"
    /\ Next
    /\ UNCHANGED <<marketConfig, bigBangConfig, singularityConfig, administered>>

ConfigureBigBang ==
    /\ administered = "BigBang"
    /\ BB!Next
    /\ UNCHANGED <<vars, singularityConfig, administered>>

ConfigureSingularity ==
    /\ administered = "Singularity"
    /\ SGL!Next
    /\ UNCHANGED <<vars, bigBangConfig, administered>>

AdminNext == AdministerRegistry \/ ConfigureBigBang \/ ConfigureSingularity

AdminSpec == AdminInit /\ [][AdminNext]_adminVars

Symmetry == Permutations(BigBangs) \cup Permutations(BigBangMasters)
-----------------------------------------------------------------------------
(* Healthy positions cannot be liquidated, however a market is configured  *)
(* (setMarketConfig checks each rate against the other).                   *)
SolventNotLiquidatable ==
    /\ administered = "BigBang" => BB!SolventNotLiquidatable
    /\ administered = "Singularity" => SGL!SolventNotLiquidatable

(* No position that may still borrow can be written off as bad debt, under *)
(* the configurations that setMarketConfig accepts as a whole.             *)
SolventIsNotBadDebt ==
    /\ administered = "BigBang" => BB!SolventIsNotBadDebt
    /\ administered = "Singularity" => SGL!SolventIsNotBadDebt

(* Opening fees and debt rates stay between their bounds and move the      *)
(* right way with the price and the debt (computeVariableOpeningFee,       *)
(* getDebtRate), however the bounds were set.                              *)
RatesInRange == administered = "BigBang" => BB!RatesInRange

(* Debt rates change only after interest is charged at the old ones, and   *)
(* bounds once in order stay in order (setBigBangConfig).                  *)
DebtRatesChangeSafely == BB!DebtRatesChangeSafely

(* The interest rate of a Singularity market rises only above its target   *)
(* of utilization and falls only below it, within its bounds               *)
(* (getInterestRate).                                                      *)
RateFollowsTarget == SGL!RateFollowsTarget

(* The parameters of the interest change only once it is charged, and the  *)
(* rate only when time passed and a helper is set (setSingularityConfig).  *)
InterestChangesSafely == SGL!InterestChangesSafely
=============================================================================
