----------------------------- MODULE Singularity ----------------------------
(***************************************************************************)
(* One Singularity market (src/contracts/markets/singularity): lenders     *)
(* deposit an asset for fractions of the pool, borrowers lock collateral   *)
(* and borrow from it, and the interest rate follows the utilization.      *)
(*                                                                         *)
(* totalAsset.elastic counts the YieldBox shares of the asset the pool has *)
(* not lent, totalAsset.base the fractions lenders hold.  As in BigBang,   *)
(* one transaction is one action, callers act for themselves, and what is  *)
(* in their wallets is outside.  The age of the cached rate, which no      *)
(* handler reads, is left to BigBang.                                      *)
(***************************************************************************)
EXTENDS Market, SGLInterest, FiniteSets, Functions

CONSTANTS
    Lenders,            \* accounts that may hold fractions of the pool
    Penrose,            \* and the one that holds the protocol's
    Borrowers,          \* accounts that may hold a position
    AssetShareRatio,    \* YieldBox shares per unit of the asset
    MinFraction,        \* 1000: the fewest fractions a used pool has
    INTEREST_PRECISION, \* 1e18: interestPerSecond is a fraction of it
    startingInterestPerSecond, \* the rate of a market without loans, which no
                        \* setter changes: the bounds may exclude it
    protocolFee,        \* Penrose's share of the interest
    borrowOpeningFee,   \* and of a loan
    totalBorrowCap,     \* 0: no cap
    MaxUint128,
    LeverageExecutorSet,\* address(leverageExecutor) != address(0)
    MaxTime, MaxAssets, MaxCollateral, \* bounds: the clock, the shares held
    AssetShares, Fractions, Shares, Amounts, Parts, \* what callers ask for
    Transfers,          \* shares sent to the market directly
    Rates,              \* exchange rates the oracle may report
    Bonuses,            \* minimum liquidation bonuses liquidators ask for
    Pausable            \* the options the conservator may pause

PauseType == {"Borrow", "Repay", "AddCollateral", "RemoveCollateral", "Liquidation",
              "LeverageBuy", "LeverageSell", "AddAsset", "RemoveAsset"}

Holders == Lenders \cup {Penrose}

ASSUME AccountsAssumption == IsFiniteSet(Lenders) /\ IsFiniteSet(Borrowers)

ASSUME SingularityAssumption ==
    /\ Penrose \notin Lenders
    /\ AssetShareRatio \in Nat \ {0}
    /\ MinFraction \in Nat \ {0}
    /\ INTEREST_PRECISION \in Nat \ {0}
    /\ UTILIZATION_PRECISION \in Nat \ {0}
    /\ minimumTargetUtilization \in Nat
    /\ maximumTargetUtilization \in 0..(UTILIZATION_PRECISION - 1)
    /\ minimumInterestPerSecond \in Nat
    /\ maximumInterestPerSecond \in Nat
    /\ startingInterestPerSecond \in Nat
    /\ interestElasticity \in Nat \ {0}
    /\ protocolFee \in 0..FEE_PRECISION /\ borrowOpeningFee \in 0..FEE_PRECISION
    /\ totalBorrowCap \in Nat /\ MaxUint128 \in Nat
    /\ LeverageExecutorSet \in BOOLEAN
    /\ MaxTime \in Nat /\ MaxAssets \in Nat /\ MaxCollateral \in Nat
    /\ AssetShares \subseteq Nat /\ Fractions \subseteq Nat
    /\ Shares \subseteq Nat /\ Amounts \subseteq Nat /\ Parts \subseteq Nat
    /\ Transfers \subseteq Nat /\ Bonuses \subseteq Nat
    /\ Rates \subseteq Nat \ {0}
    /\ Pausable \subseteq PauseType

VARIABLES
    now,                 \* block.timestamp
    lastAccrued,         \* accrueInfo.lastAccrued
    interestPerSecond,   \* accrueInfo.interestPerSecond
    feesEarnedFraction,  \* accrueInfo.feesEarnedFraction: fractions not yet Penrose's
    exchangeRate,        \* the cached oracle rate
    totalAsset,          \* the pool: a Rebase of shares not lent and fractions
    balanceOf,           \* the fractions of each holder
    totalBorrow,         \* the debt: a Rebase of units of asset and parts
    userBorrowPart,      \* the parts of it each borrower owes
    userCollateralShare, \* each borrower's collateral
    totalCollateralShare,
    ybAsset,             \* asset shares YieldBox holds for the market
    ybCollateral,        \* collateral shares YieldBox holds for it
    pauseOptions         \* the options that are paused

accrueVars     == <<lastAccrued, interestPerSecond, feesEarnedFraction>>
assetVars      == <<totalAsset, balanceOf, ybAsset>>
debtVars       == <<totalBorrow, userBorrowPart>>
collateralVars == <<userCollateralShare, totalCollateralShare, ybCollateral>>
vars == <<now, accrueVars, exchangeRate, assetVars, debtVars, collateralVars,
          pauseOptions>>

(* Among the types: the interest rate exceeds its bounds and where it      *)
(* starts at no utilization (getInterestRate).                             *)
TypeOK ==
    /\ now \in 0..MaxTime
    /\ lastAccrued \in 0..now
    /\ interestPerSecond \in Nat
    /\ \E most \in {startingInterestPerSecond, minimumInterestPerSecond,
                    maximumInterestPerSecond} : interestPerSecond <= most
    /\ feesEarnedFraction \in Nat
    /\ exchangeRate \in Rates
    /\ totalAsset \in [elastic : Nat, base : Nat]
    /\ balanceOf \in [Holders -> Nat]
    /\ totalBorrow \in [elastic : 0..MaxUint128, base : 0..MaxUint128]
    /\ userBorrowPart \in [Borrowers -> Nat]
    /\ userCollateralShare \in [Borrowers -> Nat]
    /\ totalCollateralShare \in Nat
    /\ ybAsset \in Nat
    /\ ybCollateral \in Nat
    /\ pauseOptions \subseteq PauseType

Init ==
    /\ now = 0 /\ lastAccrued = 0
    /\ interestPerSecond = startingInterestPerSecond
    /\ feesEarnedFraction = 0
    /\ exchangeRate \in Rates
    /\ totalAsset = ZeroRebase
    /\ balanceOf = [h \in Holders |-> 0]
    /\ totalBorrow = ZeroRebase
    /\ userBorrowPart = [u \in Borrowers |-> 0]
    /\ userCollateralShare = [u \in Borrowers |-> 0]
    /\ totalCollateralShare = 0
    /\ ybAsset = 0 /\ ybCollateral = 0
    /\ pauseOptions = {}

-----------------------------------------------------------------------------
(* The value of the pool ta that has lent tb, in units and in shares.      *)
FullAssetAmount(ta, tb) == ToAmount(AssetShareRatio, ta.elastic) + tb.elastic
AllShare(ta, tb) == ta.elastic + ToShare(AssetShareRatio, tb.elastic)

Utilization(ta, tb) ==
    IF FullAssetAmount(ta, tb) = 0 THEN 0
    ELSE (tb.elastic * UTILIZATION_PRECISION) \div FullAssetAmount(ta, tb)

-----------------------------------------------------------------------------
(* Accrual, SGLInterestHelper.getInterestRate.                             *)

Elapsed == now - lastAccrued

(* Nothing is charged twice in an instant, or when no one owes anything.   *)
NothingDue == Elapsed = 0 \/ totalBorrow.base = 0

Interest ==
    IF NothingDue THEN 0
    ELSE (totalBorrow.elastic * interestPerSecond * Elapsed) \div INTEREST_PRECISION

AccruedBorrow ==
    [elastic |-> totalBorrow.elastic + Interest, base |-> totalBorrow.base]

(* Penrose's part of the interest, as new fractions: they are priced so    *)
(* that the other lenders keep the rest of it.                             *)
InterestFee == (Interest * protocolFee) \div FEE_PRECISION
InterestFeeFraction ==
    IF NothingDue THEN 0
    ELSE (InterestFee * totalAsset.base)
            \div (FullAssetAmount(totalAsset, AccruedBorrow) - InterestFee)

AccruedAsset ==
    [elastic |-> totalAsset.elastic, base |-> totalAsset.base + InterestFeeFraction]

(* The next rate.                                                          *)
AccruedRate ==
    IF Elapsed = 0 THEN interestPerSecond
    ELSE IF totalBorrow.base = 0 THEN startingInterestPerSecond
    ELSE NextRate(interestPerSecond, Utilization(AccruedAsset, AccruedBorrow), Elapsed)

(* _accrue, which reverts when the debt would not fit: what it does to     *)
(* accrueInfo.  Handlers go on from AccruedBorrow and AccruedAsset.        *)
ChargeInterest ==
    /\ AccruedBorrow.elastic <= MaxUint128
    /\ lastAccrued' = now
    /\ interestPerSecond' = AccruedRate
    /\ feesEarnedFraction' = feesEarnedFraction + InterestFeeFraction

-----------------------------------------------------------------------------
(* Steps that handlers share.                                              *)

NotPaused(type) == type \notin pauseOptions

RateOrCached(rate) == IF rate = 0 THEN exchangeRate ELSE rate

Solvent(cr, u, tb, rate) ==
    IsSolvent(cr, userCollateralShare[u], userBorrowPart[u], tb, rate)

(* The `solvent(from)` modifier's check, at the end of the handler.        *)
SolventBefore(u) == \* mutant: checked before the handler's body
    Solvent(collateralizationRate, u, totalBorrow, exchangeRate)
SolventAfter(u) ==
    Solvent(collateralizationRate, u, totalBorrow, exchangeRate)'

(* MinLimit: how many fractions a pool that is used must have.             *)
EnoughFractionsButOne(base) == base + 1 >= MinFraction \* mutant: off by one
EnoughFractions(base) == base >= MinFraction

(* _addTokens for the asset: shares come from a YieldBox account, or are   *)
(* found in excess of the `total` the market accounts for.                 *)
ReceiveAssetSkimAll(share, total, skim) == \* mutant: skims the pool itself
    /\ IF skim THEN share <= ybAsset /\ UNCHANGED ybAsset
               ELSE ybAsset' = ybAsset + share
    /\ ybAsset' <= MaxAssets
ReceiveAsset(share, total, skim) ==
    /\ IF skim THEN /\ total <= ybAsset /\ share <= ybAsset - total
                    /\ UNCHANGED ybAsset
               ELSE ybAsset' = ybAsset + share
    /\ ybAsset' <= MaxAssets

(* _removeAsset, from the pool ta that has lent tb and the balances bal:   *)
(* no lender may leave the pool with fewer than MinFraction fractions.     *)
RemoveAssetCore(ta, tb, bal, from, fraction) ==
    LET share == (fraction * AllShare(ta, tb)) \div ta.base
    IN  \/ /\ ta.base = 0
           /\ totalAsset' = ta /\ balanceOf' = bal
           /\ UNCHANGED ybAsset
        \/ /\ ta.base # 0
           /\ EnoughFractions(ta.base - fraction)
           /\ fraction <= bal[from]
           /\ share <= ta.elastic
           /\ share <= ybAsset
           /\ totalAsset' = [elastic |-> ta.elastic - share, base |-> ta.base - fraction]
           /\ balanceOf' = [bal EXCEPT ![from] = @ - fraction]
           /\ ybAsset' = ybAsset - share

(* _borrow, from the accrued pool and debt: the pool lends the loan, and   *)
(* the opening fee is debt that Penrose receives fractions for.            *)
BorrowCoreUnlimited(u, ta, tb, amount) == \* mutant: the liquidity not checked
    LET owed  == RebaseAddUp(tb, amount)
    IN  /\ EnoughFractions(ta.base)
        /\ owed.elastic <= MaxUint128
        /\ totalBorrow' = owed
        /\ userBorrowPart' = [userBorrowPart EXCEPT ![u] = @ + ToBaseUp(tb, amount)]
        /\ UNCHANGED balanceOf
        /\ totalAsset' = [ta EXCEPT !.elastic = IF @ > amount THEN @ - amount ELSE 0]
        /\ ybAsset' = ybAsset - ToShare(AssetShareRatio, amount)
BorrowCore(u, ta, tb, amount) ==
    LET share == ToShare(AssetShareRatio, amount)
        fee   == (amount * borrowOpeningFee) \div FEE_PRECISION
        owed  == RebaseAddUp(tb, amount + fee)
        feeFraction == IF fee = 0 THEN 0
                       ELSE (fee * ta.base) \div FullAssetAmount(ta, tb)
    IN  /\ EnoughFractions(ta.base)
        /\ share <= ta.elastic
        /\ share <= ybAsset
        /\ owed.elastic <= MaxUint128 /\ owed.base <= MaxUint128
        /\ totalBorrowCap > 0 => owed.elastic <= totalBorrowCap
        /\ totalBorrow' = owed
        /\ userBorrowPart' = [userBorrowPart EXCEPT ![u] = @ + ToBaseUp(tb, amount + fee)]
        /\ balanceOf' = [balanceOf EXCEPT ![Penrose] = @ + feeFraction]
        /\ totalAsset' = [elastic |-> ta.elastic - share, base |-> ta.base + feeFraction]
        /\ ybAsset' = ybAsset - share

(* _repay: the part is limited to what the user owes.                      *)
RepayCore(u, ta, tb, requested, skim) ==
    LET part  == Least(requested, userBorrowPart[u])
        owed  == RebaseSubUp(tb, part)
        share == ToShare(AssetShareRatio, ToElasticUp(tb, part))
    IN  /\ part # 0
        /\ NonNegative(owed)
        /\ ReceiveAsset(share, ta.elastic, skim)
        /\ totalBorrow' = owed
        /\ userBorrowPart' = [userBorrowPart EXCEPT ![u] = @ - part]
        /\ totalAsset' = [ta EXCEPT !.elastic = @ + share]
        /\ UNCHANGED balanceOf

(* _removeCollateral, to anyone.                                           *)
RemoveCollateralCore(from, share) ==
    /\ share <= userCollateralShare[from]
    /\ share <= totalCollateralShare
    /\ share <= ybCollateral
    /\ userCollateralShare' = [userCollateralShare EXCEPT ![from] = @ - share]
    /\ totalCollateralShare' = totalCollateralShare - share
    /\ ybCollateral' = ybCollateral - share

-----------------------------------------------------------------------------
(* Lenders' operations.                                                    *)

(* accrue(), open to anyone unless collateral operations are paused.       *)
Accrue ==
    /\ NotPaused("AddCollateral") /\ NotPaused("RemoveCollateral")
    /\ ChargeInterest
    /\ totalBorrow' = AccruedBorrow /\ totalAsset' = AccruedAsset
    /\ UNCHANGED <<now, exchangeRate, balanceOf, ybAsset, userBorrowPart,
                   collateralVars, pauseOptions>>

(* addAsset does nothing but accrue for a deposit that would leave a pool  *)
(* of fewer than MinFraction fractions.                                    *)
FractionForRoundedUp(share) == \* mutant: the wrong rounding
    LET all == AllShare(AccruedAsset, AccruedBorrow)
    IN  IF all = 0 THEN share ELSE CeilDiv(share * AccruedAsset.base, all)
FractionFor(share) ==
    LET all == AllShare(AccruedAsset, AccruedBorrow)
    IN  IF all = 0 THEN share ELSE (share * AccruedAsset.base) \div all

AddAsset(to, share, skim) ==
    LET fraction == FractionFor(share)
    IN  /\ NotPaused("AddAsset")
        /\ ChargeInterest
        /\ totalBorrow' = AccruedBorrow
        /\ \/ /\ ~EnoughFractions(AccruedAsset.base + fraction)
              /\ totalAsset' = AccruedAsset
              /\ UNCHANGED <<balanceOf, ybAsset>>
           \/ /\ EnoughFractions(AccruedAsset.base + fraction)
              /\ totalAsset' = [elastic |-> totalAsset.elastic + share,
                                base    |-> AccruedAsset.base + fraction]
              /\ balanceOf' = [balanceOf EXCEPT ![to] = @ + fraction]
              /\ ReceiveAsset(share, totalAsset.elastic, skim)
        /\ UNCHANGED <<now, exchangeRate, userBorrowPart, collateralVars, pauseOptions>>

RemoveAsset(from, fraction) ==
    /\ NotPaused("RemoveAsset")
    /\ ChargeInterest
    /\ totalBorrow' = AccruedBorrow
    /\ RemoveAssetCore(AccruedAsset, AccruedBorrow, balanceOf, from, fraction)
    /\ UNCHANGED <<now, exchangeRate, userBorrowPart, collateralVars, pauseOptions>>

(* MarketERC20.transfer: fractions are a token.                            *)
TransferFraction(from, to, amount) ==
    /\ from # to
    /\ amount <= balanceOf[from]
    /\ balanceOf' = [balanceOf EXCEPT ![from] = @ - amount, ![to] = @ + amount]
    /\ UNCHANGED <<now, accrueVars, exchangeRate, totalAsset, ybAsset, debtVars,
                   collateralVars, pauseOptions>>

(* YieldBox transfers to the market, which may be skimmed.                 *)
TransferToMarket(assetShare, collateralShare) ==
    /\ ybAsset + assetShare <= MaxAssets
    /\ ybCollateral + collateralShare <= MaxCollateral
    /\ ybAsset' = ybAsset + assetShare
    /\ ybCollateral' = ybCollateral + collateralShare
    /\ UNCHANGED <<now, accrueVars, exchangeRate, totalAsset, balanceOf, debtVars,
                   userCollateralShare, totalCollateralShare, pauseOptions>>

-----------------------------------------------------------------------------
(* Borrowers' operations.                                                  *)

UpdateExchangeRate(rate) ==
    /\ exchangeRate' = rate
    /\ UNCHANGED <<now, accrueVars, assetVars, debtVars, collateralVars, pauseOptions>>

AddCollateral(to, share, skim) ==
    /\ NotPaused("AddCollateral")
    /\ userCollateralShare' = [userCollateralShare EXCEPT ![to] = @ + share]
    /\ totalCollateralShare' = totalCollateralShare + share
    /\ IF skim
       THEN /\ totalCollateralShare <= ybCollateral
            /\ share <= ybCollateral - totalCollateralShare
            /\ UNCHANGED ybCollateral
       ELSE ybCollateral' = ybCollateral + share
    /\ ybCollateral' <= MaxCollateral
    /\ UNCHANGED <<now, accrueVars, exchangeRate, assetVars, debtVars, pauseOptions>>

RemoveCollateral(from, share, rate) ==
    /\ NotPaused("RemoveCollateral")
    /\ exchangeRate' = rate
    /\ ChargeInterest
    /\ totalBorrow' = AccruedBorrow /\ totalAsset' = AccruedAsset
    /\ RemoveCollateralCore(from, share)
    /\ UNCHANGED <<now, balanceOf, ybAsset, userBorrowPart, pauseOptions>>
    /\ SolventAfter(from)

Borrow(from, amount, rate) ==
    /\ NotPaused("Borrow")
    /\ exchangeRate' = rate
    /\ ChargeInterest
    /\ \/ /\ amount = 0
          /\ totalBorrow' = AccruedBorrow /\ totalAsset' = AccruedAsset
          /\ UNCHANGED <<balanceOf, ybAsset, userBorrowPart>>
       \/ amount > 0 /\ BorrowCore(from, AccruedAsset, AccruedBorrow, amount)
    /\ UNCHANGED <<now, collateralVars, pauseOptions>>
    /\ SolventAfter(from)

Repay(to, part, skim, rate) ==
    /\ NotPaused("Repay")
    /\ exchangeRate' = RateOrCached(rate)
    /\ ChargeInterest
    /\ RepayCore(to, AccruedAsset, AccruedBorrow, part, skim)
    /\ UNCHANGED <<now, collateralVars, pauseOptions>>

(* Lever up: the loan, with the user's own asset, buys amountOut units of  *)
(* collateral.  They are deposited in the user's YieldBox account, and     *)
(* _addTokens is skipped: the market's holding does not change.            *)
BuyCollateral(from, borrowAmount, rate, amountOut) ==
    LET share == ToShare(ShareRatio, amountOut)
    IN  /\ NotPaused("LeverageBuy")
        /\ LeverageExecutorSet
        /\ share > 0
        /\ exchangeRate' = rate
        /\ ChargeInterest
        /\ BorrowCore(from, AccruedAsset, AccruedBorrow, borrowAmount)
        /\ userCollateralShare' = [userCollateralShare EXCEPT ![from] = @ + share]
        /\ totalCollateralShare' = totalCollateralShare + share
        /\ totalCollateralShare' <= MaxCollateral
        /\ UNCHANGED <<now, ybCollateral, pauseOptions>>
        /\ SolventAfter(from)

(* Lever down: collateral is sold for amountOut units of the asset, which  *)
(* repay as much of the debt as they cover; the rest is the user's.        *)
SellCollateral(from, share, rate, amountOut) ==
    LET owed == ToElasticUp(AccruedBorrow, userBorrowPart[from])
    IN  /\ NotPaused("LeverageSell")
        /\ LeverageExecutorSet
        /\ amountOut > 0
        /\ exchangeRate' = rate
        /\ ChargeInterest
        /\ RemoveCollateralCore(from, share)
        /\ RepayCore(from, AccruedAsset, AccruedBorrow,
                     IF owed <= amountOut THEN userBorrowPart[from]
                     ELSE ToBaseDown(AccruedBorrow, amountOut), FALSE)
        /\ UNCHANGED <<now, pauseOptions>>
        /\ SolventAfter(from)

-----------------------------------------------------------------------------
(* Liquidation of one position; liquidate() with several users is a run of *)
(* these at one instant.  The receiver of the collateral returns           *)
(* `returned` units of asset: the debt goes back to the pool, and what is  *)
(* left is the liquidator's reward and Penrose's fee, which stays in the   *)
(* pool against new fractions.                                             *)
FeeFractionFreshlyPriced(fee, ta, tb) == \* mutant: priced before the repayment
    IF fee = 0 THEN 0
    ELSE (ToAmountUp(AssetShareRatio, fee) * ta.base) \div (tb.elastic + 1)
LiquidationFeeFraction(fee, ta, tb) ==
    IF fee = 0 THEN 0
    ELSE (ToAmount(AssetShareRatio, fee) * ta.base) \div FullAssetAmount(ta, tb)

Liquidate(user, maxBorrowPart, minLiquidationBonus, answer, returned) ==
    LET rate   == RateOrCached(answer)
        tb     == AccruedBorrow
        coll   == userCollateralShare[user]
        part   == userBorrowPart[user]
        amount == LiquidatedAmount(coll, part, tb, rate, maxBorrowPart)
        repaid == LiquidatedPart(part, tb, amount)
        share  == LiquidatedShare(coll, rate, amount)
        owed   == [elastic |-> tb.elastic - amount, base |-> tb.base - repaid]
        sold   == ToShare(ShareRatio, ToAmount(ShareRatio, share))
        pool   == [AccruedAsset EXCEPT !.elastic =
                      @ + ToShare(AssetShareRatio, amount)]
        extra  == ToShare(AssetShareRatio, returned - amount)
        fee    == extra - (extra * CallerReward(coll, part, tb, rate)) \div FEE_PRECISION
        feeFraction == LiquidationFeeFraction(fee, pool, owed)
    IN  /\ NotPaused("Liquidation")
        /\ ~Solvent(liquidationCollateralizationRate, user, tb, rate)
        /\ MayLiquidate(coll, part, tb, rate, maxBorrowPart, minLiquidationBonus)
        /\ repaid <= part
        /\ NonNegative(owed)
        /\ sold <= ybCollateral
        /\ SwapSucceeds(share, rate, amount, returned)
        /\ exchangeRate' = rate
        /\ ChargeInterest
        /\ userBorrowPart' = [userBorrowPart EXCEPT ![user] = @ - repaid]
        /\ userCollateralShare' = [userCollateralShare EXCEPT ![user] = @ - share]
        /\ totalCollateralShare' =
              IF totalCollateralShare > share THEN totalCollateralShare - share ELSE 0
        /\ totalBorrow' = owed
        /\ ybCollateral' = ybCollateral - sold
        /\ totalAsset' = [elastic |-> pool.elastic + fee, base |-> pool.base + feeFraction]
        /\ balanceOf' = [balanceOf EXCEPT ![Penrose] = @ + feeFraction]
        /\ ybAsset' = ybAsset + ToShare(AssetShareRatio, amount) + fee
        /\ ybAsset' <= MaxAssets
        /\ UNCHANGED <<now, pauseOptions>>

(* liquidateBadDebt, by the owner: a position whose collateral could not   *)
(* pay a full liquidation is closed, and a whitelisted account pays its    *)
(* debt to the pool.                                                       *)
LiquidateBadDebt(user, answer) ==
    LET rate   == RateOrCached(answer)
        tb     == AccruedBorrow
        part   == userBorrowPart[user]
        coll   == userCollateralShare[user]
        amount == ToElasticUp(tb, part)
        owed   == [elastic |-> tb.elastic - amount, base |-> tb.base - part]
        sold   == ToShare(ShareRatio, ToAmount(ShareRatio, coll))
    IN  /\ RequiredCollateral(part, tb, rate) >= coll
        /\ NonNegative(owed)
        /\ coll <= totalCollateralShare
        /\ sold <= ybCollateral
        /\ exchangeRate' = rate
        /\ ChargeInterest
        /\ totalBorrow' = owed
        /\ userBorrowPart' = [userBorrowPart EXCEPT ![user] = 0]
        /\ userCollateralShare' = [userCollateralShare EXCEPT ![user] = 0]
        /\ totalCollateralShare' = totalCollateralShare - coll
        /\ ybCollateral' = ybCollateral - sold
        /\ totalAsset' = [AccruedAsset EXCEPT !.elastic =
                             @ + ToShare(AssetShareRatio, amount)]
        /\ ybAsset' = ybAsset + ToShare(AssetShareRatio, amount)
        /\ ybAsset' <= MaxAssets
        /\ UNCHANGED <<now, balanceOf, pauseOptions>>

-----------------------------------------------------------------------------
(* The owner's and the conservator's operations.                           *)

(* refreshPenroseFees: the fees earned become Penrose's fractions, and all *)
(* of its fractions are withdrawn.                                         *)
FeesKeptAfterRefresh == \* mutant: the fees earned are not reset
    LET fees == feesEarnedFraction + InterestFeeFraction
        bal  == [balanceOf EXCEPT ![Penrose] = @ + fees]
    IN  /\ feesEarnedFraction > 0
        /\ AccruedBorrow.elastic <= MaxUint128
        /\ lastAccrued' = now /\ interestPerSecond' = AccruedRate
        /\ feesEarnedFraction' = fees
        /\ totalBorrow' = AccruedBorrow
        /\ RemoveAssetCore(AccruedAsset, AccruedBorrow, bal, Penrose, bal[Penrose])
WithdrawFees ==
    LET bal == [balanceOf EXCEPT ![Penrose] =
                   @ + feesEarnedFraction + InterestFeeFraction]
    IN  /\ feesEarnedFraction > 0
        /\ AccruedBorrow.elastic <= MaxUint128
        /\ lastAccrued' = now /\ interestPerSecond' = AccruedRate
        /\ feesEarnedFraction' = 0
        /\ totalBorrow' = AccruedBorrow
        /\ RemoveAssetCore(AccruedAsset, AccruedBorrow, bal, Penrose, bal[Penrose])

RefreshPenroseFees ==
    /\ \/ WithdrawFees
       \/ /\ feesEarnedFraction = 0
          /\ RemoveAssetCore(totalAsset, totalBorrow, balanceOf, Penrose, balanceOf[Penrose])
          /\ UNCHANGED <<accrueVars, totalBorrow>>
    /\ UNCHANGED <<now, exchangeRate, userBorrowPart, collateralVars, pauseOptions>>

(* updatePause accrues when it pauses; when it unpauses it may forgive the *)
(* interest since the last accrual.                                        *)
UpdatePause(type, val, resetAccrueTimestamp) ==
    /\ val # (type \in pauseOptions)
    /\ \/ /\ val
          /\ pauseOptions' = pauseOptions \cup {type}
          /\ ChargeInterest
          /\ totalBorrow' = AccruedBorrow /\ totalAsset' = AccruedAsset
       \/ /\ ~val
          /\ pauseOptions' = pauseOptions \ {type}
          /\ lastAccrued' =
                IF resetAccrueTimestamp /\ type \notin {"AddCollateral", "RemoveCollateral"}
                THEN now ELSE lastAccrued
          /\ UNCHANGED <<interestPerSecond, feesEarnedFraction, totalBorrow, totalAsset>>
    /\ UNCHANGED <<now, exchangeRate, balanceOf, ybAsset, userBorrowPart, collateralVars>>

Tick ==
    /\ now < MaxTime
    /\ now' = now + 1
    /\ UNCHANGED <<accrueVars, exchangeRate, assetVars, debtVars, collateralVars,
                   pauseOptions>>

-----------------------------------------------------------------------------
OracleAnswers == Rates \cup {0}

LenderStep ==
    \/ Accrue
    \/ \E to \in Lenders, share \in AssetShares, skim \in BOOLEAN : AddAsset(to, share, skim)
    \/ \E from \in Lenders, fraction \in Fractions : RemoveAsset(from, fraction)
    \/ \E from, to \in Lenders, amount \in Fractions : TransferFraction(from, to, amount)
    \/ \E share \in Transfers : TransferToMarket(share, 0) \/ TransferToMarket(0, share)

BorrowerStep ==
    \/ \E rate \in Rates : UpdateExchangeRate(rate)
    \/ \E to \in Borrowers, share \in Shares, skim \in BOOLEAN :
          AddCollateral(to, share, skim)
    \/ \E from \in Borrowers, share \in Shares, rate \in Rates :
          RemoveCollateral(from, share, rate)
    \/ \E from \in Borrowers, amount \in Amounts, rate \in Rates :
          Borrow(from, amount, rate)
    \/ \E to \in Borrowers, part \in Parts, skim \in BOOLEAN, rate \in OracleAnswers :
          Repay(to, part, skim, rate)

LeverageStep ==
    \/ \E from \in Borrowers, amount, out \in Amounts, rate \in Rates :
          BuyCollateral(from, amount, rate, out)
    \/ \E from \in Borrowers, share \in Shares, rate \in Rates, out \in Amounts :
          SellCollateral(from, share, rate, out)

LiquidationStep ==
    \/ \E user \in Borrowers, max \in Parts, bonus \in Bonuses,
          rate \in OracleAnswers, returned \in Amounts :
          Liquidate(user, max, bonus, rate, returned)
    \/ \E user \in Borrowers, rate \in OracleAnswers : LiquidateBadDebt(user, rate)

GovernanceStep ==
    \/ RefreshPenroseFees
    \/ \E type \in Pausable, val, reset \in BOOLEAN : UpdatePause(type, val, reset)

Next == LenderStep \/ BorrowerStep \/ LeverageStep \/ LiquidationStep
          \/ GovernanceStep \/ Tick

Spec == Init /\ [][Next]_vars

-----------------------------------------------------------------------------
(* Properties.                                                             *)

(* The fractions held and the fees not yet withdrawn are the pool's, and   *)
(* the positions add up to the market's debt and collateral, whatever a    *)
(* liquidation saturates and whatever a fee withdrawal resets.             *)
HoldingsAddUp ==
    /\ SumFunction(balanceOf) + feesEarnedFraction = totalAsset.base
    /\ SumFunction(userBorrowPart) = totalBorrow.base
    /\ SumFunction(userCollateralShare) = totalCollateralShare

(* YieldBox holds for the market what lenders have not lent; skimming      *)
(* takes only what is in excess.                                           *)
AssetBacked == totalAsset.elastic <= ybAsset

(* A pool is empty or has at least MinFraction fractions, and it has some  *)
(* exactly if it is worth something: nothing is lent or left in it that no *)
(* lender owns, and none of them holds fractions of nothing, which a first *)
(* deposit (_addAsset prices it one to one) would pay for.                 *)
PoolShape ==
    /\ totalAsset.base = 0 \/ totalAsset.base >= MinFraction
    /\ totalAsset.base = 0 <=> AllShare(totalAsset, totalBorrow) = 0

(* What a fraction of the pool is worth never falls: not by a loan, a      *)
(* repayment, another lender's deposit or withdrawal, a fee minted to      *)
(* Penrose, a liquidation or the write-off of a bad debt; and a step that  *)
(* charges interest adds all of it to the pool but the protocol's fee.     *)
(* The fractions minted for a fee are priced by the pool's whole units     *)
(* (SGLLendingCommon:68), which leave out less than one unit of it: the    *)
(* only loss is the part of that unit the new fractions claim.             *)
FractionsNeverLoseValue ==
    [][LET charged == lastAccrued' # lastAccrued /\ pauseOptions \subseteq pauseOptions'
           earned == IF charged
                     THEN ToShare(AssetShareRatio, Interest - InterestFee) ELSE 0
           base == IF charged THEN AccruedAsset.base ELSE totalAsset.base
           minted == base - totalAsset.base
                       + (IF totalAsset'.base > base THEN totalAsset'.base - base ELSE 0)
       IN  (AllShare(totalAsset, totalBorrow) + earned) * totalAsset'.base
              <= AllShare(totalAsset, totalBorrow)' * totalAsset.base
                   + minted * (AssetShareRatio - 1)]_vars

(* The debt a part stands for grows by interest only.                      *)
DebtPerPartOnlyGrowsByInterest ==
    [][totalBorrow'.elastic * totalBorrow.base
         <= AccruedBorrow.elastic * totalBorrow'.base]_vars

(* A position becomes insolvent by time and by the oracle, never by an     *)
(* operation, whoever takes it.                                            *)
SolventStaysSolvent ==
    [][\A u \in Borrowers :
         Solvent(collateralizationRate, u, AccruedBorrow, exchangeRate')
           => Solvent(collateralizationRate, u, totalBorrow, exchangeRate)']_vars
=============================================================================
