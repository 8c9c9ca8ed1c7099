------------------------------- MODULE BigBang ------------------------------
(***************************************************************************)
(* One BigBang market (src/contracts/markets/bigBang): users lock          *)
(* collateral and borrow USDO, which the market mints and burns.           *)
(*                                                                         *)
(* The market modelled is the main (ETH) market of a deployment that has   *)
(* no other, so the debt rate is penrose.bigBangEthDebtRate and neither    *)
(* _accrue nor reAccrueBigBangMarkets has a sibling to accrue; module      *)
(* BigBangMarkets is about several markets.                                *)
(*                                                                         *)
(* One transaction is one action.  Callers act on their own positions:     *)
(* the allowance checks, which only a delegate meets, change nothing here. *)
(* Wallets are outside: what the model keeps of them is how much USDO      *)
(* circulates.                                                             *)
(***************************************************************************)
EXTENDS Market, MintFee, FiniteSets, Functions

CONSTANTS
    Users,              \* accounts that may hold a position
    DebtRatePerSecond,  \* penrose.bigBangEthDebtRate / 31557600
    RATE_PRECISION,     \* 1e18: the debt rate is a fraction of it
    rateValidDuration,  \* 24 hours
    MaxUint128,         \* totalBorrow is a pair of uint128
    totalBorrowCap,     \* 0: no cap
    LeverageExecutorSet,\* address(leverageExecutor) != address(0)
    ExternalUsdo,       \* USDO that circulates without a loan of this market
    MaxTime,            \* bound on the clock
    MaxCollateral,      \* bound on the collateral shares in the market
    Shares, Amounts, Parts, \* the inputs callers choose from
    Transfers,          \* collateral shares sent to the market directly
    Rates,              \* exchange rates the oracle may report
    AssetPrices,        \* prices of USDO its oracle may report, 0: it fails
    Bonuses,            \* minimum liquidation bonuses liquidators ask for
    Pausable            \* the options the conservator may pause

PauseType == {"Borrow", "Repay", "AddCollateral", "RemoveCollateral",
              "Liquidation", "LeverageBuy", "LeverageSell"}

ASSUME UsersAssumption == IsFiniteSet(Users)

ASSUME BigBangAssumption ==
    /\ DebtRatePerSecond \in Nat
    /\ RATE_PRECISION \in Nat \ {0}
    /\ rateValidDuration \in Nat
    /\ MaxUint128 \in Nat
    /\ totalBorrowCap \in Nat
    /\ LeverageExecutorSet \in BOOLEAN
    /\ minMintFee \in Nat /\ maxMintFee \in Nat /\ minMintFee < maxMintFee
    /\ maxMintFee <= FEE_PRECISION
    /\ minMintFeeStart \in Nat /\ maxMintFeeStart \in Nat
    /\ maxMintFeeStart < minMintFeeStart
    /\ ExternalUsdo \in Nat
    /\ MaxTime \in Nat /\ MaxCollateral \in Nat
    /\ Shares \subseteq Nat /\ Transfers \subseteq Nat
    /\ Amounts \subseteq Nat /\ Parts \subseteq Nat
    /\ Rates \subseteq Nat \ {0}
    /\ AssetPrices \subseteq Nat /\ Bonuses \subseteq Nat
    /\ Pausable \subseteq PauseType

VARIABLES
    now,                  \* block.timestamp
    lastAccrued,          \* accrueInfo.lastAccrued
    exchangeRate,         \* the cached oracle rate
    rateTimestamp,        \* when it was read
    totalBorrow,          \* the market's debt: a Rebase
    userBorrowPart,       \* the parts of it each user owes
    userCollateralShare,  \* each user's collateral
    totalCollateralShare,
    ybCollateral,         \* collateral shares YieldBox holds for the market
    usdoBalance,          \* USDO the market contract holds: fees to collect
    usdoSupply,           \* USDO in existence, ExternalUsdo included
    openInterestDebt,     \* interest charged and not yet minted
    pauseOptions,         \* the options that are paused
    penrosePaused         \* penrose.paused

clockVars      == <<now, lastAccrued>>
rateVars       == <<exchangeRate, rateTimestamp>>
debtVars       == <<totalBorrow, userBorrowPart>>
collateralVars == <<userCollateralShare, totalCollateralShare, ybCollateral>>
usdoVars       == <<usdoBalance, usdoSupply, openInterestDebt>>
pauseVars      == <<pauseOptions, penrosePaused>>
vars == <<clockVars, rateVars, debtVars, collateralVars, usdoVars, pauseVars>>

TypeOK ==
    /\ now \in 0..MaxTime
    /\ lastAccrued \in 0..now
    /\ exchangeRate \in Rates
    /\ rateTimestamp \in 0..now
    /\ totalBorrow \in [elastic : 0..MaxUint128, base : 0..MaxUint128]
    /\ userBorrowPart \in [Users -> Nat]
    /\ userCollateralShare \in [Users -> Nat]
    /\ totalCollateralShare \in Nat
    /\ ybCollateral \in Nat
    /\ usdoBalance \in Nat
    /\ usdoSupply \in Nat
    /\ openInterestDebt \in Nat
    /\ pauseOptions \subseteq PauseType
    /\ penrosePaused \in BOOLEAN

(* init reads the oracle once and fails unless it answers.                 *)
Init ==
    /\ now = 0 /\ lastAccrued = 0
    /\ exchangeRate \in Rates /\ rateTimestamp = 0
    /\ totalBorrow = ZeroRebase
    /\ userBorrowPart = [u \in Users |-> 0]
    /\ userCollateralShare = [u \in Users |-> 0]
    /\ totalCollateralShare = 0
    /\ ybCollateral = 0
    /\ usdoBalance = 0 /\ usdoSupply = ExternalUsdo /\ openInterestDebt = 0
    /\ pauseOptions = {} /\ penrosePaused = FALSE

-----------------------------------------------------------------------------
(* Steps that handlers share.                                              *)

NotPaused(type) == type \notin pauseOptions

(* _accrue: interest since lastAccrued, capped so that the debt stays a    *)
(* uint128, is owed by the borrowers and may later be minted by Penrose.   *)
InterestDue ==
    (totalBorrow.elastic * DebtRatePerSecond * (now - lastAccrued)) \div RATE_PRECISION
InterestUncapped == InterestDue \* mutant: no cap
Interest == Least(InterestDue, MaxUint128 - totalBorrow.elastic)

AccruedBorrow ==
    [elastic |-> totalBorrow.elastic + Interest, base |-> totalBorrow.base]

ChargeInterestUncapped == \* mutant: the cap applied to the debt only
    /\ lastAccrued' = now
    /\ openInterestDebt' = openInterestDebt + InterestDue
ChargeInterest ==
    /\ lastAccrued' = now
    /\ openInterestDebt' = openInterestDebt + Interest

(* updateExchangeRate, which reverts without a fresh answer: rate # 0.     *)
ReadOracle(rate) ==
    /\ exchangeRate' = rate
    /\ rateTimestamp' = now

(* _tryUpdateOracleRate, which falls back on the cached rate, however old: *)
(* rate is 0 when the oracle fails.                                        *)
RateOrCached(rate) == IF rate = 0 THEN exchangeRate ELSE rate
TryReadOracle(rate) == IF rate = 0 THEN UNCHANGED rateVars ELSE ReadOracle(rate)

Solvent(cr, u, tb, rate) ==
    IsSolvent(cr, userCollateralShare[u], userBorrowPart[u], tb, rate)

(* The `solvent(from)` modifier's check, at the end of the handler.        *)
SolventBefore(u) == \* mutant: checked before the handler's body
    Solvent(collateralizationRate, u, totalBorrow, exchangeRate)
SolventAfter(u) ==
    Solvent(collateralizationRate, u, totalBorrow, exchangeRate)'

(* USDO held outside the market contract.                                  *)
Circulating == usdoSupply - usdoBalance

(* The opening fee of a loan, while USDO trades at `price`.                *)
OpeningFee(amount, price) == (amount * OpeningFeeRate(price)) \div FEE_PRECISION

(* BBLendingCommon._borrow, from the debt tb: the loan and its opening fee *)
(* become debt, and only the loan is minted.                               *)
BorrowCoreNoFeePart(u, tb, amount, fee) == \* mutant: no parts for the fee
    LET owed == RebaseAddUp(tb, amount + fee)
    IN  /\ owed.elastic <= MaxUint128 /\ owed.base <= MaxUint128
        /\ totalBorrow' = owed
        /\ userBorrowPart' = [userBorrowPart EXCEPT ![u] = @ + ToBaseUp(tb, amount)]
        /\ usdoSupply' = usdoSupply + amount
BorrowCore(u, tb, amount, fee) ==
    LET owed == RebaseAddUp(tb, amount + fee)
    IN  /\ owed.elastic <= MaxUint128 /\ owed.base <= MaxUint128
        /\ totalBorrowCap > 0 => owed.elastic <= totalBorrowCap
        /\ totalBorrow' = owed
        /\ userBorrowPart' = [userBorrowPart EXCEPT ![u] = @ + ToBaseUp(tb, amount + fee)]
        /\ usdoSupply' = usdoSupply + amount

(* BBLendingCommon._repay, from the debt tb: the part is limited to what   *)
(* the user owes, and the USDO is taken from a wallet and burnt.           *)
RepayCoreRoundedDown(u, tb, requested) == \* mutant: burns the amount rounded down
    LET part == Least(requested, userBorrowPart[u])
        owed == RebaseSubUp(tb, part)
    IN  /\ part # 0
        /\ NonNegative(owed)
        /\ ToElasticDown(tb, part) <= Circulating
        /\ totalBorrow' = owed
        /\ userBorrowPart' = [userBorrowPart EXCEPT ![u] = @ - part]
        /\ usdoSupply' = usdoSupply - ToElasticDown(tb, part)
RepayCore(u, tb, requested) ==
    LET part == Least(requested, userBorrowPart[u])
        owed == RebaseSubUp(tb, part)
    IN  /\ part # 0
        /\ NonNegative(owed)
        /\ ToElasticUp(tb, part) <= Circulating
        /\ totalBorrow' = owed
        /\ userBorrowPart' = [userBorrowPart EXCEPT ![u] = @ - part]
        /\ usdoSupply' = usdoSupply - ToElasticUp(tb, part)

-----------------------------------------------------------------------------
(* Users' operations.                                                      *)

(* accrue(), open to anyone unless collateral operations are paused.       *)
Accrue ==
    /\ NotPaused("AddCollateral") /\ NotPaused("RemoveCollateral")
    /\ ChargeInterest
    /\ totalBorrow' = AccruedBorrow
    /\ UNCHANGED <<now, rateVars, userBorrowPart, collateralVars,
                   usdoBalance, usdoSupply, pauseVars>>

UpdateExchangeRate(rate) ==
    /\ ReadOracle(rate)
    /\ UNCHANGED <<clockVars, debtVars, collateralVars, usdoVars, pauseVars>>

(* A YieldBox transfer to the market, which addCollateral may skim.        *)
TransferToMarket(share) ==
    /\ ybCollateral + share <= MaxCollateral
    /\ ybCollateral' = ybCollateral + share
    /\ UNCHANGED <<clockVars, rateVars, debtVars, userCollateralShare,
                   totalCollateralShare, usdoVars, pauseVars>>

AddCollateralSkimAll(to, share, skim) == \* mutant: skims what others deposited
    /\ NotPaused("AddCollateral")
    /\ userCollateralShare' = [userCollateralShare EXCEPT ![to] = @ + share]
    /\ totalCollateralShare' = totalCollateralShare + share
    /\ IF skim THEN share <= ybCollateral /\ UNCHANGED ybCollateral
               ELSE ybCollateral' = ybCollateral + share
    /\ ybCollateral' <= MaxCollateral
    /\ UNCHANGED <<clockVars, rateVars, debtVars, usdoVars, pauseVars>>
AddCollateral(to, share, skim) ==
    /\ NotPaused("AddCollateral")
    /\ userCollateralShare' = [userCollateralShare EXCEPT ![to] = @ + share]
    /\ totalCollateralShare' = totalCollateralShare + share
    /\ IF skim
       THEN /\ totalCollateralShare <= ybCollateral
            /\ share <= ybCollateral - totalCollateralShare
            /\ UNCHANGED ybCollateral
       ELSE ybCollateral' = ybCollateral + share
    /\ ybCollateral' <= MaxCollateral
    /\ UNCHANGED <<clockVars, rateVars, debtVars, usdoVars, pauseVars>>

RemoveCollateral(from, share, rate) ==
    /\ NotPaused("RemoveCollateral")
    /\ ReadOracle(rate)
    /\ ChargeInterest
    /\ totalBorrow' = AccruedBorrow
    /\ share <= userCollateralShare[from]
    /\ share <= totalCollateralShare
    /\ share <= ybCollateral
    /\ userCollateralShare' = [userCollateralShare EXCEPT ![from] = @ - share]
    /\ totalCollateralShare' = totalCollateralShare - share
    /\ ybCollateral' = ybCollateral - share
    /\ UNCHANGED <<now, userBorrowPart, usdoBalance, usdoSupply, pauseVars>>
    /\ SolventAfter(from)

Borrow(from, amount, rate, price) ==
    /\ NotPaused("Borrow")
    /\ ReadOracle(rate)
    /\ ChargeInterest
    /\ \/ /\ amount = 0
          /\ totalBorrow' = AccruedBorrow
          /\ UNCHANGED <<userBorrowPart, usdoSupply>>
       \/ /\ amount > 0
          /\ ~penrosePaused
          /\ price # 0
          /\ BorrowCore(from, AccruedBorrow, amount, OpeningFee(amount, price))
    /\ UNCHANGED <<now, collateralVars, usdoBalance, pauseVars>>
    /\ SolventAfter(from)

RepayUnpaused(to, part, rate) == \* mutant: the option is not checked
    /\ ~penrosePaused
    /\ TryReadOracle(rate)
    /\ ChargeInterest
    /\ RepayCore(to, AccruedBorrow, part)
    /\ UNCHANGED <<now, collateralVars, usdoBalance, pauseVars>>
Repay(to, part, rate) ==
    /\ NotPaused("Repay")
    /\ ~penrosePaused
    /\ TryReadOracle(rate)
    /\ ChargeInterest
    /\ RepayCore(to, AccruedBorrow, part)
    /\ UNCHANGED <<now, collateralVars, usdoBalance, pauseVars>>

(* Lever up: borrow, swap the loan and supplyAmount of the user's own USDO *)
(* for amountOut units of collateral, and credit them to the user.  The    *)
(* collateral is deposited in the user's YieldBox account, and _addTokens  *)
(* is skipped: the market's own holding does not change.                   *)
BuyCollateral(from, borrowAmount, supplyAmount, rate, price, amountOut) ==
    LET share == ToShare(ShareRatio, amountOut)
    IN  /\ NotPaused("LeverageBuy")
        /\ LeverageExecutorSet
        /\ ~penrosePaused
        /\ borrowAmount > 0 => price # 0
        /\ supplyAmount <= Circulating
        /\ amountOut > 0
        /\ ReadOracle(rate)
        /\ ChargeInterest
        /\ BorrowCore(from, AccruedBorrow, borrowAmount, OpeningFee(borrowAmount, price))
        /\ userCollateralShare' = [userCollateralShare EXCEPT ![from] = @ + share]
        /\ totalCollateralShare' = totalCollateralShare + share
        /\ totalCollateralShare' <= MaxCollateral
        /\ UNCHANGED <<now, ybCollateral, usdoBalance, pauseVars>>
        /\ SolventAfter(from)

(* Lever down: sell collateral for amountOut USDO, repay as much of the    *)
(* debt as it covers and leave the rest to the user.                       *)
SellCollateral(from, share, rate, amountOut) ==
    LET owed == ToElasticUp(AccruedBorrow, userBorrowPart[from])
    IN  /\ NotPaused("LeverageSell")
        /\ LeverageExecutorSet
        /\ ~penrosePaused
        /\ amountOut > 0
        /\ amountOut <= Circulating
        /\ share <= userCollateralShare[from]
        /\ share <= totalCollateralShare
        /\ share <= ybCollateral
        /\ ReadOracle(rate)
        /\ ChargeInterest
        /\ userCollateralShare' = [userCollateralShare EXCEPT ![from] = @ - share]
        /\ totalCollateralShare' = totalCollateralShare - share
        /\ ybCollateral' = ybCollateral - share
        /\ RepayCore(from, AccruedBorrow,
                     IF owed <= amountOut THEN userBorrowPart[from]
                     ELSE ToBaseDown(AccruedBorrow, amountOut))
        /\ UNCHANGED <<now, usdoBalance, pauseVars>>
        /\ SolventAfter(from)

-----------------------------------------------------------------------------
(* Liquidation of one position above the liquidation collateralization     *)
(* rate; liquidate() with several users is a run of these at one instant,  *)
(* which all succeed or all revert.  The liquidator receives collateral,   *)
(* and its callback returns `returned` USDO to the market.                 *)
Liquidate(user, maxBorrowPart, minLiquidationBonus, answer, returned) ==
    LET rate   == RateOrCached(answer)
        tb     == AccruedBorrow
        coll   == userCollateralShare[user]
        part   == userBorrowPart[user]
        amount == LiquidatedAmount(coll, part, tb, rate, maxBorrowPart)
        repaid == LiquidatedPart(part, tb, amount)
        share  == LiquidatedShare(coll, rate, amount)
        owed   == [elastic |-> tb.elastic - amount, base |-> tb.base - repaid]
        reward == CallerReward(coll, part, tb, rate)
        sold   == ToShare(ShareRatio, ToAmount(ShareRatio, share))
    IN  /\ NotPaused("Liquidation")
        /\ ~penrosePaused
        /\ ~Solvent(liquidationCollateralizationRate, user, tb, rate)
        /\ MayLiquidate(coll, part, tb, rate, maxBorrowPart, minLiquidationBonus)
        /\ repaid <= part
        /\ NonNegative(owed)
        /\ sold <= ybCollateral
        /\ SwapSucceeds(share, rate, amount, returned)
        /\ returned <= Circulating
        /\ TryReadOracle(answer)
        /\ ChargeInterest
        /\ userBorrowPart' = [userBorrowPart EXCEPT ![user] = @ - repaid]
        /\ userCollateralShare' = [userCollateralShare EXCEPT ![user] = @ - share]
        /\ totalCollateralShare' =
              IF totalCollateralShare > share THEN totalCollateralShare - share ELSE 0
        /\ totalBorrow' = owed
        /\ ybCollateral' = ybCollateral - sold
        /\ usdoBalance' = usdoBalance + (returned - amount)
                                     - CallerAmount(returned - amount, reward)
        /\ usdoSupply' = usdoSupply - amount
        /\ UNCHANGED <<now, pauseVars>>

(* liquidateBadDebt, by the owner: a position whose collateral could not   *)
(* pay a full liquidation is closed, and its debt burnt from a whitelisted *)
(* account.  The collateral leaves the market either way: it is swapped    *)
(* and the receiver gets the USDO, or it is sent to the receiver as it is. *)
LiquidateBadDebt(user, answer) ==
    LET rate   == RateOrCached(answer)
        tb     == AccruedBorrow
        part   == userBorrowPart[user]
        coll   == userCollateralShare[user]
        amount == ToElasticUp(tb, part)
        owed   == [elastic |-> tb.elastic - amount, base |-> tb.base - part]
        sold   == ToShare(ShareRatio, ToAmount(ShareRatio, coll))
    IN  /\ ~penrosePaused
        /\ RequiredCollateral(part, tb, rate) >= coll
        /\ NonNegative(owed)
        /\ coll <= totalCollateralShare
        /\ sold <= ybCollateral
        /\ amount <= Circulating
        /\ TryReadOracle(answer)
        /\ ChargeInterest
        /\ totalBorrow' = owed
        /\ userBorrowPart' = [userBorrowPart EXCEPT ![user] = 0]
        /\ userCollateralShare' = [userCollateralShare EXCEPT ![user] = 0]
        /\ totalCollateralShare' = totalCollateralShare - coll
        /\ ybCollateral' = ybCollateral - sold
        /\ usdoSupply' = usdoSupply - amount
        /\ UNCHANGED <<now, usdoBalance, pauseVars>>

-----------------------------------------------------------------------------
(* The owner's operations, through Penrose, and the conservator's.         *)

(* refreshPenroseFees: the fees go to Penrose's YieldBox account.          *)
RefreshPenroseFees ==
    /\ usdoBalance' = 0
    /\ UNCHANGED <<clockVars, rateVars, debtVars, collateralVars,
                   usdoSupply, openInterestDebt, pauseVars>>

(* Penrose.mintOpenInterestDebt: consume the interest and mint it.         *)
MintWithoutReset == \* mutant: the interest may be minted again
    /\ usdoSupply' = usdoSupply + openInterestDebt
    /\ UNCHANGED <<clockVars, rateVars, debtVars, collateralVars,
                   usdoBalance, openInterestDebt, pauseVars>>
MintOpenInterestDebt ==
    /\ usdoSupply' = usdoSupply + openInterestDebt
    /\ openInterestDebt' = 0
    /\ UNCHANGED <<clockVars, rateVars, debtVars, collateralVars,
                   usdoBalance, pauseVars>>

UpdatePause(type, val) ==
    /\ val # (type \in pauseOptions)
    /\ pauseOptions' = IF val THEN pauseOptions \cup {type}
                              ELSE pauseOptions \ {type}
    /\ UNCHANGED <<clockVars, rateVars, debtVars, collateralVars, usdoVars,
                   penrosePaused>>

UpdatePauseAll(val) ==
    /\ pauseOptions' = IF val THEN PauseType ELSE {}
    /\ UNCHANGED <<clockVars, rateVars, debtVars, collateralVars, usdoVars,
                   penrosePaused>>

UpdatePenrosePause ==
    /\ penrosePaused' = ~penrosePaused
    /\ UNCHANGED <<clockVars, rateVars, debtVars, collateralVars, usdoVars,
                   pauseOptions>>

Tick ==
    /\ now < MaxTime
    /\ now' = now + 1
    /\ UNCHANGED <<lastAccrued, rateVars, debtVars, collateralVars, usdoVars,
                   pauseVars>>

-----------------------------------------------------------------------------
OracleAnswers == Rates \cup {0}

UserStep ==
    \/ Accrue
    \/ \E rate \in Rates : UpdateExchangeRate(rate)
    \/ \E share \in Transfers : TransferToMarket(share)
    \/ \E to \in Users, share \in Shares, skim \in BOOLEAN :
          AddCollateral(to, share, skim)
    \/ \E from \in Users, share \in Shares, rate \in Rates :
          RemoveCollateral(from, share, rate)
    \/ \E from \in Users, amount \in Amounts, rate \in Rates, price \in AssetPrices :
          Borrow(from, amount, rate, price)
    \/ \E to \in Users, part \in Parts, rate \in OracleAnswers : Repay(to, part, rate)

LeverageStep ==
    \/ \E from \in Users, amount, supply, out \in Amounts, rate \in Rates,
          price \in AssetPrices : BuyCollateral(from, amount, supply, rate, price, out)
    \/ \E from \in Users, share \in Shares, rate \in Rates, out \in Amounts :
          SellCollateral(from, share, rate, out)

LiquidationStep ==
    \/ \E user \in Users, max \in Parts, bonus \in Bonuses,
          rate \in OracleAnswers, returned \in Amounts :
          Liquidate(user, max, bonus, rate, returned)
    \/ \E user \in Users, rate \in OracleAnswers : LiquidateBadDebt(user, rate)

GovernanceStep ==
    \/ RefreshPenroseFees
    \/ MintOpenInterestDebt
    \/ \E type \in Pausable, val \in BOOLEAN : UpdatePause(type, val)
    \/ Pausable = PauseType /\ \E val \in BOOLEAN : UpdatePauseAll(val)
    \/ Pausable # {} /\ UpdatePenrosePause

Next == UserStep \/ LeverageStep \/ LiquidationStep \/ GovernanceStep \/ Tick

Spec == Init /\ [][Next]_vars

-----------------------------------------------------------------------------
(* Properties.                                                             *)

(* The users' parts and collateral add up to the market's totals, however  *)
(* loans, repayments, rounding and the saturating subtraction of           *)
(* BBLiquidation._liquidateUser interleave.                                *)
PositionsAddUp ==
    /\ SumFunction(userBorrowPart) = totalBorrow.base
    /\ SumFunction(userCollateralShare) = totalCollateralShare

(* A part of the debt is never worth less than one unit of USDO, and no    *)
(* debt remains without parts, so that the divisions by totalBorrow.base   *)
(* and the checked subtractions of repay and liquidate never revert.       *)
DebtShape ==
    /\ totalBorrow.base <= totalBorrow.elastic
    /\ totalBorrow.base = 0 => totalBorrow.elastic = 0

(* USDO minted here and not burnt, with the interest Penrose may still     *)
(* mint, never exceeds what borrowers owe.                                 *)
UsdoBacked == usdoSupply + openInterestDebt <= ExternalUsdo + totalBorrow.elastic

(* YieldBox holds for the market the collateral it has credited to users;  *)
(* what exceeds it can be skimmed.                                         *)
CollateralBacked == totalCollateralShare <= ybCollateral

(* The debt a part stands for grows by interest only: rounding in borrow,  *)
(* repay and liquidations never raises what the others owe.                *)
DebtPerPartOnlyGrowsByInterest ==
    [][totalBorrow'.elastic * totalBorrow.base
         <= AccruedBorrow.elastic * totalBorrow'.base]_vars

(* A position that is solvent with the interest due and at the rate a step *)
(* reads is solvent after the step, whoever takes it: a position becomes   *)
(* insolvent by time and by the oracle, never by an operation.             *)
SolventStaysSolvent ==
    [][\A u \in Users :
         Solvent(collateralizationRate, u, AccruedBorrow, exchangeRate')
           => Solvent(collateralizationRate, u, totalBorrow, exchangeRate)']_vars

(* Neither a liquidation nor a bad debt write-off closes any part of a     *)
(* position that satisfies the collateralization rate.                     *)
SolventNeverLiquidated ==
    [][\A u \in Users :
         /\ userCollateralShare'[u] < userCollateralShare[u]
         /\ userBorrowPart'[u] < userBorrowPart[u]
         /\ ~LeverageExecutorSet
         => ~Solvent(collateralizationRate, u, AccruedBorrow, exchangeRate')]_vars

(* While every option is paused no path around the options, such as        *)
(* leverage, moves a position: it changes only by the owner's bad debt     *)
(* write-off, which closes it.                                             *)
FullyPausedFreezes ==
    [][pauseOptions = PauseType =>
         \A u \in Users :
           \/ UNCHANGED <<userBorrowPart[u], userCollateralShare[u]>>
           \/ userBorrowPart'[u] = 0 /\ userCollateralShare'[u] = 0]_vars

(* A liquidation does not leave debt behind without collateral: such a     *)
(* position can only be written off. BBLiquidation:199 "make sure          *)
(* liquidator cannot bypass bad debt handling".                            *)
LiquidationLeavesNoBadDebt ==
    [][\A u \in Users :
         /\ userCollateralShare[u] > 0
         /\ userCollateralShare'[u] = 0
         /\ userBorrowPart'[u] < userBorrowPart[u]
         => userBorrowPart'[u] = 0]_vars

(* The market implements the abstract ledger of DebtLedger.                *)
Ledger == INSTANCE DebtLedger WITH
            debt     <- totalBorrow.elastic,
            issued   <- usdoSupply - ExternalUsdo,
            mintable <- openInterestDebt
ImplementsLedger == Ledger!Spec
=============================================================================
