---------------------------- MODULE BigBangProofs ---------------------------
(***************************************************************************)
(* Theorems about BigBang, for any users, rates, amounts and bounds.       *)
(*                                                                         *)
(* The inductive invariant is the type together with the soundness of the  *)
(* debt (MarketTheorems): without it neither a liquidation's division nor  *)
(* the subtraction of what it repays is known to stay in the naturals.     *)
(* Every step is shown to keep it, to leave the debt per part no dearer    *)
(* than interest makes it, and to mint no USDO that is not owed.           *)
(***************************************************************************)
EXTENDS BigBang, MarketTheorems

IInv == TypeOK /\ DebtShape

(* What holds of every step; the last three conjuncts are the step's share *)
(* of DebtPerPartOnlyGrowsByInterest, UsdoBacked and ImplementsLedger.     *)
Surplus == totalBorrow.elastic + ExternalUsdo - usdoSupply - openInterestDebt
LedgerVars == <<totalBorrow.elastic, usdoSupply - ExternalUsdo, openInterestDebt>>
StepEffect ==
    /\ TypeOK'
    /\ SoundDebt(totalBorrow')
    /\ NoDearer(totalBorrow', AccruedBorrow)
    /\ Surplus' >= Surplus
    /\ Ledger!Next \/ UNCHANGED LedgerVars

-----------------------------------------------------------------------------
LEMMA DebtIsSound ==
    ASSUME IInv
    PROVE  SoundDebt(totalBorrow) /\ totalBorrow.elastic <= MaxUint128
  BY DEF IInv, TypeOK, DebtShape, SoundDebt

(* Interest keeps the debt sound and within a uint128.                     *)
LEMMA InterestFacts ==
    ASSUME IInv
    PROVE  /\ Interest \in Nat
           /\ SoundDebt(AccruedBorrow)
           /\ AccruedBorrow.elastic = totalBorrow.elastic + Interest
           /\ AccruedBorrow.base = totalBorrow.base
           /\ AccruedBorrow.elastic <= MaxUint128
           /\ AccruedBorrow \in [elastic : 0..MaxUint128, base : 0..MaxUint128]
<1> DEFINE grown == totalBorrow.elastic * DebtRatePerSecond * (now - lastAccrued)
<1>1. /\ totalBorrow.elastic \in 0..MaxUint128 /\ totalBorrow.base \in 0..MaxUint128
      /\ now - lastAccrued \in Nat /\ DebtRatePerSecond \in Nat
      /\ RATE_PRECISION \in Nat \ {0} /\ MaxUint128 \in Nat
  BY BigBangAssumption DEF IInv, TypeOK
<1>2. grown \in Nat
  BY <1>1, SMT
<1>3. InterestDue \in Nat
  BY <1>1, <1>2, DivFacts DEF InterestDue
<1>4. Interest \in Nat /\ Interest <= MaxUint128 - totalBorrow.elastic
  BY <1>1, <1>3 DEF Interest, Least
<1>5. totalBorrow.base <= totalBorrow.elastic /\ (totalBorrow.base = 0 => totalBorrow.elastic = 0)
  BY DEF IInv, DebtShape
<1>6. totalBorrow.elastic + Interest \in 0..MaxUint128
  BY <1>1, <1>4
<1>7. totalBorrow.base = 0 => Interest = 0
  <2>1. SUFFICES ASSUME totalBorrow.base = 0 PROVE Interest = 0
    OBVIOUS
  <2>2. grown = 0
    BY <1>1, <1>5, <2>1, SMT
  <2>3. InterestDue = 0
    BY <1>1, <2>2, SMT DEF InterestDue
  <2> QED
    BY <1>1, <2>3 DEF Interest, Least
<1> QED
  BY <1>1, <1>4, <1>5, <1>6, <1>7 DEF AccruedBorrow, SoundDebt

(* Interest charged, and nothing else, is a fair step of the debt.         *)
LEMMA AccruedIsFair ==
    ASSUME IInv
    PROVE  /\ NoDearer(AccruedBorrow, AccruedBorrow)
           /\ NoDearer(totalBorrow, AccruedBorrow)
<1>1. /\ totalBorrow.elastic \in Nat /\ totalBorrow.base \in Nat /\ Interest \in Nat
      /\ AccruedBorrow.elastic = totalBorrow.elastic + Interest
      /\ AccruedBorrow.base = totalBorrow.base
  BY InterestFacts, DebtIsSound DEF SoundDebt
<1>2. totalBorrow.elastic * totalBorrow.base
        <= (totalBorrow.elastic + Interest) * totalBorrow.base
  BY <1>1, SMT
<1> QED
  BY <1>1, <1>2, SMT DEF NoDearer

(* Steps that leave the debt and the USDO alone.                           *)
LEMMA QuietStep ==
    ASSUME IInv, TypeOK', UNCHANGED <<totalBorrow, usdoSupply, openInterestDebt>>
    PROVE  StepEffect
<1>1. NoDearer(totalBorrow', AccruedBorrow) /\ SoundDebt(totalBorrow')
  BY AccruedIsFair, DebtIsSound
<1>2. Surplus' = Surplus /\ UNCHANGED LedgerVars
  BY DEF Surplus, LedgerVars
<1>3. Surplus \in Int
  BY BigBangAssumption DEF IInv, TypeOK, Surplus
<1> QED
  BY <1>1, <1>2, <1>3 DEF StepEffect

(* Steps that charge interest and nothing else.                            *)
LEMMA AccrualStep ==
    ASSUME IInv, TypeOK', totalBorrow' = AccruedBorrow, ChargeInterest,
           UNCHANGED usdoSupply
    PROVE  StepEffect
<1>1. NoDearer(totalBorrow', AccruedBorrow) /\ SoundDebt(totalBorrow')
  BY AccruedIsFair, InterestFacts
<1>2. Surplus' = Surplus
  BY InterestFacts, BigBangAssumption DEF Surplus, ChargeInterest, IInv, TypeOK
<1>3. Surplus \in Int
  BY BigBangAssumption DEF IInv, TypeOK, Surplus
<1>4. Ledger!Lend
  BY InterestFacts, BigBangAssumption
  DEF Ledger!Lend, Ledger!Charged, ChargeInterest, IInv, TypeOK
<1> QED
  BY <1>1, <1>2, <1>3, <1>4 DEF StepEffect, Ledger!Next

-----------------------------------------------------------------------------
(* Loans and repayments.                                                   *)

(* What a step that charges interest and moves one user's debt must do.    *)
DebtEffect ==
    /\ totalBorrow' \in [elastic : 0..MaxUint128, base : 0..MaxUint128]
    /\ userBorrowPart' \in [Users -> Nat]
    /\ usdoSupply' \in Nat
    /\ SoundDebt(totalBorrow')
    /\ NoDearer(totalBorrow', AccruedBorrow)
    /\ \/ /\ usdoSupply' >= usdoSupply
          /\ totalBorrow'.elastic - usdoSupply' >= AccruedBorrow.elastic - usdoSupply
       \/ /\ usdoSupply' <= usdoSupply
          /\ totalBorrow'.elastic - usdoSupply' = AccruedBorrow.elastic - usdoSupply

LEMMA SurplusKept ==
    ASSUME IInv, ChargeInterest, DebtEffect
    PROVE  /\ openInterestDebt' \in Nat
           /\ lastAccrued' = now
           /\ Surplus' >= Surplus
           /\ Ledger!Next
<1>1. /\ openInterestDebt \in Nat /\ Interest \in Nat /\ usdoSupply \in Nat
      /\ totalBorrow.elastic \in Nat /\ ExternalUsdo \in Nat
      /\ AccruedBorrow.elastic = totalBorrow.elastic + Interest
  BY InterestFacts, DebtIsSound, BigBangAssumption DEF IInv, TypeOK, SoundDebt
<1>2. openInterestDebt' = openInterestDebt + Interest /\ lastAccrued' = now
  BY DEF ChargeInterest
<1>3. totalBorrow'.elastic \in Nat /\ usdoSupply' \in Nat
  BY DEF DebtEffect, SoundDebt
<1>4. Surplus' >= Surplus
  BY <1>1, <1>2, <1>3 DEF DebtEffect, Surplus
<1>5. Ledger!Lend \/ Ledger!Settle
  <2> DEFINE e == totalBorrow.elastic
             f == totalBorrow'.elastic
             i == usdoSupply
             j == usdoSupply'
  <2>1. openInterestDebt' - openInterestDebt = Interest
    BY <1>1, <1>2
  <2>2. \/ j >= i /\ f - j >= e + Interest - i
        \/ j <= i /\ f - j = e + Interest - i
    BY <1>1 DEF DebtEffect
  <2>3. \/ /\ j - ExternalUsdo >= i - ExternalUsdo
           /\ f - e >= ((j - ExternalUsdo) - (i - ExternalUsdo)) + Interest
        \/ /\ j - ExternalUsdo <= i - ExternalUsdo
           /\ f - e = ((j - ExternalUsdo) - (i - ExternalUsdo)) + Interest
    <3> HIDE DEF e, f, i, j
    <3>1. e \in Nat /\ f \in Nat /\ i \in Nat /\ j \in Nat
      BY <1>1, <1>3 DEF e, f, i, j
    <3> QED
      BY <1>1, <2>2, <3>1
  <2>4. Ledger!Charged = Interest /\ Interest >= 0 /\ f >= 0
    BY <1>1, <1>3, <2>1 DEF Ledger!Charged
  <2>5. ASSUME j - ExternalUsdo >= i - ExternalUsdo,
               f - e >= ((j - ExternalUsdo) - (i - ExternalUsdo)) + Interest
        PROVE  Ledger!Lend
    BY <2>4, <2>5 DEF Ledger!Lend
  <2>6. ASSUME j - ExternalUsdo <= i - ExternalUsdo,
               f - e = ((j - ExternalUsdo) - (i - ExternalUsdo)) + Interest
        PROVE  Ledger!Settle
    BY <2>4, <2>6 DEF Ledger!Settle
  <2> QED
    BY <2>3, <2>5, <2>6
<1> QED
  BY <1>1, <1>2, <1>4, <1>5 DEF Ledger!Next

LEMMA OpeningFeeType ==
    ASSUME NEW amount \in Nat, NEW price \in Nat
    PROVE  OpeningFee(amount, price) \in Nat
<1> USE BigBangAssumption
<1>1. OpeningFeeRate(price) \in Nat
  <2>1. CASE price >= minMintFeeStart
    BY <2>1 DEF OpeningFeeRate
  <2>2. CASE ~(price >= minMintFeeStart) /\ price <= maxMintFeeStart
    BY <2>2 DEF OpeningFeeRate
  <2>3. CASE ~(price >= minMintFeeStart) /\ ~(price <= maxMintFeeStart)
    <3> DEFINE drop == (price - maxMintFeeStart) * (maxMintFee - minMintFee)
               range == minMintFeeStart - maxMintFeeStart
               fee == maxMintFee - drop \div range
    <3>1. price - maxMintFeeStart \in Nat /\ maxMintFee - minMintFee \in Nat
          /\ range \in Nat \ {0}
      BY <2>3
    <3>2. drop \in Nat
      BY <3>1, SMT
    <3>3. fee \in Int
      BY <3>1, <3>2, DivFacts
    <3>4. OpeningFeeRate(price) = IF fee > maxMintFee THEN maxMintFee
                                  ELSE IF fee < minMintFee THEN minMintFee ELSE fee
      BY <2>3 DEF OpeningFeeRate
    <3> QED
      BY <3>3, <3>4
  <2> QED
    BY <2>1, <2>2, <2>3
<1>2. amount * OpeningFeeRate(price) \in Nat
  BY <1>1, SMT
<1> QED
  BY <1>2, PrecisionAssumption, DivFacts DEF OpeningFee

LEMMA BorrowCoreEffect ==
    ASSUME IInv, NEW u \in Users, NEW amount \in Nat, NEW fee \in Nat,
           BorrowCore(u, AccruedBorrow, amount, fee)
    PROVE  DebtEffect
<1> DEFINE part == ToBaseUp(AccruedBorrow, amount + fee)
           owed == RebaseAddUp(AccruedBorrow, amount + fee)
<1>1. amount + fee \in Nat
  OBVIOUS
<1>2. SoundDebt(AccruedBorrow)
  BY InterestFacts
<1>3. part \in Nat /\ SoundDebt(owed) /\ NoDearer(owed, AccruedBorrow)
  BY <1>1, <1>2, AddKeepsSound
<1>4. /\ totalBorrow' = owed /\ owed.elastic <= MaxUint128 /\ owed.base <= MaxUint128
      /\ userBorrowPart' = [userBorrowPart EXCEPT ![u] = @ + part]
      /\ usdoSupply' = usdoSupply + amount
  BY DEF BorrowCore
<1>5. owed \in [elastic : 0..MaxUint128, base : 0..MaxUint128]
  <2>1. owed.elastic \in Nat /\ owed.base \in Nat
    BY <1>3 DEF SoundDebt
  <2>2. owed = [elastic |-> owed.elastic, base |-> owed.base]
    BY DEF RebaseAddUp
  <2> QED
    BY <1>4, <2>1, <2>2, BigBangAssumption
<1>6. userBorrowPart \in [Users -> Nat] /\ usdoSupply \in Nat
  BY DEF IInv, TypeOK
<1>7. owed.elastic = AccruedBorrow.elastic + (amount + fee)
      /\ AccruedBorrow.elastic \in Nat
  BY <1>2 DEF RebaseAddUp, SoundDebt
<1> QED
  BY <1>3, <1>4, <1>5, <1>6, <1>7 DEF DebtEffect

(* Clearing parts of a user's debt for `amount` burnt.                     *)
LEMMA SettleEffect ==
    ASSUME IInv, NEW u \in Users, NEW part \in Nat, NEW amount \in Nat,
           part <= userBorrowPart[u], amount <= usdoSupply,
           totalBorrow' = [elastic |-> AccruedBorrow.elastic - amount,
                           base    |-> AccruedBorrow.base - part],
           SoundDebt(totalBorrow'), NoDearer(totalBorrow', AccruedBorrow),
           userBorrowPart' = [userBorrowPart EXCEPT ![u] = @ - part],
           usdoSupply' = usdoSupply - amount
    PROVE  DebtEffect
<1>1. /\ AccruedBorrow.elastic \in 0..MaxUint128 /\ AccruedBorrow.base \in 0..MaxUint128
      /\ userBorrowPart \in [Users -> Nat] /\ usdoSupply \in Nat
      /\ MaxUint128 \in Nat
  BY InterestFacts, BigBangAssumption DEF IInv, TypeOK
<1>2. totalBorrow'.elastic \in Nat /\ totalBorrow'.base \in Nat
  BY DEF SoundDebt
<1>3. /\ totalBorrow'.elastic = AccruedBorrow.elastic - amount
      /\ totalBorrow'.base = AccruedBorrow.base - part
  OBVIOUS
<1>4. totalBorrow' \in [elastic : 0..MaxUint128, base : 0..MaxUint128]
  BY <1>1, <1>2, <1>3
<1>5. userBorrowPart' \in [Users -> Nat]
  BY <1>1
<1>6. usdoSupply' \in Nat
  BY <1>1
<1> QED
  BY <1>1, <1>3, <1>4, <1>5, <1>6 DEF DebtEffect

LEMMA RepayCoreEffect ==
    ASSUME IInv, NEW u \in Users, NEW requested \in Nat,
           RepayCore(u, AccruedBorrow, requested)
    PROVE  DebtEffect
<1> DEFINE part == Least(requested, userBorrowPart[u])
           amount == ToElasticUp(AccruedBorrow, part)
           owed == RebaseSubUp(AccruedBorrow, part)
<1>1. /\ NonNegative(owed) /\ amount <= Circulating /\ totalBorrow' = owed
      /\ userBorrowPart' = [userBorrowPart EXCEPT ![u] = @ - part]
      /\ usdoSupply' = usdoSupply - amount
  BY DEF RepayCore
<1>2. userBorrowPart[u] \in Nat /\ usdoSupply \in Nat /\ usdoBalance \in Nat
  BY DEF IInv, TypeOK
<1>3. part \in Nat /\ part <= userBorrowPart[u]
  BY <1>2 DEF Least
<1>4. SoundDebt(AccruedBorrow)
  BY InterestFacts
<1>5. part <= AccruedBorrow.base
  BY <1>1, <1>3, <1>4 DEF NonNegative, RebaseSubUp, SoundDebt
<1>6. amount \in Nat /\ SoundDebt(owed) /\ NoDearer(owed, AccruedBorrow)
  BY <1>3, <1>4, <1>5, SubKeepsSound
<1>7. amount <= usdoSupply
  BY <1>1, <1>2, <1>6 DEF Circulating
<1>8. owed = [elastic |-> AccruedBorrow.elastic - amount,
              base    |-> AccruedBorrow.base - part]
  BY DEF RebaseSubUp
<1> HIDE DEF part, amount, owed
<1> QED
  BY <1>1, <1>3, <1>6, <1>7, <1>8, SettleEffect

-----------------------------------------------------------------------------
(* Every action, one lemma each.                                           *)

LEMMA ReadOracleType ==
    ASSUME IInv, NEW rate \in Rates, ReadOracle(rate), UNCHANGED now
    PROVE  exchangeRate' \in Rates /\ rateTimestamp' \in 0..now'
  BY BigBangAssumption DEF IInv, TypeOK, ReadOracle

LEMMA TryReadOracleType ==
    ASSUME IInv, NEW rate \in OracleAnswers, TryReadOracle(rate), UNCHANGED now
    PROVE  /\ exchangeRate' \in Rates /\ rateTimestamp' \in 0..now'
           /\ RateOrCached(rate) \in Nat \ {0}
<1>1. CASE rate = 0
  BY <1>1, BigBangAssumption DEF IInv, TypeOK, TryReadOracle, RateOrCached, rateVars
<1>2. CASE rate # 0
  BY <1>2, ReadOracleType, BigBangAssumption DEF OracleAnswers, TryReadOracle, RateOrCached
<1> QED
  BY <1>1, <1>2

LEMMA AccrueEffect ==
    ASSUME IInv, Accrue
    PROVE  StepEffect
<1>1. /\ totalBorrow' = AccruedBorrow /\ ChargeInterest
      /\ UNCHANGED <<now, rateVars, userBorrowPart, collateralVars,
                     usdoBalance, usdoSupply, pauseVars>>
  BY DEF Accrue
<1>2. TypeOK'
  BY <1>1, InterestFacts DEF IInv, TypeOK, ChargeInterest, rateVars, collateralVars, pauseVars
<1> QED
  BY <1>1, <1>2, AccrualStep

LEMMA UpdateExchangeRateEffect ==
    ASSUME IInv, NEW rate \in Rates, UpdateExchangeRate(rate)
    PROVE  StepEffect
<1>1. /\ ReadOracle(rate)
      /\ UNCHANGED <<clockVars, debtVars, collateralVars, usdoVars, pauseVars>>
  BY DEF UpdateExchangeRate
<1>2. TypeOK'
  BY <1>1, ReadOracleType
  DEF IInv, TypeOK, clockVars, debtVars, collateralVars, usdoVars, pauseVars
<1> QED
  BY <1>1, <1>2, QuietStep DEF debtVars, usdoVars

LEMMA TransferToMarketEffect ==
    ASSUME IInv, NEW share \in Transfers, TransferToMarket(share)
    PROVE  StepEffect
<1>1. /\ ybCollateral' = ybCollateral + share
      /\ UNCHANGED <<clockVars, rateVars, debtVars, userCollateralShare,
                     totalCollateralShare, usdoVars, pauseVars>>
  BY DEF TransferToMarket
<1>2. TypeOK'
  BY <1>1, BigBangAssumption
  DEF IInv, TypeOK, clockVars, rateVars, debtVars, usdoVars, pauseVars
<1> QED
  BY <1>1, <1>2, QuietStep DEF debtVars, usdoVars

LEMMA AddCollateralEffect ==
    ASSUME IInv, NEW to \in Users, NEW share \in Shares, NEW skim \in BOOLEAN,
           AddCollateral(to, share, skim)
    PROVE  StepEffect
<1>1. /\ userCollateralShare' = [userCollateralShare EXCEPT ![to] = @ + share]
      /\ totalCollateralShare' = totalCollateralShare + share
      /\ ybCollateral' = ybCollateral \/ ybCollateral' = ybCollateral + share
      /\ UNCHANGED <<clockVars, rateVars, debtVars, usdoVars, pauseVars>>
  BY DEF AddCollateral
<1>2. TypeOK'
  BY <1>1, BigBangAssumption
  DEF IInv, TypeOK, clockVars, rateVars, debtVars, usdoVars, pauseVars
<1> QED
  BY <1>1, <1>2, QuietStep DEF debtVars, usdoVars

LEMMA RemoveCollateralEffect ==
    ASSUME IInv, NEW from \in Users, NEW share \in Shares, NEW rate \in Rates,
           RemoveCollateral(from, share, rate)
    PROVE  StepEffect
<1>1. /\ ReadOracle(rate) /\ ChargeInterest /\ totalBorrow' = AccruedBorrow
      /\ share <= userCollateralShare[from] /\ share <= totalCollateralShare
      /\ share <= ybCollateral
      /\ userCollateralShare' = [userCollateralShare EXCEPT ![from] = @ - share]
      /\ totalCollateralShare' = totalCollateralShare - share
      /\ ybCollateral' = ybCollateral - share
      /\ UNCHANGED <<now, userBorrowPart, usdoBalance, usdoSupply, pauseVars>>
  BY DEF RemoveCollateral
<1>2. TypeOK'
  BY <1>1, InterestFacts, ReadOracleType, BigBangAssumption
  DEF IInv, TypeOK, ChargeInterest, pauseVars
<1> QED
  BY <1>1, <1>2, AccrualStep

(* A step that moves a user's debt and leaves the collateral typed.        *)
LEMMA DebtStep ==
    ASSUME IInv, ChargeInterest, DebtEffect, UNCHANGED <<now, pauseVars>>,
           exchangeRate' \in Rates, rateTimestamp' \in 0..now',
           userCollateralShare' \in [Users -> Nat],
           totalCollateralShare' \in Nat, ybCollateral' \in Nat,
           usdoBalance' \in Nat
    PROVE  StepEffect
<1>1. /\ openInterestDebt' \in Nat /\ lastAccrued' = now
      /\ Surplus' >= Surplus /\ Ledger!Next
  BY SurplusKept
<1>2. TypeOK'
  BY <1>1 DEF IInv, TypeOK, DebtEffect, pauseVars
<1> QED
  BY <1>1, <1>2 DEF StepEffect, DebtEffect

LEMMA BorrowEffect ==
    ASSUME IInv, NEW from \in Users, NEW amount \in Amounts, NEW rate \in Rates,
           NEW price \in AssetPrices, Borrow(from, amount, rate, price)
    PROVE  StepEffect
<1>1. /\ ReadOracle(rate) /\ ChargeInterest
      /\ UNCHANGED <<now, collateralVars, usdoBalance, pauseVars>>
      /\ \/ totalBorrow' = AccruedBorrow /\ UNCHANGED <<userBorrowPart, usdoSupply>>
         \/ BorrowCore(from, AccruedBorrow, amount, OpeningFee(amount, price))
  BY DEF Borrow
<1>2. exchangeRate' \in Rates /\ rateTimestamp' \in 0..now'
  BY <1>1, ReadOracleType
<1>3. /\ userCollateralShare' \in [Users -> Nat] /\ totalCollateralShare' \in Nat
      /\ ybCollateral' \in Nat /\ usdoBalance' \in Nat
  BY <1>1 DEF IInv, TypeOK, collateralVars
<1>4. CASE totalBorrow' = AccruedBorrow /\ UNCHANGED <<userBorrowPart, usdoSupply>>
  <2>1. TypeOK'
    BY <1>1, <1>2, <1>3, <1>4, InterestFacts DEF IInv, TypeOK, ChargeInterest, pauseVars
  <2> QED
    BY <1>1, <1>4, <2>1, AccrualStep
<1>5. CASE BorrowCore(from, AccruedBorrow, amount, OpeningFee(amount, price))
  <2>1. DebtEffect
    BY <1>5, OpeningFeeType, BorrowCoreEffect, BigBangAssumption
  <2> QED
    BY <1>1, <1>2, <1>3, <2>1, DebtStep
<1> QED
  BY <1>1, <1>4, <1>5

LEMMA RepayEffect ==
    ASSUME IInv, NEW to \in Users, NEW part \in Parts, NEW rate \in OracleAnswers,
           Repay(to, part, rate)
    PROVE  StepEffect
<1>1. /\ TryReadOracle(rate) /\ ChargeInterest
      /\ RepayCore(to, AccruedBorrow, part)
      /\ UNCHANGED <<now, collateralVars, usdoBalance, pauseVars>>
  BY DEF Repay
<1>2. exchangeRate' \in Rates /\ rateTimestamp' \in 0..now'
  BY <1>1, TryReadOracleType
<1>3. /\ userCollateralShare' \in [Users -> Nat] /\ totalCollateralShare' \in Nat
      /\ ybCollateral' \in Nat /\ usdoBalance' \in Nat
  BY <1>1 DEF IInv, TypeOK, collateralVars
<1>4. DebtEffect
  BY <1>1, RepayCoreEffect, BigBangAssumption
<1> QED
  BY <1>1, <1>2, <1>3, <1>4, DebtStep

LEMMA BuyCollateralEffect ==
    ASSUME IInv, NEW from \in Users, NEW amount \in Amounts, NEW supply \in Amounts,
           NEW rate \in Rates, NEW price \in AssetPrices, NEW out \in Amounts,
           BuyCollateral(from, amount, supply, rate, price, out)
    PROVE  StepEffect
<1> DEFINE share == ToShare(ShareRatio, out)
<1>1. /\ ReadOracle(rate) /\ ChargeInterest
      /\ BorrowCore(from, AccruedBorrow, amount, OpeningFee(amount, price))
      /\ userCollateralShare' = [userCollateralShare EXCEPT ![from] = @ + share]
      /\ totalCollateralShare' = totalCollateralShare + share
      /\ UNCHANGED <<now, ybCollateral, usdoBalance, pauseVars>>
  BY DEF BuyCollateral
<1>2. exchangeRate' \in Rates /\ rateTimestamp' \in 0..now'
  BY <1>1, ReadOracleType
<1>3. share \in Nat
  <2>1. out \in Nat /\ ShareRatio \in Nat
    BY BigBangAssumption, PrecisionAssumption
  <2> QED
    BY <2>1, SMT DEF ToShare
<1> HIDE DEF share
<1>4. /\ userCollateralShare' \in [Users -> Nat] /\ totalCollateralShare' \in Nat
      /\ ybCollateral' \in Nat /\ usdoBalance' \in Nat
  BY <1>1, <1>3 DEF IInv, TypeOK
<1>5. DebtEffect
  BY <1>1, OpeningFeeType, BorrowCoreEffect, BigBangAssumption
<1> QED
  BY <1>1, <1>2, <1>4, <1>5, DebtStep

LEMMA SellCollateralEffect ==
    ASSUME IInv, NEW from \in Users, NEW share \in Shares, NEW rate \in Rates,
           NEW out \in Amounts, SellCollateral(from, share, rate, out)
    PROVE  StepEffect
<1> DEFINE owed == ToElasticUp(AccruedBorrow, userBorrowPart[from])
           repaid == IF owed <= out THEN userBorrowPart[from]
                     ELSE ToBaseDown(AccruedBorrow, out)
<1>1. /\ ReadOracle(rate) /\ ChargeInterest
      /\ RepayCore(from, AccruedBorrow, repaid)
      /\ share <= userCollateralShare[from] /\ share <= totalCollateralShare
      /\ share <= ybCollateral
      /\ userCollateralShare' = [userCollateralShare EXCEPT ![from] = @ - share]
      /\ totalCollateralShare' = totalCollateralShare - share
      /\ ybCollateral' = ybCollateral - share
      /\ UNCHANGED <<now, usdoBalance, pauseVars>>
  BY DEF SellCollateral
<1>2. exchangeRate' \in Rates /\ rateTimestamp' \in 0..now'
  BY <1>1, ReadOracleType
<1>3. /\ userCollateralShare' \in [Users -> Nat] /\ totalCollateralShare' \in Nat
      /\ ybCollateral' \in Nat /\ usdoBalance' \in Nat
  BY <1>1, BigBangAssumption DEF IInv, TypeOK
<1>4. repaid \in Nat
  <2>1. /\ AccruedBorrow.elastic \in Nat /\ AccruedBorrow.base \in Nat
        /\ userBorrowPart[from] \in Nat /\ out \in Nat
    BY InterestFacts, BigBangAssumption DEF IInv, TypeOK, SoundDebt
  <2>2. out * AccruedBorrow.base \in Nat
    BY <2>1, SMT
  <2>3. ToBaseDown(AccruedBorrow, out) \in Nat
    BY <2>1, <2>2, DivFacts DEF ToBaseDown
  <2> QED
    BY <2>1, <2>3
<1> HIDE DEF repaid
<1>5. DebtEffect
  BY <1>1, <1>4, RepayCoreEffect
<1> QED
  BY <1>1, <1>2, <1>3, <1>5, DebtStep

LEMMA LiquidateEffect ==
    ASSUME IInv, NEW user \in Users, NEW max \in Parts, NEW bonus \in Bonuses,
           NEW answer \in OracleAnswers, NEW returned \in Amounts,
           Liquidate(user, max, bonus, answer, returned)
    PROVE  StepEffect
<1> DEFINE rate   == RateOrCached(answer)
           tb     == AccruedBorrow
           coll   == userCollateralShare[user]
           part   == userBorrowPart[user]
           amount == LiquidatedAmount(coll, part, tb, rate, max)
           repaid == LiquidatedPart(part, tb, amount)
           share  == LiquidatedShare(coll, rate, amount)
           owed   == [elastic |-> tb.elastic - amount, base |-> tb.base - repaid]
           reward == CallerReward(coll, part, tb, rate)
           sold   == ToShare(ShareRatio, ToAmount(ShareRatio, share))
<1>1. /\ MayLiquidate(coll, part, tb, rate, max, bonus)
      /\ repaid <= part /\ NonNegative(owed) /\ sold <= ybCollateral
      /\ SwapSucceeds(share, rate, amount, returned)
      /\ returned <= Circulating
      /\ TryReadOracle(answer) /\ ChargeInterest
      /\ userBorrowPart' = [userBorrowPart EXCEPT ![user] = @ - repaid]
      /\ userCollateralShare' = [userCollateralShare EXCEPT ![user] = @ - share]
      /\ totalCollateralShare' =
            IF totalCollateralShare > share THEN totalCollateralShare - share ELSE 0
      /\ totalBorrow' = owed
      /\ ybCollateral' = ybCollateral - sold
      /\ usdoBalance' = usdoBalance + (returned - amount)
                                    - CallerAmount(returned - amount, reward)
      /\ usdoSupply' = usdoSupply - amount
      /\ UNCHANGED <<now, pauseVars>>
  BY DEF Liquidate
<1>2. /\ coll \in Nat /\ part \in Nat /\ userCollateralShare \in [Users -> Nat]
      /\ totalCollateralShare \in Nat /\ ybCollateral \in Nat
      /\ usdoBalance \in Nat /\ usdoSupply \in Nat
      /\ max \in Nat /\ bonus \in Nat /\ returned \in Nat
  BY BigBangAssumption DEF IInv, TypeOK
<1>3. exchangeRate' \in Rates /\ rateTimestamp' \in 0..now' /\ rate \in Nat \ {0}
  BY <1>1, TryReadOracleType
<1>4. SoundDebt(tb)
  BY InterestFacts
<1> HIDE DEF rate, tb, coll, part
<1>5. /\ tb.base # 0 /\ amount \in Nat /\ share \in Nat /\ share <= coll
  BY <1>1, <1>2, <1>3, <1>4, LiquidationTakes
<1>6. reward \in 0..FEE_PRECISION
  BY <1>2, <1>3, <1>4, <1>5, RewardIsAFraction
<1>7. sold \in Nat
  BY <1>5, SoldAtMost
<1> HIDE DEF amount, share, reward, sold
<1>8. returned - amount \in Nat
  BY <1>1, <1>2, <1>5 DEF SwapSucceeds
<1>9. /\ CallerAmount(returned - amount, reward) \in Nat
      /\ CallerAmount(returned - amount, reward) <= returned - amount
  BY <1>6, <1>8, CallerAmountAtMost
<1>10. tb.elastic \in Nat /\ tb.base \in Nat /\ amount <= tb.elastic /\ repaid <= tb.base
  <2>1. tb.elastic \in Nat /\ tb.base \in Nat
    BY <1>4 DEF SoundDebt
  <2>2. repaid \in Int
    <3>1. CASE amount = ToElasticUp(tb, part)
      BY <1>2, <3>1 DEF LiquidatedPart
    <3>2. CASE amount # ToElasticUp(tb, part)
      <4>1. amount * tb.base \in Nat
        BY <1>5, <2>1, SMT
      <4>2. ToBaseDown(tb, amount) \in Nat
        BY <1>5, <2>1, <4>1, DivFacts DEF ToBaseDown
      <4> QED
        BY <3>2, <4>2 DEF LiquidatedPart
    <3> QED
      BY <3>1, <3>2
  <2> QED
    BY <1>1, <1>5, <2>1, <2>2 DEF NonNegative
<1>11. repaid \in Nat /\ SoundDebt(owed) /\ NoDearer(owed, tb)
  <2>1. CASE amount = ToElasticUp(tb, part)
    <3>1. repaid = part
      BY <2>1 DEF LiquidatedPart
    <3>2. owed = RebaseSubUp(tb, part)
      BY <2>1, <3>1 DEF RebaseSubUp
    <3> QED
      BY <1>2, <1>4, <1>10, <3>1, <3>2, SubKeepsSound
  <2>2. CASE amount # ToElasticUp(tb, part)
    <3>1. repaid = ToBaseDown(tb, amount)
      BY <2>2 DEF LiquidatedPart
    <3> QED
      BY <1>4, <1>5, <1>10, <3>1, PartialKeepsSound
  <2> QED
    BY <2>1, <2>2
<1> HIDE DEF repaid
<1>12. DebtEffect
  <2>1. amount <= usdoSupply
    BY <1>1, <1>2, <1>5, <1>8 DEF Circulating
  <2>2. repaid <= userBorrowPart[user]
    BY <1>1 DEF part
  <2>3. totalBorrow' = [elastic |-> AccruedBorrow.elastic - amount,
                        base    |-> AccruedBorrow.base - repaid]
    BY <1>1 DEF tb
  <2>4. SoundDebt(totalBorrow') /\ NoDearer(totalBorrow', AccruedBorrow)
    BY <1>1, <1>11 DEF tb
  <2> QED
    BY <1>1, <1>5, <1>11, <2>1, <2>2, <2>3, <2>4, SettleEffect
<1>13. userCollateralShare' \in [Users -> Nat]
  BY <1>1, <1>2, <1>5 DEF coll
<1>14. totalCollateralShare' \in Nat /\ ybCollateral' \in Nat /\ usdoBalance' \in Nat
  BY <1>1, <1>2, <1>5, <1>7, <1>8, <1>9
<1> QED
  BY <1>1, <1>3, <1>12, <1>13, <1>14, DebtStep

LEMMA LiquidateBadDebtEffect ==
    ASSUME IInv, NEW user \in Users, NEW answer \in OracleAnswers,
           LiquidateBadDebt(user, answer)
    PROVE  StepEffect
<1> DEFINE part   == userBorrowPart[user]
           coll   == userCollateralShare[user]
           amount == ToElasticUp(AccruedBorrow, part)
           owed   == [elastic |-> AccruedBorrow.elastic - amount,
                      base |-> AccruedBorrow.base - part]
           sold   == ToShare(ShareRatio, ToAmount(ShareRatio, coll))
<1>1. /\ NonNegative(owed) /\ coll <= totalCollateralShare /\ sold <= ybCollateral
      /\ amount <= Circulating
      /\ TryReadOracle(answer) /\ ChargeInterest
      /\ totalBorrow' = owed
      /\ userBorrowPart' = [userBorrowPart EXCEPT ![user] = 0]
      /\ userCollateralShare' = [userCollateralShare EXCEPT ![user] = 0]
      /\ totalCollateralShare' = totalCollateralShare - coll
      /\ ybCollateral' = ybCollateral - sold
      /\ usdoSupply' = usdoSupply - amount
      /\ UNCHANGED <<now, usdoBalance, pauseVars>>
  BY DEF LiquidateBadDebt
<1>2. /\ coll \in Nat /\ part \in Nat /\ totalCollateralShare \in Nat
      /\ ybCollateral \in Nat /\ usdoBalance \in Nat /\ usdoSupply \in Nat
      /\ userBorrowPart \in [Users -> Nat] /\ userCollateralShare \in [Users -> Nat]
  BY DEF IInv, TypeOK
<1>3. exchangeRate' \in Rates /\ rateTimestamp' \in 0..now'
  BY <1>1, TryReadOracleType
<1>4. SoundDebt(AccruedBorrow)
  BY InterestFacts
<1>5. part <= AccruedBorrow.base
  BY <1>1, <1>2, <1>4 DEF NonNegative, SoundDebt
<1>6. amount \in Nat /\ SoundDebt(owed) /\ NoDearer(owed, AccruedBorrow)
  BY <1>2, <1>4, <1>5, SubKeepsSound DEF RebaseSubUp
<1>7. sold \in Nat
  BY <1>2, SoldAtMost
<1>8. userBorrowPart' = [userBorrowPart EXCEPT ![user] = @ - part]
  <2>1. userBorrowPart[user] - part = 0
    BY <1>2
  <2> QED
    BY <1>1, <2>1, Zenon
<1>9. amount <= usdoSupply
  BY <1>1, <1>2, <1>6 DEF Circulating
<1> HIDE DEF amount, sold
<1>10. DebtEffect
  <2>1. totalBorrow' = [elastic |-> AccruedBorrow.elastic - amount,
                        base    |-> AccruedBorrow.base - part]
    BY <1>1
  <2>2. SoundDebt(totalBorrow') /\ NoDearer(totalBorrow', AccruedBorrow)
    BY <1>1, <1>6
  <2>3. part <= userBorrowPart[user] /\ usdoSupply' = usdoSupply - amount
    BY <1>1, <1>2
  <2> HIDE DEF part
  <2> QED
    BY <1>2, <1>6, <1>8, <1>9, <2>1, <2>2, <2>3, SettleEffect
<1>11. /\ userCollateralShare' \in [Users -> Nat] /\ totalCollateralShare' \in Nat
       /\ ybCollateral' \in Nat /\ usdoBalance' \in Nat
  BY <1>1, <1>2, <1>7
<1> QED
  BY <1>1, <1>3, <1>10, <1>11, DebtStep

LEMMA RefreshPenroseFeesEffect ==
    ASSUME IInv, RefreshPenroseFees
    PROVE  StepEffect
<1>1. TypeOK'
  BY DEF RefreshPenroseFees, IInv, TypeOK, clockVars, rateVars, debtVars,
         collateralVars, pauseVars
<1> QED
  BY <1>1, QuietStep DEF RefreshPenroseFees, debtVars

LEMMA MintOpenInterestDebtEffect ==
    ASSUME IInv, MintOpenInterestDebt
    PROVE  StepEffect
<1>1. TypeOK'
  BY DEF MintOpenInterestDebt, IInv, TypeOK, clockVars, rateVars, debtVars,
         collateralVars, pauseVars
<1>2. NoDearer(totalBorrow', AccruedBorrow) /\ SoundDebt(totalBorrow')
  BY AccruedIsFair, DebtIsSound DEF MintOpenInterestDebt, debtVars
<1>3. Surplus' = Surplus /\ Surplus \in Int
  BY BigBangAssumption DEF MintOpenInterestDebt, debtVars, Surplus, IInv, TypeOK
<1>4. Ledger!MintInterest
  BY BigBangAssumption
  DEF MintOpenInterestDebt, debtVars, Ledger!MintInterest, IInv, TypeOK
<1> QED
  BY <1>1, <1>2, <1>3, <1>4 DEF StepEffect, Ledger!Next

LEMMA UpdatePauseEffect ==
    ASSUME IInv, NEW type \in Pausable, NEW val \in BOOLEAN,
           UpdatePause(type, val) \/ UpdatePauseAll(val)
    PROVE  StepEffect
<1>1. pauseOptions' \subseteq PauseType
  BY BigBangAssumption DEF UpdatePause, UpdatePauseAll, IInv, TypeOK
<1>2. UNCHANGED <<clockVars, rateVars, debtVars, collateralVars, usdoVars, penrosePaused>>
  BY DEF UpdatePause, UpdatePauseAll
<1>3. TypeOK'
  BY <1>1, <1>2 DEF IInv, TypeOK, clockVars, rateVars, debtVars, collateralVars, usdoVars
<1> QED
  BY <1>2, <1>3, QuietStep DEF debtVars, usdoVars

LEMMA UpdatePenrosePauseEffect ==
    ASSUME IInv, UpdatePenrosePause
    PROVE  StepEffect
<1>1. TypeOK'
  BY DEF UpdatePenrosePause, IInv, TypeOK, clockVars, rateVars, debtVars,
         collateralVars, usdoVars
<1> QED
  BY <1>1, QuietStep DEF UpdatePenrosePause, debtVars, usdoVars

LEMMA TickEffect ==
    ASSUME IInv, Tick
    PROVE  StepEffect
<1>1. TypeOK'
  BY BigBangAssumption DEF Tick, IInv, TypeOK, rateVars, debtVars,
         collateralVars, usdoVars, pauseVars
<1> QED
  BY <1>1, QuietStep DEF Tick, debtVars, usdoVars

(* Every step, and stuttering.                                             *)
LEMMA StepHasEffect ==
    ASSUME IInv, [Next]_vars
    PROVE  StepEffect
<1>1. CASE UserStep
  BY <1>1, AccrueEffect, UpdateExchangeRateEffect, TransferToMarketEffect,
     AddCollateralEffect, RemoveCollateralEffect, BorrowEffect, RepayEffect
  DEF UserStep
<1>2. CASE LeverageStep
  BY <1>2, BuyCollateralEffect, SellCollateralEffect DEF LeverageStep
<1>3. CASE LiquidationStep
  BY <1>3, LiquidateEffect, LiquidateBadDebtEffect DEF LiquidationStep
<1>4. CASE GovernanceStep
  <2>1. CASE RefreshPenroseFees
    BY <2>1, RefreshPenroseFeesEffect
  <2>2. CASE MintOpenInterestDebt
    BY <2>2, MintOpenInterestDebtEffect
  <2>3. CASE \E type \in Pausable, val \in BOOLEAN : UpdatePause(type, val)
    BY <2>3, UpdatePauseEffect
  <2>4. CASE Pausable = PauseType /\ \E val \in BOOLEAN : UpdatePauseAll(val)
    <3>1. "Borrow" \in Pausable
      BY <2>4 DEF PauseType
    <3> QED
      BY <2>4, <3>1, UpdatePauseEffect
  <2>5. CASE UpdatePenrosePause
    BY <2>5, UpdatePenrosePauseEffect
  <2> QED
    BY <1>4, <2>1, <2>2, <2>3, <2>4, <2>5 DEF GovernanceStep
<1>5. CASE Tick
  BY <1>5, TickEffect
<1>6. CASE UNCHANGED vars
  <2>1. TypeOK'
    BY <1>6 DEF IInv, TypeOK, vars, clockVars, rateVars, debtVars,
       collateralVars, usdoVars, pauseVars
  <2> QED
    BY <1>6, <2>1, QuietStep DEF vars, debtVars, usdoVars
<1> QED
  BY <1>1, <1>2, <1>3, <1>4, <1>5, <1>6 DEF Next

LEMMA InitIsSound ==
    ASSUME Init
    PROVE  IInv /\ UsdoBacked /\ Ledger!Init
<1>1. TypeOK
  <2>1. totalBorrow \in [elastic : 0..MaxUint128, base : 0..MaxUint128]
    BY BigBangAssumption DEF Init, ZeroRebase
  <2>2. now \in 0..MaxTime /\ lastAccrued \in 0..now /\ rateTimestamp \in 0..now
    BY BigBangAssumption DEF Init
  <2>3. userBorrowPart \in [Users -> Nat] /\ userCollateralShare \in [Users -> Nat]
    BY DEF Init
  <2> QED
    BY <2>1, <2>2, <2>3, BigBangAssumption DEF Init, TypeOK
<1>2. DebtShape /\ UsdoBacked
  BY BigBangAssumption DEF Init, DebtShape, UsdoBacked, ZeroRebase
<1>3. Ledger!Init
  BY BigBangAssumption DEF Init, Ledger!Init, ZeroRebase
<1> QED
  BY <1>1, <1>2, <1>3 DEF IInv

LEMMA IInvHolds == Spec => []IInv
<1>1. Init => IInv
  BY InitIsSound
<1>2. IInv /\ [Next]_vars => IInv'
  BY StepHasEffect DEF StepEffect, SoundDebt, IInv, DebtShape
<1> QED
  BY <1>1, <1>2, PTL DEF Spec

-----------------------------------------------------------------------------
(* Positions.  A step leaves every position alone or moves that of one     *)
(* user, the totals with it, and then it takes no collateral and adds no   *)
(* debt, or checks that the position is solvent, or found that it was not. *)

NoPositionMoves ==
    /\ UNCHANGED <<userBorrowPart, userCollateralShare, totalCollateralShare>>
    /\ totalBorrow'.base = totalBorrow.base

PositionMoves(u, part, coll) ==
    /\ userBorrowPart' = [userBorrowPart EXCEPT ![u] = part]
    /\ userCollateralShare' = [userCollateralShare EXCEPT ![u] = coll]
    /\ totalBorrow'.base = totalBorrow.base + part - userBorrowPart[u]
    /\ totalCollateralShare' = totalCollateralShare + coll - userCollateralShare[u]
    /\ \/ part <= userBorrowPart[u] /\ coll >= userCollateralShare[u]
       \/ SolventAfter(u)
       \/ ~Solvent(collateralizationRate, u, AccruedBorrow, exchangeRate')

PositionEffect ==
    \/ NoPositionMoves
    \/ \E u \in Users, part, coll \in Nat : PositionMoves(u, part, coll)

LEMMA PositionTypes ==
    ASSUME IInv
    PROVE  /\ userBorrowPart \in [Users -> Nat]
           /\ userCollateralShare \in [Users -> Nat]
           /\ totalCollateralShare \in Nat
           /\ totalBorrow.base \in Nat
           /\ AccruedBorrow.base = totalBorrow.base
  BY BigBangAssumption DEF IInv, TypeOK, AccruedBorrow

(* No position exceeds the totals.                                         *)
LEMMA PositionWithinTotals ==
    ASSUME IInv, PositionsAddUp, NEW u \in Users
    PROVE  /\ userBorrowPart[u] <= totalBorrow.base
           /\ userCollateralShare[u] <= totalCollateralShare
  BY PositionTypes, UsersAssumption, SumBounds DEF PositionsAddUp

(* A function updated with the value it has.                               *)
LEMMA SameValue ==
    ASSUME NEW S, NEW f \in [S -> Nat], NEW u \in S
    PROVE  f = [f EXCEPT ![u] = f[u]]
  OBVIOUS

(* A step that moves the collateral of one user, and one that moves its    *)
(* debt.                                                                   *)
LEMMA CollateralMoves ==
    ASSUME IInv, NEW u \in Users, NEW coll \in Nat,
           userBorrowPart' = userBorrowPart, totalBorrow'.base = totalBorrow.base,
           userCollateralShare' = [userCollateralShare EXCEPT ![u] = coll],
           totalCollateralShare' = totalCollateralShare + coll - userCollateralShare[u],
           coll >= userCollateralShare[u] \/ SolventAfter(u)
    PROVE  PositionEffect
<1> DEFINE part == userBorrowPart[u]
<1>1. part \in Nat /\ userBorrowPart' = [userBorrowPart EXCEPT ![u] = part]
  BY PositionTypes, SameValue
<1>2. totalBorrow'.base = totalBorrow.base + part - userBorrowPart[u] /\ part <= userBorrowPart[u]
  BY <1>1, PositionTypes
<1> HIDE DEF part
<1>3. PositionMoves(u, part, coll)
  BY <1>1, <1>2 DEF PositionMoves
<1> QED
  BY <1>1, <1>3 DEF PositionEffect

LEMMA DebtMoves ==
    ASSUME IInv, NEW u \in Users, NEW part \in Nat,
           userCollateralShare' = userCollateralShare,
           totalCollateralShare' = totalCollateralShare,
           userBorrowPart' = [userBorrowPart EXCEPT ![u] = part],
           totalBorrow'.base = totalBorrow.base + part - userBorrowPart[u],
           part <= userBorrowPart[u] \/ SolventAfter(u)
    PROVE  PositionEffect
<1> DEFINE coll == userCollateralShare[u]
<1>1. coll \in Nat /\ userCollateralShare' = [userCollateralShare EXCEPT ![u] = coll]
  BY PositionTypes, SameValue
<1>2. totalCollateralShare' = totalCollateralShare + coll - userCollateralShare[u]
      /\ coll >= userCollateralShare[u]
  BY <1>1, PositionTypes
<1> HIDE DEF coll
<1>3. PositionMoves(u, part, coll)
  BY <1>1, <1>2 DEF PositionMoves
<1> QED
  BY <1>1, <1>3 DEF PositionEffect

LEMMA AddCollateralMoves ==
    ASSUME IInv, NEW to \in Users, NEW share \in Shares, NEW skim \in BOOLEAN,
           AddCollateral(to, share, skim)
    PROVE  PositionEffect
<1>1. /\ userCollateralShare' = [userCollateralShare EXCEPT ![to] = @ + share]
      /\ totalCollateralShare' = totalCollateralShare + share
      /\ UNCHANGED debtVars
  BY DEF AddCollateral
<1> DEFINE coll == userCollateralShare[to] + share
<1>2. coll \in Nat /\ coll >= userCollateralShare[to]
      /\ totalCollateralShare' = totalCollateralShare + coll - userCollateralShare[to]
  BY <1>1, PositionTypes, BigBangAssumption
<1>3. userCollateralShare' = [userCollateralShare EXCEPT ![to] = coll]
  BY <1>1
<1> HIDE DEF coll
<1> QED
  BY <1>1, <1>2, <1>3, CollateralMoves DEF debtVars

LEMMA RemoveCollateralMoves ==
    ASSUME IInv, NEW from \in Users, NEW share \in Shares, NEW rate \in Rates,
           RemoveCollateral(from, share, rate)
    PROVE  PositionEffect
<1>1. /\ totalBorrow' = AccruedBorrow /\ userBorrowPart' = userBorrowPart
      /\ share <= userCollateralShare[from]
      /\ userCollateralShare' = [userCollateralShare EXCEPT ![from] = @ - share]
      /\ totalCollateralShare' = totalCollateralShare - share
      /\ SolventAfter(from)
  BY DEF RemoveCollateral
<1> DEFINE coll == userCollateralShare[from] - share
<1>2. coll \in Nat
      /\ totalCollateralShare' = totalCollateralShare + coll - userCollateralShare[from]
  BY <1>1, PositionTypes, BigBangAssumption
<1>3. userCollateralShare' = [userCollateralShare EXCEPT ![from] = coll]
  BY <1>1
<1> HIDE DEF coll
<1> QED
  BY <1>1, <1>2, <1>3, PositionTypes, CollateralMoves

LEMMA BorrowCoreMoves ==
    ASSUME IInv, NEW u \in Users, NEW amount \in Amounts, NEW price \in AssetPrices,
           BorrowCore(u, AccruedBorrow, amount, OpeningFee(amount, price))
    PROVE  \E part \in Nat :
              /\ userBorrowPart' = [userBorrowPart EXCEPT ![u] = part]
              /\ totalBorrow'.base = totalBorrow.base + part - userBorrowPart[u]
<1> DEFINE due == amount + OpeningFee(amount, price)
           add == ToBaseUp(AccruedBorrow, due)
<1>1. due \in Nat
  <2>1. amount \in Nat /\ price \in Nat
    BY BigBangAssumption
  <2>2. OpeningFee(amount, price) \in Nat
    BY <2>1, OpeningFeeType
  <2> QED
    BY <2>1, <2>2
<1> HIDE DEF due
<1>2. add \in Nat
  BY <1>1, InterestFacts, AddKeepsSound
<1>3. /\ totalBorrow'.base = AccruedBorrow.base + add
      /\ userBorrowPart' = [userBorrowPart EXCEPT ![u] = userBorrowPart[u] + add]
  BY DEF BorrowCore, RebaseAddUp, due
<1> HIDE DEF add
<1>4. userBorrowPart[u] \in Nat /\ userBorrowPart[u] + add \in Nat
  BY <1>2, PositionTypes
<1>5. totalBorrow'.base = totalBorrow.base + (userBorrowPart[u] + add) - userBorrowPart[u]
  BY <1>2, <1>3, <1>4, PositionTypes
<1> QED
  BY <1>3, <1>4, <1>5

LEMMA BorrowMoves ==
    ASSUME IInv, NEW from \in Users, NEW amount \in Amounts, NEW rate \in Rates,
           NEW price \in AssetPrices, Borrow(from, amount, rate, price)
    PROVE  PositionEffect
<1>1. UNCHANGED <<userCollateralShare, totalCollateralShare>> /\ SolventAfter(from)
  BY DEF Borrow, collateralVars
<1>2. CASE totalBorrow' = AccruedBorrow /\ UNCHANGED userBorrowPart
  BY <1>1, <1>2, PositionTypes DEF PositionEffect, NoPositionMoves
<1>3. CASE BorrowCore(from, AccruedBorrow, amount, OpeningFee(amount, price))
  <2>1. PICK part \in Nat :
              /\ userBorrowPart' = [userBorrowPart EXCEPT ![from] = part]
              /\ totalBorrow'.base = totalBorrow.base + part - userBorrowPart[from]
    BY <1>3, BorrowCoreMoves
  <2> QED
    BY <1>1, <2>1, DebtMoves
<1> QED
  BY <1>2, <1>3 DEF Borrow

LEMMA RepayCoreMoves ==
    ASSUME IInv, NEW u \in Users, NEW requested \in Nat,
           RepayCore(u, AccruedBorrow, requested)
    PROVE  \E part \in Nat :
              /\ part <= userBorrowPart[u]
              /\ userBorrowPart' = [userBorrowPart EXCEPT ![u] = part]
              /\ totalBorrow'.base = totalBorrow.base + part - userBorrowPart[u]
<1> DEFINE paid == Least(requested, userBorrowPart[u])
<1>1. userBorrowPart[u] \in Nat
  BY PositionTypes
<1>2. paid \in Nat /\ paid <= userBorrowPart[u]
  BY <1>1 DEF Least
<1>3. /\ userBorrowPart' = [userBorrowPart EXCEPT ![u] = userBorrowPart[u] - paid]
      /\ totalBorrow'.base = AccruedBorrow.base - paid
  BY DEF RepayCore, RebaseSubUp
<1> HIDE DEF paid
<1>4. userBorrowPart[u] - paid \in Nat /\ userBorrowPart[u] - paid <= userBorrowPart[u]
      /\ totalBorrow'.base = totalBorrow.base + (userBorrowPart[u] - paid) - userBorrowPart[u]
  BY <1>1, <1>2, <1>3, PositionTypes
<1> QED
  BY <1>3, <1>4

LEMMA RepayMoves ==
    ASSUME IInv, NEW to \in Users, NEW requested \in Parts, NEW rate \in OracleAnswers,
           Repay(to, requested, rate)
    PROVE  PositionEffect
<1>1. /\ UNCHANGED <<userCollateralShare, totalCollateralShare>>
      /\ RepayCore(to, AccruedBorrow, requested) /\ requested \in Nat
  BY BigBangAssumption DEF Repay, collateralVars
<1>2. PICK part \in Nat :
            /\ part <= userBorrowPart[to]
            /\ userBorrowPart' = [userBorrowPart EXCEPT ![to] = part]
            /\ totalBorrow'.base = totalBorrow.base + part - userBorrowPart[to]
  BY <1>1, RepayCoreMoves
<1> QED
  BY <1>1, <1>2, DebtMoves

LEMMA BuyCollateralMoves ==
    ASSUME IInv, NEW from \in Users, NEW amount \in Amounts, NEW supply \in Amounts,
           NEW rate \in Rates, NEW price \in AssetPrices, NEW out \in Amounts,
           BuyCollateral(from, amount, supply, rate, price, out)
    PROVE  PositionEffect
<1> DEFINE share == ToShare(ShareRatio, out)
<1>1. /\ BorrowCore(from, AccruedBorrow, amount, OpeningFee(amount, price))
      /\ userCollateralShare' = [userCollateralShare EXCEPT ![from] = @ + share]
      /\ totalCollateralShare' = totalCollateralShare + share
      /\ SolventAfter(from)
  BY DEF BuyCollateral
<1>2. share \in Nat
  <2>1. out \in Nat /\ ShareRatio \in Nat
    BY BigBangAssumption, PrecisionAssumption
  <2> QED
    BY <2>1, SMT DEF ToShare
<1> HIDE DEF share
<1>3. PICK part \in Nat :
            /\ userBorrowPart' = [userBorrowPart EXCEPT ![from] = part]
            /\ totalBorrow'.base = totalBorrow.base + part - userBorrowPart[from]
  BY <1>1, BorrowCoreMoves
<1>4. userCollateralShare[from] + share \in Nat
  BY <1>2, PositionTypes
<1>5. PositionMoves(from, part, userCollateralShare[from] + share)
  BY <1>1, <1>2, <1>3, <1>4, PositionTypes DEF PositionMoves
<1> QED
  BY <1>4, <1>5 DEF PositionEffect

LEMMA SoldPartType ==
    ASSUME IInv, NEW from \in Users, NEW out \in Amounts
    PROVE  (IF ToElasticUp(AccruedBorrow, userBorrowPart[from]) <= out
            THEN userBorrowPart[from] ELSE ToBaseDown(AccruedBorrow, out)) \in Nat
<1>1. /\ AccruedBorrow.elastic \in Nat /\ AccruedBorrow.base \in Nat
      /\ userBorrowPart[from] \in Nat /\ out \in Nat
  BY InterestFacts, PositionTypes, BigBangAssumption DEF SoundDebt
<1>2. out * AccruedBorrow.base \in Nat
  BY <1>1, SMT
<1>3. ToBaseDown(AccruedBorrow, out) \in Nat
  BY <1>1, <1>2, DivFacts DEF ToBaseDown
<1> QED
  BY <1>1, <1>3

LEMMA SellCollateralMoves ==
    ASSUME IInv, NEW from \in Users, NEW share \in Shares, NEW rate \in Rates,
           NEW out \in Amounts, SellCollateral(from, share, rate, out)
    PROVE  PositionEffect
<1> DEFINE repaid == IF ToElasticUp(AccruedBorrow, userBorrowPart[from]) <= out
                     THEN userBorrowPart[from] ELSE ToBaseDown(AccruedBorrow, out)
<1>1. /\ RepayCore(from, AccruedBorrow, repaid)
      /\ share <= userCollateralShare[from]
      /\ userCollateralShare' = [userCollateralShare EXCEPT ![from] = @ - share]
      /\ totalCollateralShare' = totalCollateralShare - share
      /\ SolventAfter(from)
  BY DEF SellCollateral
<1>2. repaid \in Nat
  BY SoldPartType
<1> HIDE DEF repaid
<1>3. PICK part \in Nat :
            /\ userBorrowPart' = [userBorrowPart EXCEPT ![from] = part]
            /\ totalBorrow'.base = totalBorrow.base + part - userBorrowPart[from]
  BY <1>1, <1>2, RepayCoreMoves
<1>4. share \in Nat /\ userCollateralShare[from] - share \in Nat
  BY <1>1, PositionTypes, BigBangAssumption
<1>5. PositionMoves(from, part, userCollateralShare[from] - share)
  BY <1>1, <1>3, <1>4, PositionTypes DEF PositionMoves
<1> QED
  BY <1>4, <1>5 DEF PositionEffect

(* What a liquidation moves; the saturating subtraction of                 *)
(* _liquidateUser does not saturate, as the position is part of the total. *)
LEMMA LiquidateMoves ==
    ASSUME IInv, PositionsAddUp,
           NEW user \in Users, NEW max \in Parts, NEW bonus \in Bonuses,
           NEW answer \in OracleAnswers, NEW returned \in Amounts,
           Liquidate(user, max, bonus, answer, returned)
    PROVE  /\ PositionEffect
           /\ ~Solvent(collateralizationRate, user, AccruedBorrow, exchangeRate')
           /\ \A u \in Users \ {user} : userBorrowPart'[u] = userBorrowPart[u]
<1> DEFINE rate   == RateOrCached(answer)
           coll   == userCollateralShare[user]
           part   == userBorrowPart[user]
           amount == LiquidatedAmount(coll, part, AccruedBorrow, rate, max)
           repaid == LiquidatedPart(part, AccruedBorrow, amount)
           share  == LiquidatedShare(coll, rate, amount)
<1>1. /\ ~Solvent(liquidationCollateralizationRate, user, AccruedBorrow, rate)
      /\ MayLiquidate(coll, part, AccruedBorrow, rate, max, bonus)
      /\ repaid <= part
      /\ TryReadOracle(answer) /\ UNCHANGED now
      /\ userBorrowPart' = [userBorrowPart EXCEPT ![user] = part - repaid]
      /\ userCollateralShare' = [userCollateralShare EXCEPT ![user] = coll - share]
      /\ totalCollateralShare' =
            IF totalCollateralShare > share THEN totalCollateralShare - share ELSE 0
      /\ totalBorrow'.base = AccruedBorrow.base - repaid
  BY DEF Liquidate
<1>2. coll \in Nat /\ part \in Nat /\ coll <= totalCollateralShare /\ max \in Nat
      /\ bonus \in Nat
  BY PositionTypes, PositionWithinTotals, BigBangAssumption
<1>3. rate \in Nat \ {0} /\ rate = exchangeRate'
  BY <1>1, TryReadOracleType DEF TryReadOracle, RateOrCached, ReadOracle, rateVars
<1>4. SoundDebt(AccruedBorrow) /\ AccruedBorrow.base \in Nat /\ AccruedBorrow.elastic \in Nat
  BY InterestFacts DEF SoundDebt
<1>5. ~Solvent(collateralizationRate, user, AccruedBorrow, exchangeRate')
  <2> HIDE DEF rate
  <2>1. ~IsSolvent(liquidationCollateralizationRate, coll, part, AccruedBorrow, rate)
    BY <1>1 DEF Solvent
  <2>2. ~IsSolvent(collateralizationRate, coll, part, AccruedBorrow, rate)
    BY <1>2, <1>3, <1>4, <2>1, LiquidatableIsInsolvent
  <2> QED
    BY <1>3, <2>2 DEF Solvent
<1> HIDE DEF rate
<1>6. AccruedBorrow.base # 0 /\ amount \in Nat /\ share \in Nat /\ share <= coll
  BY <1>1, <1>2, <1>3, <1>4, LiquidationTakes
<1>7. repaid \in Nat
  <2>1. amount * AccruedBorrow.base \in Nat
    BY <1>4, <1>6, SMT
  <2>2. AccruedBorrow.elastic # 0
    BY <1>4, <1>6 DEF SoundDebt
  <2>3. ToBaseDown(AccruedBorrow, amount) \in Nat
    BY <1>4, <2>1, <2>2, DivFacts DEF ToBaseDown
  <2> QED
    BY <1>2, <2>3 DEF LiquidatedPart
<1> HIDE DEF amount, repaid, share
<1>8. part - repaid \in Nat /\ coll - share \in Nat
  BY <1>1, <1>2, <1>6, <1>7
<1>9. /\ totalBorrow'.base = totalBorrow.base + (part - repaid) - part
      /\ totalCollateralShare' = totalCollateralShare + (coll - share) - coll
  BY <1>1, <1>2, <1>6, <1>7, PositionTypes
<1>10. PositionMoves(user, part - repaid, coll - share)
  BY <1>1, <1>5, <1>9 DEF PositionMoves
<1>11. \A u \in Users \ {user} : userBorrowPart'[u] = userBorrowPart[u]
  BY <1>1, PositionTypes
<1> QED
  BY <1>5, <1>8, <1>10, <1>11 DEF PositionEffect

LEMMA LiquidateBadDebtMoves ==
    ASSUME IInv, NEW user \in Users, NEW answer \in OracleAnswers,
           LiquidateBadDebt(user, answer)
    PROVE  PositionEffect
<1>1. /\ totalBorrow'.base = AccruedBorrow.base - userBorrowPart[user]
      /\ userBorrowPart' = [userBorrowPart EXCEPT ![user] = 0]
      /\ userCollateralShare' = [userCollateralShare EXCEPT ![user] = 0]
      /\ totalCollateralShare' = totalCollateralShare - userCollateralShare[user]
  BY DEF LiquidateBadDebt
<1>2. SolventAfter(user)
  <2>1. userBorrowPart'[user] = 0
    BY <1>1, PositionTypes
  <2> QED
    BY <2>1 DEF SolventAfter, Solvent, IsSolvent
<1>3. userBorrowPart[user] \in Nat /\ userCollateralShare[user] \in Nat
  BY PositionTypes
<1>4. PositionMoves(user, 0, 0)
  BY <1>1, <1>2, <1>3, PositionTypes DEF PositionMoves
<1> QED
  BY <1>4 DEF PositionEffect

LEMMA StepMovesOne ==
    ASSUME IInv, PositionsAddUp, [Next]_vars
    PROVE  PositionEffect
<1>1. CASE Accrue
  BY <1>1, PositionTypes DEF Accrue, collateralVars, PositionEffect, NoPositionMoves
<1>2. CASE UNCHANGED <<debtVars, userCollateralShare, totalCollateralShare>>
  BY <1>2 DEF debtVars, PositionEffect, NoPositionMoves
<1>3. CASE UserStep
  BY <1>1, <1>2, <1>3, AddCollateralMoves, RemoveCollateralMoves, BorrowMoves, RepayMoves
  DEF UserStep, UpdateExchangeRate, TransferToMarket, collateralVars
<1>4. CASE LeverageStep
  BY <1>4, BuyCollateralMoves, SellCollateralMoves DEF LeverageStep
<1>5. CASE LiquidationStep
  BY <1>5, LiquidateMoves, LiquidateBadDebtMoves DEF LiquidationStep
<1>6. CASE GovernanceStep \/ Tick \/ UNCHANGED vars
  BY <1>2, <1>6
  DEF GovernanceStep, RefreshPenroseFees, MintOpenInterestDebt, UpdatePause,
      UpdatePauseAll, UpdatePenrosePause, Tick, vars, collateralVars
<1> QED
  BY <1>3, <1>4, <1>5, <1>6 DEF Next

LEMMA PositionsKeepAddingUp == IInv /\ PositionsAddUp /\ [Next]_vars => PositionsAddUp'
<1> SUFFICES ASSUME IInv, PositionsAddUp, [Next]_vars
             PROVE  PositionsAddUp'
  OBVIOUS
<1>1. CASE NoPositionMoves
  BY <1>1 DEF NoPositionMoves, PositionsAddUp
<1>2. ASSUME NEW u \in Users, NEW part \in Nat, NEW coll \in Nat,
             PositionMoves(u, part, coll)
      PROVE  PositionsAddUp'
  <2>1. SumFunction(userBorrowPart') = SumFunction(userBorrowPart) + part - userBorrowPart[u]
    BY <1>2, PositionTypes, UsersAssumption, SumUpdate DEF PositionMoves
  <2>2. SumFunction(userCollateralShare')
          = SumFunction(userCollateralShare) + coll - userCollateralShare[u]
    BY <1>2, PositionTypes, UsersAssumption, SumUpdate DEF PositionMoves
  <2> QED
    BY <1>2, <2>1, <2>2 DEF PositionMoves, PositionsAddUp
<1> QED
  BY <1>1, <1>2, StepMovesOne DEF PositionEffect

LEMMA InitAddsUp == Init => PositionsAddUp
<1> SUFFICES ASSUME Init
             PROVE  PositionsAddUp
  OBVIOUS
<1>1. SumFunction([u \in Users |-> 0]) = 0
  BY UsersAssumption, SumOfZeros
<1> QED
  BY <1>1 DEF Init, PositionsAddUp, ZeroRebase

LEMMA AddUpHolds == Spec => []PositionsAddUp
  BY InitAddsUp, PositionsKeepAddingUp, IInvHolds, PTL DEF Spec

(* No step, whoever takes it, makes a position insolvent.                  *)
LEMMA StepKeepsSolvent ==
    ASSUME IInv, PositionsAddUp, [Next]_vars, NEW u \in Users,
           Solvent(collateralizationRate, u, AccruedBorrow, exchangeRate')
    PROVE  Solvent(collateralizationRate, u, totalBorrow, exchangeRate)'
<1> DEFINE part == userBorrowPart[u]
           coll == userCollateralShare[u]
<1>1. IInv' /\ PositionsAddUp' /\ NoDearer(totalBorrow', AccruedBorrow)
      /\ SoundDebt(totalBorrow')
  BY StepHasEffect, PositionsKeepAddingUp DEF StepEffect, SoundDebt, IInv, DebtShape
<1>2. /\ part \in Nat /\ coll \in Nat /\ part' \in Nat /\ coll' \in Nat
      /\ part' <= totalBorrow'.base
  BY <1>1, PositionTypes, PositionWithinTotals, UsersAssumption, SumBounds
  DEF IInv, TypeOK, PositionsAddUp
<1>3. exchangeRate' \in Nat \ {0} /\ collateralizationRate \in Nat
      /\ SoundDebt(AccruedBorrow)
  BY <1>1, InterestFacts, BigBangAssumption, RatesAssumption DEF IInv, TypeOK
<1>4. ASSUME coll <= coll', part' <= part
      PROVE  Solvent(collateralizationRate, u, totalBorrow, exchangeRate)'
  <2>1. IsSolvent(collateralizationRate, coll, part, AccruedBorrow, exchangeRate')
    BY DEF Solvent
  <2> HIDE DEF part, coll
  <2>2. IsSolvent(collateralizationRate, coll', part', totalBorrow', exchangeRate')
    BY <1>1, <1>2, <1>3, <1>4, <2>1, StaysSolvent
  <2> QED
    BY <2>2 DEF Solvent, part, coll
<1>5. CASE NoPositionMoves
  BY <1>2, <1>4, <1>5 DEF NoPositionMoves
<1>6. ASSUME NEW v \in Users, NEW p \in Nat, NEW c \in Nat, PositionMoves(v, p, c)
      PROVE  Solvent(collateralizationRate, u, totalBorrow, exchangeRate)'
  <2>1. CASE u # v
    <3>1. part' = part /\ coll' = coll
      BY <1>6, <2>1, PositionTypes DEF PositionMoves
    <3> QED
      BY <1>2, <1>4, <3>1
  <2>2. CASE u = v
    <3>1. part' = p /\ coll' = c
      BY <1>6, <2>2, PositionTypes DEF PositionMoves
    <3>2. CASE p <= userBorrowPart[u] /\ c >= userCollateralShare[u]
      <4>1. coll <= coll' /\ part' <= part
        BY <1>2, <3>1, <3>2
      <4> QED
        BY <1>4, <4>1
    <3>3. CASE SolventAfter(u)
      BY <3>3 DEF SolventAfter
    <3> QED
      BY <1>6, <2>2, <3>2, <3>3 DEF PositionMoves
  <2> QED
    BY <2>1, <2>2
<1> QED
  BY <1>5, <1>6, StepMovesOne DEF PositionEffect

-----------------------------------------------------------------------------
(* The variables always have their types: no unsigned subtraction of any   *)
(* handler underflows, the debt stays a uint128, and the clock of the      *)
(* interest and of the oracle never runs ahead.                            *)
THEOREM TypeCorrect == Spec => []TypeOK
<1>1. IInv => TypeOK
  BY DEF IInv
<1> QED
  BY <1>1, IInvHolds, PTL

(* A part of the debt is always worth at least one unit, and no debt is    *)
(* left without parts, whatever BBLendingCommon and BBLiquidation round.   *)
THEOREM DebtSound == Spec => []DebtShape
<1>1. IInv => DebtShape
  BY DEF IInv
<1> QED
  BY <1>1, IInvHolds, PTL

(* No USDO exists, and none can be minted against interest, that no        *)
(* borrower owes: Penrose.mintOpenInterestDebt and _repay keep in step.    *)
THEOREM UsdoIsBacked == Spec => []UsdoBacked
<1>1. IInv /\ UsdoBacked /\ [Next]_vars => UsdoBacked'
  <2> SUFFICES ASSUME IInv, UsdoBacked, [Next]_vars
               PROVE  UsdoBacked'
    OBVIOUS
  <2>1. TypeOK' /\ Surplus' >= Surplus
    BY StepHasEffect DEF StepEffect
  <2> QED
    BY <2>1, BigBangAssumption DEF UsdoBacked, Surplus, IInv, TypeOK
<1> QED
  BY <1>1, InitIsSound, IInvHolds, PTL DEF Spec

(* No operation raises the debt a part stands for above what interest      *)
(* makes it: the roundings of Rebase.add, sub and toBase favour borrowers. *)
THEOREM PartsGrowByInterestOnly == Spec => DebtPerPartOnlyGrowsByInterest
<1> DEFINE Fair == totalBorrow'.elastic * totalBorrow.base
                     <= AccruedBorrow.elastic * totalBorrow'.base
<1>1. IInv /\ [Next]_vars => [Fair]_vars
  BY StepHasEffect, InterestFacts DEF StepEffect, NoDearer
<1> QED
  BY <1>1, IInvHolds, PTL DEF Spec, DebtPerPartOnlyGrowsByInterest

(* BigBang implements the abstract ledger of debt, issued USDO and         *)
(* mintable interest.                                                      *)
THEOREM RefinesLedger == Spec => ImplementsLedger
<1>1. IInv /\ [Next]_vars => [Ledger!Next]_LedgerVars
  BY StepHasEffect DEF StepEffect
<1>2. Init => Ledger!Init
  BY InitIsSound
<1> QED
  BY <1>1, <1>2, IInvHolds, PTL DEF Spec, ImplementsLedger, Ledger!Spec, LedgerVars

(* Without leverage, the collateral credited to users is always held for   *)
(* the market in YieldBox: skimming and liquidating take no one's deposit. *)
THEOREM CollateralIsHeld ==
    ASSUME ~LeverageExecutorSet
    PROVE  Spec => []CollateralBacked
<1>1. Init => CollateralBacked
  BY DEF Init, CollateralBacked
<1>2. IInv /\ CollateralBacked /\ [Next]_vars => CollateralBacked'
  <2> SUFFICES ASSUME IInv, CollateralBacked, [Next]_vars
               PROVE  CollateralBacked'
    OBVIOUS
  <2>1. totalCollateralShare \in Nat /\ ybCollateral \in Nat
        /\ userCollateralShare \in [Users -> Nat]
    BY DEF IInv, TypeOK
  <2>2. CASE UNCHANGED collateralVars
    BY <2>2 DEF CollateralBacked, collateralVars
  <2>3. ASSUME NEW share \in Transfers, TransferToMarket(share)
        PROVE  CollateralBacked'
    BY <2>1, <2>3, BigBangAssumption DEF TransferToMarket, CollateralBacked
  <2>4. ASSUME NEW to \in Users, NEW share \in Shares, NEW skim \in BOOLEAN,
               AddCollateral(to, share, skim)
        PROVE  CollateralBacked'
    BY <2>1, <2>4, BigBangAssumption DEF AddCollateral, CollateralBacked
  <2>5. ASSUME NEW from \in Users, NEW share \in Shares, NEW rate \in Rates,
               RemoveCollateral(from, share, rate)
        PROVE  CollateralBacked'
    BY <2>1, <2>5, BigBangAssumption DEF RemoveCollateral, CollateralBacked
  <2>6. ASSUME NEW user \in Users, NEW max \in Parts, NEW bonus \in Bonuses,
               NEW answer \in OracleAnswers, NEW returned \in Amounts,
               Liquidate(user, max, bonus, answer, returned)
        PROVE  CollateralBacked'
    <3> DEFINE amount == LiquidatedAmount(userCollateralShare[user], userBorrowPart[user],
                            AccruedBorrow, RateOrCached(answer), max)
               share  == LiquidatedShare(userCollateralShare[user],
                            RateOrCached(answer), amount)
               sold   == ToShare(ShareRatio, ToAmount(ShareRatio, share))
    <3>1. /\ MayLiquidate(userCollateralShare[user], userBorrowPart[user],
                          AccruedBorrow, RateOrCached(answer), max, bonus)
          /\ TryReadOracle(answer) /\ UNCHANGED now
          /\ sold <= ybCollateral /\ ybCollateral' = ybCollateral - sold
          /\ totalCollateralShare' = IF totalCollateralShare > share
                                     THEN totalCollateralShare - share ELSE 0
      BY <2>6 DEF Liquidate
    <3>2. RateOrCached(answer) \in Nat \ {0}
      BY <3>1, TryReadOracleType
    <3>3. share \in Nat
      BY <2>1, <3>1, <3>2, InterestFacts, LiquidationTakes, BigBangAssumption
      DEF IInv, TypeOK
    <3>4. sold \in Nat /\ sold <= share
      BY <3>3, SoldAtMost
    <3> HIDE DEF share, sold
    <3> QED
      BY <2>1, <3>1, <3>3, <3>4 DEF CollateralBacked
  <2>7. ASSUME NEW user \in Users, NEW answer \in OracleAnswers,
               LiquidateBadDebt(user, answer)
        PROVE  CollateralBacked'
    <3> DEFINE coll == userCollateralShare[user]
               sold == ToShare(ShareRatio, ToAmount(ShareRatio, coll))
    <3>1. /\ coll <= totalCollateralShare /\ sold <= ybCollateral
          /\ totalCollateralShare' = totalCollateralShare - coll
          /\ ybCollateral' = ybCollateral - sold
      BY <2>7 DEF LiquidateBadDebt
    <3>2. coll \in Nat /\ sold \in Nat /\ sold <= coll
      BY <2>1, SoldAtMost
    <3> HIDE DEF coll, sold
    <3> QED
      BY <2>1, <3>1, <3>2 DEF CollateralBacked
  <2>8. CASE UserStep
    BY <2>2, <2>3, <2>4, <2>5, <2>8
    DEF UserStep, Accrue, UpdateExchangeRate, Borrow, Repay
  <2>9. CASE LeverageStep
    BY <2>9 DEF LeverageStep, BuyCollateral, SellCollateral
  <2>10. CASE LiquidationStep
    BY <2>6, <2>7, <2>10 DEF LiquidationStep
  <2>11. CASE GovernanceStep \/ Tick
    BY <2>2, <2>11 DEF GovernanceStep, Tick, RefreshPenroseFees, MintOpenInterestDebt,
       UpdatePause, UpdatePauseAll, UpdatePenrosePause
  <2>12. CASE UNCHANGED vars
    BY <2>2, <2>12 DEF vars
  <2> QED
    BY <2>8, <2>9, <2>10, <2>11, <2>12 DEF Next
<1> QED
  BY <1>1, <1>2, IInvHolds, PTL DEF Spec

(* The users' parts and collateral always add up to the market's totals,   *)
(* whatever borrow, repay, the leverage and the liquidations round.        *)
THEOREM PositionsAlwaysAddUp == Spec => []PositionsAddUp
  BY AddUpHolds

(* Only time and the oracle make a position insolvent: no operation of     *)
(* BBBorrow, BBCollateral, BBLeverage or BBLiquidation does, not even a    *)
(* liquidation of someone else.                                            *)
THEOREM OperationsKeepSolvency == Spec => SolventStaysSolvent
<1> DEFINE Keeps == \A u \in Users :
              Solvent(collateralizationRate, u, AccruedBorrow, exchangeRate')
                => Solvent(collateralizationRate, u, totalBorrow, exchangeRate)'
<1>1. IInv /\ PositionsAddUp /\ [Next]_vars => [Keeps]_vars
  BY StepKeepsSolvent
<1> QED
  BY <1>1, IInvHolds, AddUpHolds, PTL DEF Spec, SolventStaysSolvent

(* A position that satisfies the collateralization rate is neither         *)
(* liquidated nor written off (_liquidateUser, liquidateBadDebt), provided *)
(* the bonus of the bad debt test leaves room above the rate, as           *)
(* setMarketConfig requires (Market.sol:276).                              *)
THEOREM SolventIsSafe ==
    ASSUME BadDebtThresholdAboveCR
    PROVE  Spec => SolventNeverLiquidated
<1> DEFINE Safe == \A u \in Users :
              /\ userCollateralShare'[u] < userCollateralShare[u]
              /\ userBorrowPart'[u] < userBorrowPart[u]
              /\ ~LeverageExecutorSet
              => ~Solvent(collateralizationRate, u, AccruedBorrow, exchangeRate')
<1>1. IInv /\ PositionsAddUp /\ [Next]_vars => [Safe]_vars
  <2> SUFFICES ASSUME IInv, PositionsAddUp, [Next]_vars, NEW u \in Users,
                      userCollateralShare'[u] < userCollateralShare[u],
                      userBorrowPart'[u] < userBorrowPart[u], ~LeverageExecutorSet
               PROVE  ~Solvent(collateralizationRate, u, AccruedBorrow, exchangeRate')
    OBVIOUS
  <2>1. /\ userBorrowPart[u] \in Nat /\ userCollateralShare[u] \in Nat
        /\ userBorrowPart \in [Users -> Nat] /\ userCollateralShare \in [Users -> Nat]
        /\ userBorrowPart' # userBorrowPart /\ userCollateralShare' # userCollateralShare
    BY PositionTypes
  <2>2. ASSUME NEW user \in Users, NEW max \in Parts, NEW bonus \in Bonuses,
               NEW answer \in OracleAnswers, NEW returned \in Amounts,
               Liquidate(user, max, bonus, answer, returned)
        PROVE  ~Solvent(collateralizationRate, u, AccruedBorrow, exchangeRate')
    <3>1. u = user
      BY <2>1, <2>2, LiquidateMoves
    <3> QED
      BY <2>2, <3>1, LiquidateMoves
  <2>3. ASSUME NEW user \in Users, NEW answer \in OracleAnswers,
               LiquidateBadDebt(user, answer)
        PROVE  ~Solvent(collateralizationRate, u, AccruedBorrow, exchangeRate')
    <3> DEFINE rate == RateOrCached(answer)
    <3>1. /\ RequiredCollateral(userBorrowPart[user], AccruedBorrow, rate)
                >= userCollateralShare[user]
          /\ TryReadOracle(answer) /\ UNCHANGED now
          /\ userBorrowPart' = [userBorrowPart EXCEPT ![user] = 0]
      BY <2>3 DEF LiquidateBadDebt
    <3>2. rate \in Nat \ {0} /\ rate = exchangeRate'
      BY <3>1, TryReadOracleType DEF TryReadOracle, RateOrCached, ReadOracle, rateVars
    <3>3. u = user
      BY <2>1, <3>1
    <3>4. userBorrowPart[u] \in Nat \ {0}
      BY <2>1, <3>1, <3>3
    <3> HIDE DEF rate
    <3>5. CASE Solvent(collateralizationRate, u, AccruedBorrow, exchangeRate')
      <4>1. IsSolvent(collateralizationRate, userCollateralShare[u], userBorrowPart[u],
                      AccruedBorrow, rate)
        BY <3>2, <3>5 DEF Solvent
      <4>2. RequiredCollateral(userBorrowPart[u], AccruedBorrow, rate)
              < userCollateralShare[u]
        BY <2>1, <3>2, <3>4, <4>1, InterestFacts, SolventCoversBonus
      <4>3. RequiredCollateral(userBorrowPart[u], AccruedBorrow, rate) \in Nat
        BY <2>1, <3>2, <3>4, <4>1, InterestFacts, RequiredCollateralType
      <4> QED
        BY <2>1, <3>1, <3>3, <4>2, <4>3
    <3> QED
      BY <3>5
  <2>4. ~UserStep
    BY <2>1 DEF UserStep, Accrue, UpdateExchangeRate, TransferToMarket, AddCollateral,
       RemoveCollateral, Borrow, Repay, collateralVars, debtVars
  <2>5. ~LeverageStep
    BY DEF LeverageStep, BuyCollateral, SellCollateral
  <2>6. ~(GovernanceStep \/ Tick \/ UNCHANGED vars)
    BY <2>1 DEF GovernanceStep, RefreshPenroseFees, MintOpenInterestDebt, UpdatePause,
       UpdatePauseAll, UpdatePenrosePause, Tick, vars, debtVars
  <2> QED
    BY <2>2, <2>3, <2>4, <2>5, <2>6 DEF Next, LiquidationStep
<1> QED
  BY <1>1, IInvHolds, AddUpHolds, PTL DEF Spec, SolventNeverLiquidated

(* Pausing every option leaves no way around the options: then positions   *)
(* change only when liquidateBadDebt, which no option stops, closes them.  *)
THEOREM FullPauseFreezes == Spec => FullyPausedFreezes
<1> DEFINE Frozen == pauseOptions = PauseType =>
              \A u \in Users :
                \/ UNCHANGED <<userBorrowPart[u], userCollateralShare[u]>>
                \/ userBorrowPart'[u] = 0 /\ userCollateralShare'[u] = 0
<1>1. IInv /\ [Next]_vars => [Frozen]_vars
  <2> SUFFICES ASSUME IInv, [Next]_vars, pauseOptions = PauseType, NEW u \in Users
               PROVE  \/ UNCHANGED <<userBorrowPart[u], userCollateralShare[u]>>
                      \/ userBorrowPart'[u] = 0 /\ userCollateralShare'[u] = 0
    OBVIOUS
  <2> DEFINE Same == UNCHANGED <<userBorrowPart, userCollateralShare>>
  <2>1. ASSUME NEW type \in PauseType PROVE ~NotPaused(type)
    BY DEF NotPaused
  <2>2. UserStep => Same
    BY <2>1 DEF UserStep, Accrue, UpdateExchangeRate, TransferToMarket, AddCollateral,
       RemoveCollateral, Borrow, Repay, collateralVars, debtVars, PauseType
  <2>3. ~LeverageStep
    BY <2>1 DEF LeverageStep, BuyCollateral, SellCollateral, PauseType
  <2>4. LiquidationStep => \E user \in Users, answer \in OracleAnswers :
                              LiquidateBadDebt(user, answer)
    <3>1. ASSUME NEW user \in Users, NEW max \in Parts, NEW bonus \in Bonuses,
                 NEW answer \in OracleAnswers, NEW returned \in Amounts,
                 Liquidate(user, max, bonus, answer, returned)
          PROVE  FALSE
      <4>1. NotPaused("Liquidation")
        BY <3>1 DEF Liquidate
      <4> QED
        BY <2>1, <4>1 DEF PauseType
    <3> QED
      BY <3>1 DEF LiquidationStep
  <2>5. GovernanceStep \/ Tick \/ UNCHANGED vars => Same
    BY DEF GovernanceStep, RefreshPenroseFees, MintOpenInterestDebt, UpdatePause,
       UpdatePauseAll, UpdatePenrosePause, Tick, vars, debtVars, collateralVars
  <2>6. ASSUME NEW user \in Users, NEW answer \in OracleAnswers,
               LiquidateBadDebt(user, answer)
        PROVE  \/ UNCHANGED <<userBorrowPart[u], userCollateralShare[u]>>
               \/ userBorrowPart'[u] = 0 /\ userCollateralShare'[u] = 0
    BY <2>6, PositionTypes DEF LiquidateBadDebt
  <2> QED
    BY <2>2, <2>3, <2>4, <2>5, <2>6 DEF Next
<1> QED
  BY <1>1, IInvHolds, PTL DEF Spec, FullyPausedFreezes
=============================================================================
