------------------------ MODULE BigBangMarketsProofs ------------------------
(***************************************************************************)
(* Theorems about BigBangMarkets, for any number of markets, any rates and *)
(* any bounds.                                                             *)
(*                                                                         *)
(* Every step that touches a debt first charges a set S of markets, so the *)
(* proofs rest on what ChargeInterest(S) does: each market's debt grows by *)
(* what is added to its open interest, stays a uint128, and the ETH market *)
(* is among those charged whenever any is.  The type is inductive alone;   *)
(* DebtCoversUsdo is inductive with it.                                    *)
(***************************************************************************)
EXTENDS BigBangMarkets, TLAPS

(* Division rounded down.                                                  *)
LEMMA DivFacts ==
    ASSUME NEW a \in Nat, NEW b \in Nat \ {0}
    PROVE  /\ a \div b \in Nat
           /\ b * (a \div b) <= a
           /\ a < b * (a \div b) + b
  BY SMT

LEMMA DebtRateType ==
    ASSUME TypeOK, NEW m \in Markets, NEW ethDebt \in Nat
    PROVE  GetDebtRate(m, ethDebt) \in Nat
<1> DEFINE point == MaxDebtPoint(ethDebt)
           percentage == (totalDebt[m] * DEBT_PRECISION) \div point
           spread == maxDebtRate - minDebtRate
           rate == (spread * percentage) \div DEBT_PRECISION
<1>1. /\ totalDebt[m] \in Nat /\ bigBangEthDebtRate \in Nat
      /\ minDebtRate \in Nat /\ maxDebtRate \in Nat /\ spread \in Nat
      /\ DEBT_PRECISION \in Nat \ {0} /\ RATE_PRECISION \in Nat \ {0}
      /\ debtRateAgainstEthMarket \in Nat
  BY MarketsAssumption DEF TypeOK
<1>2. point \in Nat
  <2>1. ethDebt * debtRateAgainstEthMarket \in Nat
    BY <1>1, SMT
  <2> QED
    BY <1>1, <2>1, DivFacts DEF MaxDebtPoint
<1>3. CASE m \in MainMarkets \/ totalDebt[m] = 0 \/ totalDebt[m] >= point
  BY <1>1, <1>3 DEF GetDebtRate, DebtRateOf
<1>4. CASE ~(m \in MainMarkets \/ totalDebt[m] = 0 \/ totalDebt[m] >= point)
  <2>1. point \in Nat \ {0} /\ totalDebt[m] * DEBT_PRECISION \in Nat
    BY <1>1, <1>2, <1>4, SMT
  <2>2. percentage \in Nat
    BY <2>1, DivFacts
  <2> HIDE DEF percentage
  <2>3. spread * percentage \in Nat
    BY <1>1, <2>2, SMT
  <2>4. rate \in Nat
    BY <1>1, <2>3, DivFacts
  <2>5. GetDebtRate(m, ethDebt) = Least(rate + minDebtRate, maxDebtRate)
    BY <1>4 DEF GetDebtRate, DebtRateOf, percentage
  <2> HIDE DEF rate
  <2> QED
    BY <1>1, <2>4, <2>5 DEF Least
<1> QED
  BY <1>3, <1>4

(* Interest never takes a debt past a uint128, and there is none to charge *)
(* twice at one instant.                                                   *)
LEMMA InterestType ==
    ASSUME TypeOK, NEW m \in Markets, NEW ethDebt \in Nat
    PROVE  /\ Interest(m, ethDebt) \in Nat
           /\ totalDebt[m] + Interest(m, ethDebt) \in totalDebt[m]..MaxUint128
           /\ lastAccrued[m] = now => Interest(m, ethDebt) = 0
<1> DEFINE perSecond == GetDebtRate(m, ethDebt) \div YEAR
           grown == totalDebt[m] * perSecond * (now - lastAccrued[m])
           due == grown \div RATE_PRECISION
<1>1. /\ totalDebt[m] \in 0..MaxUint128 /\ MaxUint128 \in Nat
      /\ now - lastAccrued[m] \in Nat /\ now \in Nat /\ lastAccrued[m] \in Nat
      /\ YEAR \in Nat \ {0} /\ RATE_PRECISION \in Nat \ {0}
  BY MarketsAssumption DEF TypeOK
<1>2. perSecond \in Nat
  BY <1>1, DebtRateType, DivFacts
<1> HIDE DEF perSecond
<1>3. grown \in Nat
  BY <1>1, <1>2, SMT
<1>4. lastAccrued[m] = now => grown = 0
  BY <1>1, <1>2, SMT
<1> HIDE DEF grown
<1>5. due \in Nat
  BY <1>1, <1>3, DivFacts
<1>6. lastAccrued[m] = now => due = 0
  BY <1>1, <1>4, SMT
<1>7. Interest(m, ethDebt) = Least(due, MaxUint128 - totalDebt[m])
  BY DEF Interest, perSecond, grown
<1> HIDE DEF due
<1> QED
  BY <1>1, <1>5, <1>6, <1>7 DEF Least

LEMMA AccruedDebtType ==
    ASSUME TypeOK
    PROVE  /\ EthDebt \in 0..MaxUint128
           /\ \A m \in Markets : AccruedDebt(m) \in totalDebt[m]..MaxUint128
<1>1. EthDebt \in 0..MaxUint128
  <2>1. CASE bigBangEthMarket = NoMarket
    BY <2>1, MarketsAssumption DEF EthDebt
  <2>2. CASE bigBangEthMarket # NoMarket
    <3>1. bigBangEthMarket \in Markets /\ totalDebt[bigBangEthMarket] \in Nat
      BY <2>2 DEF TypeOK
    <3> QED
      BY <2>2, <3>1, InterestType DEF EthDebt
  <2> QED
    BY <2>1, <2>2
<1>2. ASSUME NEW m \in Markets PROVE AccruedDebt(m) \in totalDebt[m]..MaxUint128
  <2>1. totalDebt[m] \in Nat /\ EthDebt \in Nat
    BY <1>1 DEF TypeOK
  <2>2. CASE m = bigBangEthMarket
    <3>1. EthDebt = totalDebt[m] + Interest(m, totalDebt[m])
      BY <2>2, MarketsAssumption DEF EthDebt
    <3> QED
      BY <2>1, <2>2, <3>1, InterestType DEF AccruedDebt
  <2>3. CASE m # bigBangEthMarket
    BY <2>1, <2>3, InterestType DEF AccruedDebt
  <2> QED
    BY <2>2, <2>3
<1> QED
  BY <1>1, <1>2

-----------------------------------------------------------------------------
(* Charging interest to the markets of S.                                  *)
LEMMA ChargeEffect ==
    ASSUME TypeOK, NEW S \in SUBSET Markets, ChargeInterest(S), now' = now
    PROVE  /\ DebtAfter(S) \in [Markets -> 0..MaxUint128]
           /\ lastAccrued' \in [Markets -> 0..now']
           /\ openInterestDebt' \in [Markets -> Nat]
           /\ \A m \in Markets :
                openInterestDebt'[m] - openInterestDebt[m] = DebtAfter(S)[m] - totalDebt[m]
<1>1. \A m \in Markets : /\ AccruedDebt(m) \in totalDebt[m]..MaxUint128
                         /\ totalDebt[m] \in 0..MaxUint128 /\ openInterestDebt[m] \in Nat
                         /\ lastAccrued[m] \in 0..now
  BY AccruedDebtType DEF TypeOK
<1>2. now \in Nat /\ MaxUint128 \in Nat
  BY MarketsAssumption DEF TypeOK
<1>3. DebtAfter(S) \in [Markets -> 0..MaxUint128]
  BY <1>1, <1>2 DEF DebtAfter
<1>4. lastAccrued' \in [Markets -> 0..now']
  BY <1>1, <1>2 DEF ChargeInterest
<1>5. ASSUME NEW m \in Markets
      PROVE  /\ openInterestDebt[m] + (IF m \in Charged(S) THEN AccruedDebt(m) - totalDebt[m]
                                                           ELSE 0) \in Nat
             /\ openInterestDebt'[m] - openInterestDebt[m] = DebtAfter(S)[m] - totalDebt[m]
  <2>1. openInterestDebt'[m] = openInterestDebt[m]
           + (IF m \in Charged(S) THEN AccruedDebt(m) - totalDebt[m] ELSE 0)
    BY DEF ChargeInterest
  <2>2. DebtAfter(S)[m] = IF m \in Charged(S) THEN AccruedDebt(m) ELSE totalDebt[m]
    BY DEF DebtAfter
  <2> QED
    BY <1>1, <1>2, <2>1, <2>2
<1>6. openInterestDebt' \in [Markets -> Nat]
  BY <1>5 DEF ChargeInterest
<1> QED
  BY <1>3, <1>4, <1>5, <1>6

(* What a step that charges interest leaves of the ETH market's debt, as   *)
(* it would be accrued.                                                    *)
LEMMA EthDebtAfter ==
    ASSUME TypeOK, TypeOK', NEW S \in SUBSET Markets, S # {}, ChargeInterest(S),
           now' = now, bigBangEthMarket # NoMarket
    PROVE  /\ DebtAfter(S)[bigBangEthMarket] = EthDebt
           /\ lastAccrued'[bigBangEthMarket] = now
<1>1. bigBangEthMarket \in Markets
  BY DEF TypeOK
<1>2. bigBangEthMarket \in Charged(S)
  BY <1>1 DEF Charged
<1> QED
  BY <1>1, <1>2 DEF DebtAfter, ChargeInterest, AccruedDebt

LEMMA EthDebtJustCharged ==
    TypeOK /\ bigBangEthMarket # NoMarket /\ lastAccrued[bigBangEthMarket] = now
      => EthDebt = totalDebt[bigBangEthMarket]
<1>1. SUFFICES ASSUME TypeOK, bigBangEthMarket # NoMarket,
                      lastAccrued[bigBangEthMarket] = now
               PROVE  EthDebt = totalDebt[bigBangEthMarket]
  OBVIOUS
<1>2. bigBangEthMarket \in Markets /\ totalDebt[bigBangEthMarket] \in Nat
  BY <1>1 DEF TypeOK
<1>3. Interest(bigBangEthMarket, totalDebt[bigBangEthMarket]) = 0
  BY <1>1, <1>2, InterestType
<1> QED
  BY <1>1, <1>2, <1>3 DEF EthDebt

-----------------------------------------------------------------------------
(* Type correctness.                                                       *)

LEMMA ChangeDebtEffect ==
    ASSUME TypeOK, NEW m \in Markets, NEW change \in Int, ChangeDebt(m, change),
           now' = now
    PROVE  /\ totalDebt' \in [Markets -> 0..MaxUint128]
           /\ lastAccrued' \in [Markets -> 0..now']
           /\ openInterestDebt' \in [Markets -> Nat]
           /\ \A n \in Markets :
                openInterestDebt'[n] - openInterestDebt[n]
                   = totalDebt'[n] - totalDebt[n] - (IF n = m THEN change ELSE 0)
<1> DEFINE S == {m} \cup ReAccrued(m)
<1>1. S \in SUBSET Markets
  BY DEF ReAccrued, TypeOK
<1>2. ChargeInterest(S)
  BY DEF ChangeDebt
<1>3. DebtAfter(S)[m] + change \in 0..MaxUint128
  BY DEF ChangeDebt
<1>4. totalDebt' = [DebtAfter(S) EXCEPT ![m] = @ + change]
  BY DEF ChangeDebt
<1> HIDE DEF S
<1>5. /\ DebtAfter(S) \in [Markets -> 0..MaxUint128]
      /\ lastAccrued' \in [Markets -> 0..now']
      /\ openInterestDebt' \in [Markets -> Nat]
      /\ \A n \in Markets :
            openInterestDebt'[n] - openInterestDebt[n] = DebtAfter(S)[n] - totalDebt[n]
  BY <1>1, <1>2, ChargeEffect
<1>6. totalDebt' \in [Markets -> 0..MaxUint128]
  BY <1>3, <1>4, <1>5
<1>7. ASSUME NEW n \in Markets
      PROVE  openInterestDebt'[n] - openInterestDebt[n]
                = totalDebt'[n] - totalDebt[n] - (IF n = m THEN change ELSE 0)
  <2>1. /\ DebtAfter(S)[n] \in Int /\ totalDebt[n] \in Int /\ openInterestDebt[n] \in Int
        /\ openInterestDebt'[n] \in Int
    BY <1>5, MarketsAssumption DEF TypeOK
  <2>2. totalDebt'[n] = DebtAfter(S)[n] + (IF n = m THEN change ELSE 0)
    BY <1>4, <1>5, <2>1
  <2> QED
    BY <1>5, <2>1, <2>2
<1> QED
  BY <1>5, <1>6, <1>7

LEMMA AccrueAllEffect ==
    ASSUME TypeOK, NEW S \in SUBSET Markets, AccrueAll(S), now' = now
    PROVE  /\ totalDebt' \in [Markets -> 0..MaxUint128]
           /\ lastAccrued' \in [Markets -> 0..now']
           /\ openInterestDebt' \in [Markets -> Nat]
           /\ \A n \in Markets :
                openInterestDebt'[n] - openInterestDebt[n] = totalDebt'[n] - totalDebt[n]
  BY ChargeEffect DEF AccrueAll

(* The surplus of a market's debt over the USDO it accounts for.           *)
Surplus(m) == totalDebt[m] - issued[m] - openInterestDebt[m]

IInv == TypeOK /\ DebtCoversUsdo
StepEffect == TypeOK' /\ \A m \in Markets : totalDebt'[m] - issued'[m] - openInterestDebt'[m]
                                              >= Surplus(m)

(* Owner and clock steps that leave every debt alone.                      *)
LEMMA QuietStep ==
    ASSUME TypeOK, TypeOK', UNCHANGED <<totalDebt, openInterestDebt, issued>>
    PROVE  StepEffect
<1>1. ASSUME NEW m \in Markets
      PROVE  totalDebt'[m] - issued'[m] - openInterestDebt'[m] >= Surplus(m)
  <2>1. Surplus(m) \in Int
    BY DEF Surplus, TypeOK
  <2> QED
    BY <2>1 DEF Surplus
<1> QED
  BY <1>1 DEF StepEffect

(* Steps that charge markets and change nothing else of them.              *)
LEMMA AccrualStep ==
    ASSUME TypeOK, NEW S \in SUBSET Markets, AccrueAll(S), UNCHANGED <<now, issued>>, TypeOK'
    PROVE  StepEffect
<1>1. ASSUME NEW m \in Markets
      PROVE  totalDebt'[m] - issued'[m] - openInterestDebt'[m] >= Surplus(m)
  <2>1. /\ totalDebt[m] \in Int /\ openInterestDebt[m] \in Int /\ issued[m] \in Int
        /\ totalDebt'[m] \in Int /\ openInterestDebt'[m] \in Int
    BY DEF TypeOK
  <2>2. openInterestDebt'[m] - openInterestDebt[m] = totalDebt'[m] - totalDebt[m]
    BY AccrueAllEffect
  <2> QED
    BY <2>1, <2>2 DEF Surplus
<1> QED
  BY <1>1 DEF StepEffect

LEMMA MarketStepEffect ==
    ASSUME TypeOK, NEW m \in Markets, MarketStep(m)
    PROVE  StepEffect
<1>1. /\ \A n \in Markets : /\ totalDebt[n] \in Nat /\ openInterestDebt[n] \in Int
                            /\ issued[n] \in Int
      /\ issued \in [Markets -> Int]
      /\ \A x \in Amounts : x \in Nat
      /\ \A x \in Fees : x \in Nat
      /\ MaxUint128 \in Nat
  BY MarketsAssumption DEF TypeOK
<1>2. ASSUME Accrue(m) PROVE StepEffect
  <2>1. AccrueAll({m}) /\ {m} \in SUBSET Markets
        /\ UNCHANGED <<now, penroseVars, accruePaused, issued>>
    BY <1>2 DEF Accrue
  <2>2. TypeOK'
    BY <2>1, AccrueAllEffect DEF TypeOK, penroseVars
  <2> QED
    BY <2>1, <2>2, AccrualStep
<1>3. ASSUME NEW change \in Int, NEW minted \in Int, minted <= change,
             ChangeDebt(m, change), issued' \in [Markets -> Int],
             \A n \in Markets : issued'[n] = issued[n] + (IF n = m THEN minted ELSE 0),
             UNCHANGED <<now, penroseVars, accruePaused>>
      PROVE  StepEffect
  <2>1. /\ totalDebt' \in [Markets -> 0..MaxUint128]
        /\ lastAccrued' \in [Markets -> 0..now']
        /\ openInterestDebt' \in [Markets -> Nat]
        /\ \A n \in Markets :
             openInterestDebt'[n] - openInterestDebt[n]
                = totalDebt'[n] - totalDebt[n] - (IF n = m THEN change ELSE 0)
    BY <1>3, ChangeDebtEffect
  <2>3. TypeOK'
    BY <1>3, <2>1 DEF TypeOK, penroseVars
  <2>4. ASSUME NEW n \in Markets
        PROVE  totalDebt'[n] - issued'[n] - openInterestDebt'[n] >= Surplus(n)
    <3>1. totalDebt'[n] \in Int /\ openInterestDebt'[n] \in Int
      BY <1>1, <2>1
    <3>2. issued'[n] = issued[n] + (IF n = m THEN minted ELSE 0)
      BY <1>1, <1>3
    <3>3. openInterestDebt'[n] - openInterestDebt[n]
             = totalDebt'[n] - totalDebt[n] - (IF n = m THEN change ELSE 0)
      BY <2>1
    <3> QED
      BY <1>1, <1>3, <3>1, <3>2, <3>3 DEF Surplus
  <2> QED
    BY <2>3, <2>4 DEF StepEffect
<1>4. ASSUME NEW amount \in Amounts, NEW fee \in Fees, Borrow(m, amount, fee)
      PROVE  StepEffect
  <2>1. amount \in Int /\ amount + fee \in Int /\ amount <= amount + fee
    BY <1>1
  <2>2. /\ issued' \in [Markets -> Int]
        /\ \A n \in Markets : issued'[n] = issued[n] + (IF n = m THEN amount ELSE 0)
    BY <1>1, <1>4, <2>1 DEF Borrow
  <2> QED
    BY <1>3, <1>4, <2>1, <2>2 DEF Borrow
<1>5. ASSUME NEW amount \in Amounts, Repay(m, amount)
      PROVE  StepEffect
  <2> DEFINE change == -amount
  <2>1. amount \in Nat /\ change \in Int /\ change <= change
    BY <1>1
  <2>2. /\ ChangeDebt(m, change)
        /\ issued' = [issued EXCEPT ![m] = @ - amount]
        /\ UNCHANGED <<now, penroseVars, accruePaused>>
    BY <1>5 DEF Repay
  <2>3. issued[m] - amount = issued[m] + change /\ issued[m] - amount \in Int
    BY <1>1, <2>1
  <2>4. /\ issued' \in [Markets -> Int]
        /\ \A n \in Markets : issued'[n] = issued[n] + (IF n = m THEN change ELSE 0)
    BY <1>1, <2>2, <2>3
  <2> HIDE DEF change
  <2> QED
    BY <1>3, <2>1, <2>2, <2>4
<1> QED
  BY <1>2, <1>4, <1>5 DEF MarketStep

LEMMA OwnerStepEffect ==
    ASSUME TypeOK, NEW m \in Markets, OwnerStep(m)
    PROVE  StepEffect
<1>1. CASE AddBigBang(m)
  BY <1>1, QuietStep DEF AddBigBang, TypeOK, marketVars
<1>2. CASE UnregisterContract(m)
  BY <1>2, QuietStep DEF UnregisterContract, TypeOK, marketVars
<1>3. CASE SetBigBangEthMarket(m)
  <2>1. CASE bigBangEthMarket # NoMarket
              /\ AccrueAll(isMarketRegistered \ {bigBangEthMarket})
    <3>1. /\ isMarketRegistered \ {bigBangEthMarket} \in SUBSET Markets
          /\ UNCHANGED <<now, isMarketRegistered, bigBangEthDebtRate, paused, accruePaused,
                         issued>>
          /\ bigBangEthMarket' = m
      BY <1>3 DEF SetBigBangEthMarket, TypeOK
    <3>2. TypeOK'
      BY <2>1, <3>1, AccrueAllEffect DEF TypeOK
    <3> QED
      BY <2>1, <3>1, <3>2, AccrualStep
  <2>2. CASE UNCHANGED marketVars
    BY <1>3, <2>2, QuietStep DEF SetBigBangEthMarket, TypeOK, marketVars
  <2> QED
    BY <1>3, <2>1, <2>2 DEF SetBigBangEthMarket
<1>4. ASSUME NEW val \in BOOLEAN, UpdateCollateralPause(m, val) PROVE StepEffect
  BY <1>4, QuietStep DEF UpdateCollateralPause, TypeOK, marketVars, penroseVars
<1> QED
  BY <1>1, <1>2, <1>3, <1>4 DEF OwnerStep

LEMMA PenroseStepEffect ==
    ASSUME TypeOK, PenroseStep
    PROVE  StepEffect
<1>1. ASSUME NEW rate \in EthDebtRates, SetBigBangEthMarketDebtRate(rate) PROVE StepEffect
  <2>1. /\ rate \in Nat /\ bigBangEthDebtRate' = rate
        /\ UNCHANGED <<now, isMarketRegistered, bigBangEthMarket, paused, accruePaused, issued>>
    BY <1>1, MarketsAssumption DEF SetBigBangEthMarketDebtRate
  <2>2. CASE bigBangEthMarket # NoMarket /\ AccrueAll({bigBangEthMarket})
    <3>1. {bigBangEthMarket} \in SUBSET Markets
      BY <2>2 DEF TypeOK
    <3>2. TypeOK'
      BY <2>1, <2>2, <3>1, AccrueAllEffect DEF TypeOK
    <3> QED
      BY <2>1, <2>2, <3>1, <3>2, AccrualStep
  <2>3. CASE UNCHANGED marketVars
    BY <2>1, <2>3, QuietStep DEF TypeOK, marketVars
  <2> QED
    BY <1>1, <2>2, <2>3 DEF SetBigBangEthMarketDebtRate
<1>2. ASSUME MintOpenInterestDebt PROVE StepEffect
  <2>1. /\ UNCHANGED <<now, penroseVars, accruePaused, totalDebt, lastAccrued>>
        /\ issued' \in [Markets -> Int] /\ openInterestDebt' \in [Markets -> Nat]
        /\ \A m \in Markets : issued'[m] + openInterestDebt'[m] = issued[m] + openInterestDebt[m]
    BY <1>2 DEF MintOpenInterestDebt, TypeOK
  <2>2. TypeOK'
    BY <2>1 DEF TypeOK, penroseVars
  <2>3. ASSUME NEW m \in Markets
        PROVE  totalDebt'[m] - issued'[m] - openInterestDebt'[m] >= Surplus(m)
    <3>1. /\ totalDebt[m] \in Int /\ openInterestDebt[m] \in Int /\ issued[m] \in Int
          /\ openInterestDebt'[m] \in Int /\ issued'[m] \in Int
      BY <2>1 DEF TypeOK
    <3> QED
      BY <2>1, <3>1 DEF Surplus
  <2> QED
    BY <2>2, <2>3 DEF StepEffect
<1>3. ASSUME NEW val \in BOOLEAN, UpdatePause(val) PROVE StepEffect
  BY <1>3, QuietStep DEF UpdatePause, TypeOK, marketVars
<1> QED
  BY <1>1, <1>2, <1>3 DEF PenroseStep

LEMMA TickEffect ==
    ASSUME TypeOK, Tick
    PROVE  StepEffect
<1>1. TypeOK'
  BY MarketsAssumption DEF Tick, TypeOK, penroseVars, marketVars
<1> QED
  BY <1>1, QuietStep DEF Tick, marketVars

LEMMA StepHasEffect ==
    ASSUME TypeOK, [Next]_vars
    PROVE  StepEffect
<1>1. CASE Next
  BY <1>1, MarketStepEffect, OwnerStepEffect, PenroseStepEffect, TickEffect DEF Next
<1>2. CASE UNCHANGED vars
  BY <1>2, QuietStep DEF vars, penroseVars, marketVars, TypeOK
<1> QED
  BY <1>1, <1>2

LEMMA IInvHolds == Spec => []IInv
<1>1. Init => IInv
  <2>1. ASSUME Init PROVE TypeOK
    <3>1. 0 \in 0..MaxTime /\ 0 \in 0..MaxUint128 /\ 0 \in 0..now
      BY <2>1, MarketsAssumption DEF Init
    <3>2. totalDebt \in [Markets -> 0..MaxUint128] /\ lastAccrued \in [Markets -> 0..now]
      BY <2>1, <3>1 DEF Init
    <3>3. openInterestDebt \in [Markets -> Nat] /\ issued \in [Markets -> Int]
      BY <2>1 DEF Init
    <3> QED
      BY <2>1, <3>1, <3>2, <3>3 DEF Init, TypeOK
  <2>2. Init => DebtCoversUsdo
    BY DEF Init, DebtCoversUsdo
  <2> QED
    BY <2>1, <2>2 DEF IInv
<1>2. IInv /\ [Next]_vars => IInv'
  <2>1. SUFFICES ASSUME IInv, [Next]_vars PROVE IInv'
    OBVIOUS
  <2>2. StepEffect
    BY <2>1, StepHasEffect DEF IInv
  <2>3. ASSUME NEW m \in Markets
        PROVE  issued'[m] + openInterestDebt'[m] <= totalDebt'[m]
    <3>1. /\ totalDebt[m] \in Int /\ openInterestDebt[m] \in Int /\ issued[m] \in Int
          /\ totalDebt'[m] \in Int /\ openInterestDebt'[m] \in Int /\ issued'[m] \in Int
      BY <2>1, <2>2 DEF IInv, StepEffect, TypeOK
    <3> QED
      BY <2>1, <2>2, <3>1 DEF IInv, StepEffect, DebtCoversUsdo, Surplus
  <2> QED
    BY <2>2, <2>3 DEF IInv, StepEffect, DebtCoversUsdo
<1> QED
  BY <1>1, <1>2, PTL DEF Spec

-----------------------------------------------------------------------------
(* Debts stay within a uint128 and every market's times and open interest  *)
(* in their range (BBCommon._accrue caps the interest).                    *)
THEOREM MarketsTypeCorrect == Spec => []TypeOK
<1>1. IInv => TypeOK
  BY DEF IInv
<1> QED
  BY <1>1, IInvHolds, PTL

(* Whatever Penrose lists, pauses or mints, no market is the source of     *)
(* more USDO than it is owed (BBLendingCommon, Penrose.mintOpenInterest-   *)
(* Debt).                                                                  *)
THEOREM EveryMarketCoversItsUsdo == Spec => []DebtCoversUsdo
<1>1. IInv => DebtCoversUsdo
  BY DEF IInv
<1> QED
  BY <1>1, IInvHolds, PTL

-----------------------------------------------------------------------------
(* Which steps charge whom.                                                *)

(* A step that charges the markets of S and then moves the debt of no      *)
(* market but m leaves the ETH market's accrued debt alone, if it is not m.*)
LEMMA EthDebtKept ==
    ASSUME TypeOK, TypeOK', NEW S \in SUBSET Markets, S # {}, ChargeInterest(S),
           now' = now, bigBangEthMarket # NoMarket, bigBangEthMarket' = bigBangEthMarket,
           totalDebt'[bigBangEthMarket] = DebtAfter(S)[bigBangEthMarket]
    PROVE  EthDebt' = EthDebt
<1>1. (TypeOK /\ bigBangEthMarket # NoMarket /\ lastAccrued[bigBangEthMarket] = now
         => EthDebt = totalDebt[bigBangEthMarket])'
  BY EthDebtJustCharged, PTL
<1>2. EthDebt' = totalDebt'[bigBangEthMarket]
  BY <1>1, EthDebtAfter
<1> QED
  BY <1>2, EthDebtAfter

LEMMA EthDebtUntouched ==
    ASSUME UNCHANGED <<now, bigBangEthMarket, bigBangEthDebtRate, totalDebt, lastAccrued>>
    PROVE  EthDebt' = EthDebt
  BY DEF EthDebt, Interest, GetDebtRate

(* A handler of m charges every listed market, or leaves the ETH market's  *)
(* accrued debt alone.                                                     *)
LEMMA ChangeDebtIsFair ==
    ASSUME TypeOK, TypeOK', NEW m \in Markets, NEW change \in Int, ChangeDebt(m, change),
           now' = now, bigBangEthMarket # NoMarket, bigBangEthMarket' = bigBangEthMarket,
           NEW n \in isMarketRegistered \ {bigBangEthMarket}
    PROVE  EthDebt' = EthDebt \/ lastAccrued'[n] = now
<1> DEFINE S == {m} \cup ReAccrued(m)
<1>1. S \in SUBSET Markets /\ S # {} /\ n \in Markets
  BY DEF ReAccrued, TypeOK
<1>2. ChargeInterest(S) /\ totalDebt' = [DebtAfter(S) EXCEPT ![m] = @ + change]
  BY DEF ChangeDebt
<1>3. CASE m = bigBangEthMarket
  <2>1. n \in S
    BY <1>3 DEF ReAccrued
  <2> HIDE DEF S
  <2> QED
    BY <1>1, <1>2, <2>1 DEF ChargeInterest, Charged
<1>4. CASE m # bigBangEthMarket
  <2> HIDE DEF S
  <2>1. totalDebt'[bigBangEthMarket] = DebtAfter(S)[bigBangEthMarket]
    BY <1>2, <1>4 DEF DebtAfter, TypeOK
  <2> QED
    BY <1>1, <1>2, <2>1, EthDebtKept
<1> QED
  BY <1>3, <1>4

(* Every listed market is charged, at the rate that then held, before the  *)
(* debt its rate depends on changes other than by interest                 *)
(* (Penrose.reAccrueBigBangMarkets, setBigBangEthMarket).                  *)
THEOREM SiblingsChargedFirst == Spec => ChargedBeforeEthDebtChanges
<1>1. ASSUME TypeOK, TypeOK', [Next]_vars
      PROVE  bigBangEthMarket # NoMarket /\ now' = now /\ EthDebt' # EthDebt
               => \A m \in isMarketRegistered \ {bigBangEthMarket} : lastAccrued'[m] = now
  <2>1. SUFFICES ASSUME bigBangEthMarket # NoMarket, now' = now,
                        NEW n \in isMarketRegistered \ {bigBangEthMarket}
                 PROVE  EthDebt' = EthDebt \/ lastAccrued'[n] = now
    OBVIOUS
  <2>2. n \in Markets /\ bigBangEthMarket \in Markets /\ now \in Nat
    BY <1>1, <2>1 DEF TypeOK
  <2>3. ASSUME NEW S \in SUBSET Markets, S # {}, AccrueAll(S),
               bigBangEthMarket' = bigBangEthMarket
        PROVE  EthDebt' = EthDebt
    <3>1. ChargeInterest(S) /\ totalDebt' = DebtAfter(S)
      BY <2>3 DEF AccrueAll
    <3> QED
      BY <1>1, <2>1, <2>3, <3>1, EthDebtKept
  <2>4. ASSUME NEW m \in Markets, MarketStep(m)
        PROVE  EthDebt' = EthDebt \/ lastAccrued'[n] = now
    <3>1. CASE Accrue(m)
      <4>1. AccrueAll({m}) /\ bigBangEthMarket' = bigBangEthMarket
        BY <3>1 DEF Accrue, penroseVars
      <4> QED
        BY <2>3, <4>1
    <3>2. ASSUME NEW amount \in Amounts, NEW fee \in Fees, Borrow(m, amount, fee)
          PROVE  EthDebt' = EthDebt \/ lastAccrued'[n] = now
      <4>1. /\ amount + fee \in Int /\ ChangeDebt(m, amount + fee)
            /\ bigBangEthMarket' = bigBangEthMarket
        BY <3>2, MarketsAssumption DEF Borrow, penroseVars
      <4> QED
        BY <1>1, <2>1, <4>1, ChangeDebtIsFair
    <3>3. ASSUME NEW amount \in Amounts, Repay(m, amount)
          PROVE  EthDebt' = EthDebt \/ lastAccrued'[n] = now
      <4>1. amount \in Nat
        BY MarketsAssumption
      <4>2. /\ -amount \in Int /\ ChangeDebt(m, -amount)
            /\ bigBangEthMarket' = bigBangEthMarket
        BY <3>3, <4>1 DEF Repay, penroseVars
      <4> QED
        BY <1>1, <2>1, <4>2, ChangeDebtIsFair
    <3> QED
      BY <2>4, <3>1, <3>2, <3>3 DEF MarketStep
  <2>5. ASSUME NEW m \in Markets, OwnerStep(m)
        PROVE  EthDebt' = EthDebt \/ lastAccrued'[n] = now
    <3>1. CASE SetBigBangEthMarket(m)
      <4>1. ChargeInterest(isMarketRegistered \ {bigBangEthMarket})
        BY <2>1, <3>1 DEF SetBigBangEthMarket, AccrueAll
      <4> QED
        BY <2>2, <4>1 DEF ChargeInterest, Charged
    <3>2. CASE ~SetBigBangEthMarket(m)
      <4>1. UNCHANGED <<now, bigBangEthMarket, bigBangEthDebtRate, totalDebt, lastAccrued>>
        BY <2>5, <3>2
        DEF OwnerStep, AddBigBang, UnregisterContract, UpdateCollateralPause,
            penroseVars, marketVars
      <4> QED
        BY <4>1, EthDebtUntouched
    <3> QED
      BY <3>1, <3>2
  <2>6. ASSUME PenroseStep
        PROVE  EthDebt' = EthDebt
    <3>1. ASSUME NEW rate \in EthDebtRates, SetBigBangEthMarketDebtRate(rate)
          PROVE  EthDebt' = EthDebt
      <4>1. AccrueAll({bigBangEthMarket}) /\ bigBangEthMarket' = bigBangEthMarket
        BY <2>1, <3>1 DEF SetBigBangEthMarketDebtRate
      <4> QED
        BY <2>2, <2>3, <4>1
    <3>2. CASE MintOpenInterestDebt \/ \E val \in BOOLEAN : UpdatePause(val)
      BY <3>2, EthDebtUntouched DEF MintOpenInterestDebt, UpdatePause, penroseVars, marketVars
    <3> QED
      BY <2>6, <3>1, <3>2 DEF PenroseStep
  <2>7. ~Tick
    BY <2>1, <2>2 DEF Tick
  <2>8. CASE UNCHANGED vars
    BY <2>8, EthDebtUntouched DEF vars, penroseVars, marketVars
  <2> QED
    BY <1>1, <2>4, <2>5, <2>6, <2>7, <2>8 DEF Next
<1> QED
  BY <1>1, MarketsTypeCorrect, PTL DEF Spec, ChargedBeforeEthDebtChanges

-----------------------------------------------------------------------------
(* Which debts the markets of S, charged while the ETH market is paused,   *)
(* leave alone, and what they do to the others.                            *)
LEMMA ChargeWhilePaused ==
    ASSUME NEW S \in SUBSET Markets, ChargeInterest(S), NEW n \in Markets
    PROVE  /\ DebtAfter(S)[n] \in {totalDebt[n], AccruedDebt(n)}
           /\ bigBangEthMarket \in accruePaused /\ n # bigBangEthMarket
                => n \notin S /\ DebtAfter(S)[n] = totalDebt[n]
  BY DEF ChargeInterest, DebtAfter, Charged

LEMMA FrozenByChangeDebt ==
    ASSUME NEW m \in Markets, NEW change, ChangeDebt(m, change), TypeOK, NEW n \in Markets
    PROVE  /\ ~paused
           /\ bigBangEthMarket \in accruePaused /\ n # bigBangEthMarket
                => totalDebt'[n] = totalDebt[n]
<1> DEFINE S == {m} \cup ReAccrued(m)
<1>1. S \in SUBSET Markets /\ m \in S
  BY DEF ReAccrued, TypeOK
<1>2. ~paused /\ ChargeInterest(S) /\ totalDebt' = [DebtAfter(S) EXCEPT ![m] = @ + change]
  BY DEF ChangeDebt
<1> HIDE DEF S
<1>3. n # m => totalDebt'[n] = DebtAfter(S)[n]
  BY <1>2 DEF DebtAfter
<1> QED
  BY <1>1, <1>2, <1>3, ChargeWhilePaused

(* A paused ETH market freezes its siblings' debts (BBCommon._accrue calls *)
(* its accrue(), which reverts), and a paused Penrose lets debts change by *)
(* interest only (reAccrueBigBangMarkets is notPaused).                    *)
THEOREM PausesFreeze == Spec => PausesFreezeDebt
<1> DEFINE Frozen(n) ==
             /\ bigBangEthMarket \in accruePaused /\ n # bigBangEthMarket
                  => totalDebt'[n] = totalDebt[n]
             /\ paused => totalDebt'[n] \in {totalDebt[n], AccruedDebt(n)}
<1>1. ASSUME TypeOK, [Next]_vars, NEW n \in Markets PROVE Frozen(n)
  <2>1. ASSUME NEW S \in SUBSET Markets, AccrueAll(S) PROVE Frozen(n)
    BY <2>1, ChargeWhilePaused DEF AccrueAll
  <2>2. ASSUME NEW m \in Markets, MarketStep(m) PROVE Frozen(n)
    <3>1. CASE Accrue(m)
      <4>1. AccrueAll({m})
        BY <3>1 DEF Accrue
      <4> QED
        BY <2>1, <4>1
    <3>2. ASSUME NEW amount \in Amounts, NEW fee \in Fees, Borrow(m, amount, fee)
          PROVE  Frozen(n)
      BY <1>1, <3>2, FrozenByChangeDebt DEF Borrow
    <3>3. ASSUME NEW amount \in Amounts, Repay(m, amount) PROVE Frozen(n)
      BY <1>1, <3>3, FrozenByChangeDebt DEF Repay
    <3> QED
      BY <2>2, <3>1, <3>2, <3>3 DEF MarketStep
  <2>3. CASE UNCHANGED totalDebt
    BY <2>3
  <2>4. ASSUME NEW m \in Markets, OwnerStep(m) PROVE Frozen(n)
    <3>1. isMarketRegistered \ {bigBangEthMarket} \in SUBSET Markets
      BY <1>1 DEF TypeOK
    <3>2. \/ AccrueAll(isMarketRegistered \ {bigBangEthMarket})
          \/ UNCHANGED totalDebt
      BY <2>4 DEF OwnerStep, AddBigBang, UnregisterContract, SetBigBangEthMarket,
                  UpdateCollateralPause, marketVars
    <3> QED
      BY <2>1, <2>3, <3>1, <3>2
  <2>5. ASSUME PenroseStep PROVE Frozen(n)
    <3>1. \/ bigBangEthMarket # NoMarket /\ AccrueAll({bigBangEthMarket})
          \/ UNCHANGED totalDebt
      BY <2>5 DEF PenroseStep, SetBigBangEthMarketDebtRate, MintOpenInterestDebt,
                  UpdatePause, marketVars
    <3>2. bigBangEthMarket # NoMarket => {bigBangEthMarket} \in SUBSET Markets
      BY <1>1 DEF TypeOK
    <3> QED
      BY <2>1, <2>3, <3>1, <3>2
  <2> QED
    BY <1>1, <2>2, <2>3, <2>4, <2>5 DEF Next, Tick, marketVars, vars
<1>2. ASSUME TypeOK, [Next]_vars
      PROVE  /\ bigBangEthMarket \in accruePaused
                  => \A m \in Markets \ {bigBangEthMarket} : totalDebt'[m] = totalDebt[m]
             /\ paused => \A m \in Markets : totalDebt'[m] \in {totalDebt[m], AccruedDebt(m)}
  BY <1>1, <1>2
<1> QED
  BY <1>2, MarketsTypeCorrect, PTL DEF Spec, PausesFreezeDebt
=============================================================================
