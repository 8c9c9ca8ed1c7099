---------------------------- MODULE OriginsProofs ---------------------------
(***************************************************************************)
(* Theorems about Origins and about the mint of the first USDO on it, for  *)
(* any users, amounts and rates: as nothing but loans and repayments moves *)
(* the debt, a part of it stays worth one USDO, and rounding never moves   *)
(* anything.  The multicall of the task is two loans in one step.          *)
(***************************************************************************)
EXTENDS OriginsMint, MarketTheorems

IInv == TypeOK /\ DebtIsUsdo

-----------------------------------------------------------------------------
LEMMA CeilDivOfProduct ==
    ASSUME NEW a \in Nat, NEW b \in Nat \ {0}
    PROVE  CeilDiv(a * b, b) = a
<1> DEFINE q == CeilDiv(a * b, b)
<1>1. a * b \in Nat
  BY SMT
<1>2. q \in Nat /\ a * b <= b * q /\ b * q < a * b + b
  BY <1>1, CeilDivFacts
<1> HIDE DEF q
<1>3. a * b <= q * b /\ q * b < (a + 1) * b
  BY <1>2, SMT
<1>4. a <= q /\ q < a + 1
  BY <1>2, <1>3, CancelProduct
<1>5. q = a
  BY <1>2, <1>4
<1> QED
  BY <1>5 DEF q

(* Where a part is worth one token, so are those added and removed.        *)
LEMMA ParParts ==
    ASSUME NEW t, t.elastic = t.base, t.base \in Nat, NEW x \in Nat
    PROVE  ToBaseUp(t, x) = x /\ ToElasticUp(t, x) = x
<1>1. CASE t.base = 0
  BY <1>1 DEF ToBaseUp, ToElasticUp
<1>2. CASE t.base # 0
  <2>1. t.base \in Nat \ {0}
    BY <1>2
  <2>2. CeilDiv(x * t.base, t.base) = x
    BY <2>1, CeilDivOfProduct
  <2> QED
    BY <1>2, <2>2 DEF ToBaseUp, ToElasticUp
<1> QED
  BY <1>1, <1>2

-----------------------------------------------------------------------------
LEMMA BorrowKeeps ==
    ASSUME IInv, NEW user \in Users, NEW amount \in Nat, BorrowCore(user, amount)
    PROVE  /\ DebtIsUsdo'
           /\ totalBorrow' \in [elastic : 0..MaxUint128, base : 0..MaxUint128]
           /\ userBorrowPart' \in [Users -> Nat]
           /\ usdoSupply' \in Nat
<1>1. /\ totalBorrow.elastic = totalBorrow.base /\ totalBorrow.base \in Nat
      /\ usdoSupply \in Nat /\ userBorrowPart \in [Users -> Nat]
      /\ totalBorrow.elastic = usdoSupply - ExternalUsdo /\ ExternalUsdo \in Nat
  BY OriginsAssumption DEF IInv, TypeOK, DebtIsUsdo
<1>2. ToBaseUp(totalBorrow, amount) = amount
  BY <1>1, ParParts
<1>3. /\ totalBorrow' = [elastic |-> totalBorrow.elastic + amount,
                         base |-> totalBorrow.base + amount]
      /\ totalBorrow'.elastic <= MaxUint128
      /\ userBorrowPart' = [userBorrowPart EXCEPT ![user] = @ + amount]
      /\ usdoSupply' = usdoSupply + amount
  BY <1>2 DEF BorrowCore, RebaseAddUp
<1>4. userBorrowPart' \in [Users -> Nat]
  BY <1>1, <1>3
<1>5. /\ totalBorrow.base + amount \in 0..MaxUint128
      /\ totalBorrow.elastic + amount \in 0..MaxUint128
  <2>1. totalBorrow'.elastic = totalBorrow.elastic + amount
    BY <1>3
  <2> QED
    BY <1>1, <1>3, <2>1, OriginsAssumption
<1>6. totalBorrow' \in [elastic : 0..MaxUint128, base : 0..MaxUint128]
  BY <1>3, <1>5
<1>7. usdoSupply' \in Nat
  BY <1>1, <1>3
<1>8. DebtIsUsdo'
  <2>1. /\ totalBorrow'.elastic = totalBorrow.elastic + amount
        /\ totalBorrow'.base = totalBorrow.base + amount
    BY <1>3
  <2> QED
    BY <1>1, <1>3, <2>1 DEF DebtIsUsdo
<1> QED
  BY <1>4, <1>6, <1>7, <1>8

LEMMA RepayKeeps ==
    ASSUME IInv, NEW user \in Users, NEW requested \in Nat, RepayCore(user, requested)
    PROVE  /\ DebtIsUsdo'
           /\ totalBorrow' \in [elastic : 0..MaxUint128, base : 0..MaxUint128]
           /\ userBorrowPart' \in [Users -> Nat]
           /\ usdoSupply' \in Nat
<1> DEFINE part == RepaidPart(user, requested)
<1>1. /\ totalBorrow.elastic = totalBorrow.base /\ totalBorrow.base \in 0..MaxUint128
      /\ usdoSupply \in Nat /\ userBorrowPart \in [Users -> Nat] /\ MaxUint128 \in Nat
      /\ totalBorrow.elastic = usdoSupply - ExternalUsdo /\ ExternalUsdo \in Nat
  BY OriginsAssumption DEF IInv, TypeOK, DebtIsUsdo
<1>2. part \in Nat /\ part <= userBorrowPart[user]
  BY <1>1 DEF RepaidPart, Least
<1>3. ToElasticUp(totalBorrow, part) = part
  <2>1. totalBorrow.base \in Nat /\ part \in Nat
    BY <1>1, <1>2
  <2> HIDE DEF part
  <2> QED
    BY <1>1, <2>1, ParParts
<1>4. /\ totalBorrow' = [elastic |-> totalBorrow.elastic - part,
                         base |-> totalBorrow.base - part]
      /\ totalBorrow'.base >= 0
      /\ userBorrowPart' = [userBorrowPart EXCEPT ![user] = @ - part]
      /\ usdoSupply' = usdoSupply - part
  BY <1>3 DEF RepayCore, RebaseSubUp, NonNegative
<1>5. userBorrowPart' \in [Users -> Nat]
  <2>1. userBorrowPart[user] - part \in Nat
    BY <1>1, <1>2
  <2> HIDE DEF part
  <2> QED
    BY <1>1, <1>4, <2>1
<1> HIDE DEF part
<1>6. /\ totalBorrow'.elastic = totalBorrow.elastic - part
      /\ totalBorrow'.base = totalBorrow.base - part
  BY <1>4
<1>7. totalBorrow.base - part \in 0..MaxUint128
  BY <1>1, <1>2, <1>4, <1>6
<1>8. totalBorrow' \in [elastic : 0..MaxUint128, base : 0..MaxUint128]
  BY <1>1, <1>4, <1>7
<1>9. usdoSupply' \in Nat
  BY <1>1, <1>2, <1>4, <1>7
<1>10. DebtIsUsdo'
  BY <1>1, <1>2, <1>4, <1>6 DEF DebtIsUsdo
<1> QED
  BY <1>5, <1>8, <1>9, <1>10

(* Steps that leave the debt alone.                                        *)
LEMMA QuietStep ==
    ASSUME IInv, TypeOK', UNCHANGED debtVars
    PROVE  IInv'
  BY DEF IInv, debtVars, DebtIsUsdo

LEMMA UserStepKeeps ==
    ASSUME IInv, NEW u \in Users, UserStep(u)
    PROVE  IInv'
<1>1. ASSUME NEW share \in Shares, AddCollateral(u, share)
      PROVE  IInv'
  <2>1. share \in Nat
    BY OriginsAssumption
  <2>2. userCollateralShare' \in [Users -> Nat]
    BY <1>1, <2>1 DEF AddCollateral, IInv, TypeOK
  <2>3. TypeOK'
    BY <1>1, <2>1, <2>2 DEF AddCollateral, IInv, TypeOK, debtVars, adminVars
  <2> QED
    BY <1>1, <2>3, QuietStep DEF AddCollateral
<1>2. ASSUME NEW share \in Shares, NEW rate \in Rates, RemoveCollateral(u, share, rate)
      PROVE  IInv'
  <2>1. share \in Nat /\ share <= userCollateralShare[u]
    BY <1>2, OriginsAssumption DEF RemoveCollateral
  <2>2. userCollateralShare' \in [Users -> Nat]
    BY <1>2, <2>1 DEF RemoveCollateral, IInv, TypeOK
  <2>3. TypeOK'
    BY <1>2, <2>1, <2>2 DEF RemoveCollateral, IInv, TypeOK, debtVars, adminVars
  <2> QED
    BY <1>2, <2>3, QuietStep DEF RemoveCollateral
<1>3. ASSUME NEW amount \in Amounts, NEW rate \in Rates, Borrow(u, amount, rate)
      PROVE  IInv'
  <2>1. CASE UNCHANGED debtVars
    <3>1. TypeOK'
      BY <1>3, <2>1 DEF Borrow, IInv, TypeOK, debtVars, collateralVars, adminVars
    <3> QED
      BY <2>1, <3>1, QuietStep
  <2>2. CASE BorrowCore(u, amount)
    <3>1. amount \in Nat
      BY OriginsAssumption
    <3> QED
      BY <1>3, <2>2, <3>1, BorrowKeeps
      DEF Borrow, IInv, TypeOK, collateralVars, adminVars
  <2> QED
    BY <1>3, <2>1, <2>2 DEF Borrow
<1>4. ASSUME NEW part \in Parts, NEW rate \in Rates, Repay(u, part, rate)
      PROVE  IInv'
  <2>1. part \in Nat
    BY OriginsAssumption
  <2> QED
    BY <1>4, <2>1, RepayKeeps DEF Repay, IInv, TypeOK, collateralVars, adminVars
<1> QED
  BY <1>1, <1>2, <1>3, <1>4 DEF UserStep

LEMMA AdminStepKeeps ==
    ASSUME IInv, AdminStep
    PROVE  IInv'
<1>1. UNCHANGED debtVars /\ TypeOK'
  <2> USE DEF IInv, TypeOK, debtVars, collateralVars
  <2>1. ASSUME NEW u \in Users, NEW val \in BOOLEAN, UpdateAllowedParticipants(u, val)
        PROVE  UNCHANGED debtVars /\ TypeOK'
    BY <2>1 DEF UpdateAllowedParticipants
  <2>2. ASSUME NEW type \in Pausable, NEW val \in BOOLEAN, UpdatePause(type, val)
        PROVE  UNCHANGED debtVars /\ TypeOK'
    BY <2>2, OriginsAssumption DEF UpdatePause
  <2>3. ASSUME NEW val \in BOOLEAN, UpdatePauseAll(val)
        PROVE  UNCHANGED debtVars /\ TypeOK'
    BY <2>3 DEF UpdatePauseAll
  <2>4. ASSUME NEW val \in BOOLEAN, UsdoSetPause(val)
        PROVE  UNCHANGED debtVars /\ TypeOK'
    BY <2>4 DEF UsdoSetPause
  <2> QED
    BY <2>1, <2>2, <2>3, <2>4 DEF AdminStep
<1> QED
  BY <1>1, QuietStep

LEMMA StepKeeps == IInv /\ [Next]_vars => IInv'
<1> SUFFICES ASSUME IInv, [Next]_vars
             PROVE  IInv'
  OBVIOUS
<1>1. ASSUME NEW rate \in Rates, UpdateExchangeRate(rate)
      PROVE  IInv'
  BY <1>1, QuietStep DEF UpdateExchangeRate, IInv, TypeOK, debtVars, collateralVars, adminVars
<1>2. CASE UNCHANGED vars
  BY <1>2, QuietStep DEF vars, IInv, TypeOK, debtVars, collateralVars, adminVars
<1> QED
  BY <1>1, <1>2, UserStepKeeps, AdminStepKeeps DEF Next

LEMMA InitSound == Init => IInv
<1> SUFFICES ASSUME Init
             PROVE  IInv
  OBVIOUS
<1>1. totalBorrow \in [elastic : 0..MaxUint128, base : 0..MaxUint128]
  BY OriginsAssumption DEF Init, ZeroRebase
<1>2. allowedParticipants \subseteq Users /\ pauseOptions \subseteq PauseType
  BY OriginsAssumption DEF Init
<1>3. TypeOK
  BY <1>1, <1>2, OriginsAssumption DEF Init, TypeOK
<1> QED
  BY <1>3, OriginsAssumption DEF Init, IInv, DebtIsUsdo, ZeroRebase

LEMMA Invariance == Spec => []IInv
  BY InitSound, StepKeeps, PTL DEF Spec

-----------------------------------------------------------------------------
(* Every variable of the market keeps its type: no subtraction of _repay   *)
(* or removeCollateral goes below zero.                                    *)
THEOREM OriginsTypeCorrect == Spec => []TypeOK
<1>1. IInv => TypeOK
  BY DEF IInv
<1> QED
  BY <1>1, Invariance, PTL

(* The debt of Origins is always the USDO it minted, and a part of it is   *)
(* one USDO (_borrow, _repay): repaying the parts burns all that the loans *)
(* minted.                                                                 *)
THEOREM OriginsDebtIsUsdo == Spec => []DebtIsUsdo
<1>1. IInv => DebtIsUsdo
  BY DEF IInv
<1> QED
  BY <1>1, Invariance, PTL

-----------------------------------------------------------------------------
(* Positions: a step leaves them all alone, or moves that of one user and  *)
(* the debt with it, and then it takes no collateral and adds no debt, or  *)
(* checks that the position is solvent.                                    *)

PartsAddUp == SumFunction(userBorrowPart) = totalBorrow.base

NoPositionMoves == UNCHANGED <<userBorrowPart, userCollateralShare, totalBorrow>>

PositionMoves(u, part, coll) ==
    /\ userBorrowPart' = [userBorrowPart EXCEPT ![u] = part]
    /\ userCollateralShare' = [userCollateralShare EXCEPT ![u] = coll]
    /\ totalBorrow'.base = totalBorrow.base + part - userBorrowPart[u]
    /\ \/ part <= userBorrowPart[u] /\ coll >= userCollateralShare[u]
       \/ SolventAfter(u)

PositionEffect ==
    \/ NoPositionMoves
    \/ \E u \in Users, part, coll \in Nat : PositionMoves(u, part, coll)

LEMMA PositionTypes ==
    ASSUME IInv
    PROVE  /\ userBorrowPart \in [Users -> Nat]
           /\ userCollateralShare \in [Users -> Nat]
           /\ totalBorrow.base \in Nat
           /\ SoundDebt(totalBorrow)
  BY OriginsAssumption DEF IInv, TypeOK, DebtIsUsdo, SoundDebt

LEMMA SameValue ==
    ASSUME NEW S, NEW f \in [S -> Nat], NEW u \in S
    PROVE  f = [f EXCEPT ![u] = f[u]]
  OBVIOUS

LEMMA CollateralMoves ==
    ASSUME IInv, NEW u \in Users, NEW coll \in Nat, UNCHANGED debtVars,
           userCollateralShare' = [userCollateralShare EXCEPT ![u] = coll],
           coll >= userCollateralShare[u] \/ SolventAfter(u)
    PROVE  PositionEffect
<1> DEFINE part == userBorrowPart[u]
<1>1. part \in Nat /\ userBorrowPart' = [userBorrowPart EXCEPT ![u] = part]
  BY PositionTypes, SameValue DEF debtVars
<1>2. totalBorrow'.base = totalBorrow.base + part - userBorrowPart[u] /\ part <= userBorrowPart[u]
  BY <1>1, PositionTypes DEF debtVars
<1> HIDE DEF part
<1>3. PositionMoves(u, part, coll)
  BY <1>1, <1>2 DEF PositionMoves
<1> QED
  BY <1>1, <1>3 DEF PositionEffect

LEMMA DebtMoves ==
    ASSUME IInv, NEW u \in Users, NEW part \in Nat,
           userCollateralShare' = userCollateralShare,
           userBorrowPart' = [userBorrowPart EXCEPT ![u] = part],
           totalBorrow'.base = totalBorrow.base + part - userBorrowPart[u],
           part <= userBorrowPart[u] \/ SolventAfter(u)
    PROVE  PositionEffect
<1> DEFINE coll == userCollateralShare[u]
<1>1. coll \in Nat /\ userCollateralShare' = [userCollateralShare EXCEPT ![u] = coll]
      /\ coll >= userCollateralShare[u]
  BY PositionTypes, SameValue
<1> HIDE DEF coll
<1>2. PositionMoves(u, part, coll)
  BY <1>1 DEF PositionMoves
<1> QED
  BY <1>1, <1>2 DEF PositionEffect

LEMMA UserStepMoves ==
    ASSUME IInv, NEW u \in Users, UserStep(u)
    PROVE  PositionEffect
<1>1. ASSUME NEW share \in Shares, AddCollateral(u, share)
      PROVE  PositionEffect
  <2> DEFINE coll == userCollateralShare[u] + share
  <2>1. coll \in Nat /\ coll >= userCollateralShare[u]
    BY PositionTypes, OriginsAssumption
  <2>2. userCollateralShare' = [userCollateralShare EXCEPT ![u] = coll] /\ UNCHANGED debtVars
    BY <1>1 DEF AddCollateral
  <2> HIDE DEF coll
  <2> QED
    BY <2>1, <2>2, CollateralMoves
<1>2. ASSUME NEW share \in Shares, NEW rate \in Rates, RemoveCollateral(u, share, rate)
      PROVE  PositionEffect
  <2> DEFINE coll == userCollateralShare[u] - share
  <2>1. /\ userCollateralShare' = [userCollateralShare EXCEPT ![u] = coll]
        /\ UNCHANGED debtVars /\ SolventAfter(u) /\ share <= userCollateralShare[u]
    BY <1>2 DEF RemoveCollateral
  <2>2. coll \in Nat
    BY <2>1, PositionTypes, OriginsAssumption
  <2> HIDE DEF coll
  <2> QED
    BY <2>1, <2>2, CollateralMoves
<1>3. ASSUME NEW amount \in Amounts, NEW rate \in Rates, Borrow(u, amount, rate)
      PROVE  PositionEffect
  <2>1. userCollateralShare' = userCollateralShare /\ SolventAfter(u)
    BY <1>3 DEF Borrow, collateralVars
  <2>2. CASE UNCHANGED debtVars
    BY <2>1, <2>2 DEF debtVars, PositionEffect, NoPositionMoves
  <2>3. CASE BorrowCore(u, amount)
    <3> DEFINE add == ToBaseUp(totalBorrow, amount)
               part == userBorrowPart[u] + add
    <3>1. add \in Nat
      BY PositionTypes, OriginsAssumption, AddKeepsSound
    <3>2. /\ userBorrowPart' = [userBorrowPart EXCEPT ![u] = part]
          /\ totalBorrow'.base = totalBorrow.base + add
      BY <2>3 DEF BorrowCore, RebaseAddUp
    <3> HIDE DEF add
    <3>3. part \in Nat /\ totalBorrow'.base = totalBorrow.base + part - userBorrowPart[u]
      BY <3>1, <3>2, PositionTypes
    <3> HIDE DEF part
    <3> QED
      BY <2>1, <3>2, <3>3, DebtMoves
  <2> QED
    BY <1>3, <2>2, <2>3 DEF Borrow
<1>4. ASSUME NEW requested \in Parts, NEW rate \in Rates, Repay(u, requested, rate)
      PROVE  PositionEffect
  <2> DEFINE paid == RepaidPart(u, requested)
             part == userBorrowPart[u] - paid
  <2>1. /\ userBorrowPart' = [userBorrowPart EXCEPT ![u] = part]
        /\ totalBorrow'.base = totalBorrow.base - paid
        /\ userCollateralShare' = userCollateralShare
    BY <1>4 DEF Repay, RepayCore, RebaseSubUp, collateralVars
  <2>2. paid \in Nat /\ paid <= userBorrowPart[u]
    BY PositionTypes, OriginsAssumption DEF RepaidPart, Least
  <2> HIDE DEF paid
  <2>3. /\ part \in Nat /\ part <= userBorrowPart[u]
        /\ totalBorrow'.base = totalBorrow.base + part - userBorrowPart[u]
    BY <2>1, <2>2, PositionTypes
  <2> HIDE DEF part
  <2> QED
    BY <2>1, <2>3, DebtMoves
<1> QED
  BY <1>1, <1>2, <1>3, <1>4 DEF UserStep

LEMMA StepMovesOne ==
    ASSUME IInv, [Next]_vars
    PROVE  PositionEffect
<1>1. CASE UNCHANGED <<debtVars, collateralVars>>
  BY <1>1 DEF debtVars, collateralVars, PositionEffect, NoPositionMoves
<1>2. AdminStep => UNCHANGED <<debtVars, collateralVars>>
  BY DEF AdminStep, UpdateAllowedParticipants, UpdatePause, UpdatePauseAll, UsdoSetPause
<1> QED
  BY <1>1, <1>2, UserStepMoves DEF Next, UpdateExchangeRate, vars

LEMMA PartsKeepAddingUp ==
    ASSUME IInv, PartsAddUp, PositionEffect
    PROVE  PartsAddUp'
<1>1. CASE NoPositionMoves
  BY <1>1 DEF NoPositionMoves, PartsAddUp
<1>2. ASSUME NEW u \in Users, NEW part \in Nat, NEW coll \in Nat,
             PositionMoves(u, part, coll)
      PROVE  PartsAddUp'
  <2>1. SumFunction(userBorrowPart') = SumFunction(userBorrowPart) + part - userBorrowPart[u]
    BY <1>2, PositionTypes, UsersAssumption, SumUpdate DEF PositionMoves
  <2> QED
    BY <1>2, <2>1 DEF PositionMoves, PartsAddUp
<1> QED
  BY <1>1, <1>2 DEF PositionEffect

LEMMA PartsAlwaysAddUp == Spec => []PartsAddUp
<1>1. Init => PartsAddUp
  <2>1. SumFunction([u \in Users |-> 0]) = 0
    BY UsersAssumption, SumOfZeros
  <2> QED
    BY <2>1 DEF Init, PartsAddUp, ZeroRebase
<1>2. IInv /\ PartsAddUp /\ [Next]_vars => PartsAddUp'
  BY StepMovesOne, PartsKeepAddingUp
<1> QED
  BY <1>1, <1>2, Invariance, PTL DEF Spec

LEMMA StepKeepsSolvent ==
    ASSUME IInv, PartsAddUp, PositionEffect, IInv', NEW u \in Users,
           Solvent(u, exchangeRate')
    PROVE  Solvent(u, exchangeRate)'
<1> DEFINE part == userBorrowPart[u]
           coll == userCollateralShare[u]
<1>1. IInv' /\ PartsAddUp'
  BY PartsKeepAddingUp
<1>2. SoundDebt(totalBorrow) /\ SoundDebt(totalBorrow')
  <2>1. totalBorrow' \in [elastic : 0..MaxUint128, base : 0..MaxUint128]
        /\ totalBorrow'.elastic = totalBorrow'.base
    BY <1>1 DEF IInv, TypeOK, DebtIsUsdo
  <2> QED
    BY <2>1, PositionTypes, OriginsAssumption DEF SoundDebt
<1>3. NoDearer(totalBorrow', totalBorrow)
  <2>1. totalBorrow.elastic = totalBorrow.base /\ totalBorrow'.elastic = totalBorrow'.base
        /\ totalBorrow.base \in Nat /\ totalBorrow'.base \in Nat
    BY <1>1, <1>2 DEF IInv, DebtIsUsdo, SoundDebt
  <2>2. totalBorrow'.base * totalBorrow.base <= totalBorrow.base * totalBorrow'.base
    BY <2>1, SMT
  <2> QED
    BY <2>1, <2>2 DEF NoDearer
<1>4. /\ part \in Nat /\ coll \in Nat /\ part' \in Nat /\ coll' \in Nat
      /\ part' <= totalBorrow'.base
  BY <1>1, PositionTypes, UsersAssumption, SumBounds DEF IInv, TypeOK, PartsAddUp
<1>5. exchangeRate' \in Nat \ {0} /\ collateralizationRate \in Nat
  BY <1>1, OriginsAssumption, RatesAssumption DEF IInv, TypeOK
<1>6. ASSUME coll <= coll', part' <= part
      PROVE  Solvent(u, exchangeRate)'
  <2>1. IsSolvent(collateralizationRate, coll, part, totalBorrow, exchangeRate')
    BY DEF Solvent
  <2> HIDE DEF part, coll
  <2>2. IsSolvent(collateralizationRate, coll', part', totalBorrow', exchangeRate')
    BY <1>2, <1>3, <1>4, <1>5, <1>6, <2>1, StaysSolvent
  <2> QED
    BY <2>2 DEF Solvent, part, coll
<1>7. CASE NoPositionMoves
  BY <1>4, <1>6, <1>7 DEF NoPositionMoves
<1>8. ASSUME NEW v \in Users, NEW p \in Nat, NEW c \in Nat, PositionMoves(v, p, c)
      PROVE  Solvent(u, exchangeRate)'
  <2>1. CASE u # v
    <3>1. part' = part /\ coll' = coll
      BY <1>8, <2>1, PositionTypes DEF PositionMoves
    <3> QED
      BY <1>4, <1>6, <3>1
  <2>2. CASE u = v
    <3>1. part' = p /\ coll' = c
      BY <1>8, <2>2, PositionTypes DEF PositionMoves
    <3>2. CASE p <= userBorrowPart[u] /\ c >= userCollateralShare[u]
      <4>1. coll <= coll' /\ part' <= part
        BY <1>4, <3>1, <3>2
      <4> QED
        BY <1>6, <4>1
    <3> QED
      BY <1>8, <2>2, <3>2 DEF PositionMoves, SolventAfter
  <2> QED
    BY <2>1, <2>2
<1> QED
  BY <1>7, <1>8 DEF PositionEffect

(* Only the oracle makes a position of Origins insolvent: at the rate a    *)
(* step leaves behind, no loan, repayment or withdrawal, by anyone, turns  *)
(* a solvent position into an insolvent one.                               *)
THEOREM OriginsKeepsSolvency == Spec => SolventStaysSolvent
<1> DEFINE Keeps == \A u \in Users : Solvent(u, exchangeRate') => Solvent(u, exchangeRate)'
<1>1. IInv /\ PartsAddUp /\ [Next]_vars => [Keeps]_vars
  BY StepKeeps, StepMovesOne, StepKeepsSolvent
<1> QED
  BY <1>1, Invariance, PartsAlwaysAddUp, PTL DEF Spec, SolventStaysSolvent

-----------------------------------------------------------------------------
(* The mint of the first USDO.  What is in the queue was priced at a rate  *)
(* that was read: at that rate, or at a lower one, the collateral of a     *)
(* pool is worth what is borrowed for it.                                  *)

Priced(tx) ==
    /\ tx.rate \in Nat \ {0}
    /\ tx.forUSDC \in Nat
    /\ tx.forUSDC * tx.rate <= ETH_AMOUNT_FOR_USDC * EXCHANGE_RATE_PRECISION
    /\ tx.forDAI \in Nat
    /\ tx.forDAI * tx.rate <= ETH_AMOUNT_FOR_DAI * EXCHANGE_RATE_PRECISION

Transactions == [rate : Nat, forUSDC : Nat, forDAI : Nat, transfer : BOOLEAN]

PendingPriced ==
    /\ pending \in Seq(Transactions)
    /\ pending # <<>> => ETH_AMOUNT_FOR_USDC # 0 /\ ETH_AMOUNT_FOR_DAI # 0
    /\ \A i \in 1..Len(pending) : Priced(pending[i])

LEMMA AmountPriced ==
    ASSUME NEW coll \in Nat, NEW rate \in Nat \ {0}, NEW delta \in Deltas
    PROVE  /\ borrowAmount(coll, rate, delta) \in Nat
           /\ borrowAmount(coll, rate, delta) * rate <= coll * EXCHANGE_RATE_PRECISION
<1> DEFINE E == EXCHANGE_RATE_PRECISION
           perUnit == (E * E) \div rate
           amount == (perUnit * coll) \div E
           cut == (amount * delta) \div PERCENT
<1>1. E \in Nat \ {0} /\ PERCENT \in Nat \ {0} /\ delta \in Nat /\ delta <= PERCENT
  BY PrecisionAssumption, OriginsMintAssumption
<1>2. borrowAmount(coll, rate, delta) = amount - cut
  BY DEF borrowAmount
<1> HIDE DEF E
<1>3. perUnit \in Nat /\ rate * perUnit <= E * E
  <2>1. E * E \in Nat
    BY <1>1, SMT
  <2> QED
    BY <2>1, DivFacts
<1> HIDE DEF perUnit
<1>4. amount \in Nat /\ E * amount <= perUnit * coll
  <2>1. perUnit * coll \in Nat
    BY <1>3, SMT
  <2> QED
    BY <1>1, <2>1, DivFacts
<1> HIDE DEF amount
<1>5. cut \in Nat /\ cut <= amount
  <2>1. amount * delta \in Nat /\ amount * delta <= amount * PERCENT
    BY <1>1, <1>4, SMT
  <2>2. cut \in Nat /\ PERCENT * cut <= amount * delta
    BY <1>1, <2>1, DivFacts
  <2>3. cut * PERCENT <= amount * PERCENT
    BY <1>1, <1>4, <2>1, <2>2, SMT
  <2> QED
    BY <1>1, <1>4, <2>2, <2>3, CancelProduct
<1> HIDE DEF cut
<1>6. amount * rate <= coll * E
  <2>1. (E * amount) * rate <= (perUnit * coll) * rate
    BY <1>1, <1>3, <1>4, ProductMonotone, SMT
  <2>2. (rate * perUnit) * coll <= (E * E) * coll
    BY <1>1, <1>3, ProductMonotone, SMT
  <2>3. (amount * rate) * E <= (coll * E) * E
    <3>1. /\ (E * amount) * rate = (amount * rate) * E
          /\ (perUnit * coll) * rate = (rate * perUnit) * coll
          /\ (E * E) * coll = (coll * E) * E
      BY <1>1, <1>3, <1>4, SMT
    <3>2. (amount * rate) * E \in Nat /\ (rate * perUnit) * coll \in Nat
          /\ (coll * E) * E \in Nat
      BY <1>1, <1>3, <1>4, SMT
    <3> QED
      BY <2>1, <2>2, <3>1, <3>2
  <2>4. amount * rate \in Nat /\ coll * E \in Nat
    BY <1>1, <1>4, SMT
  <2> QED
    BY <1>1, <2>3, <2>4, CancelProduct
<1>7. amount - cut \in Nat /\ (amount - cut) * rate <= amount * rate
  <2>1. amount - cut \in Nat /\ amount - cut <= amount
    BY <1>4, <1>5
  <2> QED
    BY <1>4, <2>1, ProductMonotone
<1>8. (amount - cut) * rate \in Nat /\ amount * rate \in Nat /\ coll * E \in Nat
  BY <1>1, <1>4, <1>7, SMT
<1>9. (amount - cut) * rate <= coll * E
  BY <1>6, <1>7, <1>8
<1> QED
  BY <1>2, <1>7, <1>9 DEF E

(* A position in a market where a part is worth one USDO.                  *)
AtPar(position) ==
    /\ position.debt \in [elastic : Nat, base : Nat]
    /\ position.debt.elastic = position.debt.base
    /\ position.part \in Nat /\ position.share \in Nat

(* The calls of a pool add to the position what they say.                  *)
LEMMA MintAtPar ==
    ASSUME NEW position, AtPar(position), NEW coll \in Nat, NEW amount \in Nat
    PROVE  LET minted == mintOriginUSDO(position, coll, amount)
           IN  /\ AtPar(minted)
               /\ minted.debt.base = position.debt.base + amount
               /\ minted.part = position.part + amount
               /\ minted.share = position.share + coll * ShareRatio
<1> DEFINE minted == mintOriginUSDO(position, coll, amount)
<1>1. /\ position.debt.elastic \in Nat /\ position.debt.base \in Nat
      /\ position.debt.elastic = position.debt.base
      /\ position.part \in Nat /\ position.share \in Nat
  BY DEF AtPar
<1>2. ToBaseUp(position.debt, amount) = amount
  BY <1>1, ParParts
<1>3. minted.share = position.share + coll * ShareRatio /\ coll * ShareRatio \in Nat
  BY PrecisionAssumption, SMT DEF mintOriginUSDO, ToShare
<1>4. minted.part = position.part + amount
  BY <1>1, <1>2 DEF mintOriginUSDO
<1>5. /\ minted.debt \in [elastic : Nat, base : Nat]
      /\ minted.debt.elastic = position.debt.elastic + amount
      /\ minted.debt.base = position.debt.base + amount
  <2>1. CASE amount = 0
    BY <1>1, <2>1 DEF mintOriginUSDO, AtPar
  <2>2. CASE amount # 0
    BY <1>1, <1>2, <2>2 DEF mintOriginUSDO, RebaseAddUp
  <2> QED
    BY <2>1, <2>2
<1> HIDE DEF minted
<1>6. AtPar(minted)
  BY <1>1, <1>3, <1>4, <1>5 DEF AtPar
<1> QED
  BY <1>3, <1>4, <1>5, <1>6 DEF minted

(* Where collateral may be borrowed against in full, a solvent position    *)
(* sustains a loan worth no more than the collateral added for it.         *)
LEMMA MintSustained ==
    ASSUME collateralizationRate = FEE_PRECISION,
           NEW position, AtPar(position), NEW coll \in Nat \ {0}, NEW amount \in Nat,
           NEW rate \in Nat \ {0}, Sustains(position, rate),
           amount * rate <= coll * EXCHANGE_RATE_PRECISION
    PROVE  Sustains(mintOriginUSDO(position, coll, amount), rate)
<1> DEFINE minted == mintOriginUSDO(position, coll, amount)
           E == EXCHANGE_RATE_PRECISION
           held == ToAmount(ShareRatio, position.share)
<1>1. /\ AtPar(minted)
      /\ minted.part = position.part + amount
      /\ minted.debt.base = position.debt.base + amount
      /\ minted.share = position.share + coll * ShareRatio
  BY MintAtPar
<1>2. /\ position.part \in Nat /\ position.share \in Nat /\ position.debt.base \in Nat
      /\ position.debt.elastic = position.debt.base
      /\ minted.debt.elastic = minted.debt.base /\ minted.debt.base \in Nat
  BY <1>1 DEF AtPar
<1>3. /\ E \in Nat \ {0} /\ FEE_PRECISION \in Nat \ {0} /\ ShareRatio \in Nat \ {0}
      /\ E \div FEE_PRECISION \in Nat /\ E = FEE_PRECISION * (E \div FEE_PRECISION)
  BY PrecisionAssumption
<1> HIDE DEF minted, E
<1>4. ASSUME NEW a \in Nat
      PROVE  a * (E \div FEE_PRECISION) * collateralizationRate = a * E
  BY <1>3, SMT
<1>5. ASSUME NEW p \in Nat, NEW b \in Nat \ {0}
      PROVE  (p * b * rate) \div b = p * rate
  <2> DEFINE q == (p * b * rate) \div b
  <2>1. p * b * rate \in Nat /\ p * rate \in Nat
    BY SMT
  <2>2. q \in Nat /\ b * q <= p * b * rate /\ p * b * rate < b * q + b
    BY <2>1, DivFacts
  <2> HIDE DEF q
  <2>3. q * b <= (p * rate) * b /\ (p * rate) * b < (q + 1) * b
    BY <2>1, <2>2, SMT
  <2>4. q <= p * rate /\ p * rate < q + 1
    BY <2>1, <2>2, <2>3, CancelProduct
  <2>5. q = p * rate
    BY <2>1, <2>2, <2>4
  <2> QED
    BY <2>5 DEF q
<1>6. held \in Nat /\ held * ShareRatio <= position.share
  BY <1>2, <1>3, DivFacts, SMT DEF ToAmount
<1>7. position.part * rate <= held * E
  <2>1. CASE position.part = 0
    <3>1. position.part * rate = 0 /\ held * E \in Nat
      BY <1>3, <1>6, <2>1, SMT
    <3> QED
      BY <3>1
  <2>2. CASE position.part # 0
    <3>1. /\ position.debt.base # 0
          /\ held * (E \div FEE_PRECISION) * collateralizationRate
                >= (position.part * position.debt.base * rate) \div position.debt.base
      BY <1>2, <2>2 DEF Sustains, IsSolvent, E
    <3> QED
      BY <1>2, <1>4, <1>5, <1>6, <3>1
  <2> QED
    BY <2>1, <2>2
<1>8. CASE minted.part = 0
  BY <1>8 DEF Sustains, IsSolvent, minted
<1>9. CASE minted.part # 0
  <2>1. minted.share \in Nat \ {0}
    <3>1. coll * ShareRatio \in Nat \ {0}
      BY <1>3, SMT
    <3> QED
      BY <1>1, <1>2, <3>1
  <2>2. minted.debt.base # 0
    <3>1. CASE amount = 0
      <4>1. position.part # 0
        BY <1>1, <1>2, <1>9, <3>1
      <4> QED
        BY <1>1, <1>2, <3>1, <4>1 DEF Sustains, IsSolvent
    <3>2. CASE amount # 0
      BY <1>1, <1>2, <3>2
    <3> QED
      BY <3>1, <3>2
  <2> DEFINE after == ToAmount(ShareRatio, minted.share)
  <2>3. after \in Nat /\ held + coll <= after
    <3>1. after \in Nat /\ minted.share < ShareRatio * after + ShareRatio
      BY <1>3, <2>1, DivFacts DEF ToAmount
    <3> HIDE DEF after, held
    <3>2. (held + coll) * ShareRatio <= minted.share
      BY <1>1, <1>2, <1>3, <1>6, SMT
    <3>3. (held + coll) * ShareRatio < (after + 1) * ShareRatio
      BY <1>3, <1>6, <2>1, <3>1, <3>2, SMT
    <3>4. held + coll < after + 1
      BY <1>3, <1>6, <3>1, <3>3, CancelProduct
    <3> QED
      BY <1>6, <3>1, <3>4
  <2>4. minted.part * rate <= after * E
    <3> HIDE DEF after, held
    <3>1. (held + coll) * E <= after * E
      BY <1>3, <1>6, <2>3, ProductMonotone
    <3>2. minted.part * rate = position.part * rate + amount * rate
      BY <1>1, <1>2, SMT
    <3>3. (held + coll) * E = held * E + coll * E
      BY <1>3, <1>6, SMT
    <3>4. /\ position.part * rate \in Nat /\ amount * rate \in Nat
          /\ held * E \in Nat /\ coll * E \in Nat /\ after * E \in Nat
      BY <1>2, <1>3, <1>6, <2>3, SMT
    <3> QED
      BY <1>7, <3>1, <3>2, <3>3, <3>4 DEF E
  <2>5. minted.part \in Nat
    BY <1>1, <1>2
  <2>6. /\ (minted.part * minted.debt.base * rate) \div minted.debt.base = minted.part * rate
        /\ after * (E \div FEE_PRECISION) * collateralizationRate = after * E
    BY <1>2, <1>4, <1>5, <2>2, <2>3, <2>5
  <2>7. minted.part * rate \in Nat /\ after * E \in Nat
    BY <1>3, <2>3, <2>5, SMT
  <2>8. after * (E \div FEE_PRECISION) * collateralizationRate
          >= (minted.part * minted.debt.elastic * rate) \div minted.debt.base
    BY <1>2, <2>4, <2>6, <2>7
  <2> QED
    BY <2>1, <2>2, <2>8 DEF Sustains, IsSolvent, E, minted
<1> QED
  BY <1>8, <1>9

-----------------------------------------------------------------------------
(* The invariant of the task and the market together.                      *)
MintInv == IInv /\ PartsAddUp /\ PendingPriced

LEMMA OwnerAtPar ==
    ASSUME IInv
    PROVE  AtPar(OwnersPosition)
  BY OriginsAssumption, PositionTypes DEF IInv, TypeOK, DebtIsUsdo, AtPar, OwnersPosition

LEMMA HeadPriced ==
    ASSUME PendingPriced, pending # <<>>
    PROVE  /\ Priced(Head(pending))
           /\ pending' = Tail(pending) => PendingPriced'
<1>1. /\ pending \in Seq(Transactions) /\ Len(pending) \in Nat \ {0}
      /\ Head(pending) = pending[1]
      /\ \A i \in 1..Len(pending) : Priced(pending[i])
      /\ ETH_AMOUNT_FOR_USDC # 0 /\ ETH_AMOUNT_FOR_DAI # 0
  BY DEF PendingPriced
<1>2. Priced(Head(pending))
  BY <1>1
<1>3. ASSUME pending' = Tail(pending)
      PROVE  PendingPriced'
  <2>1. /\ Tail(pending) \in Seq(Transactions)
        /\ Len(Tail(pending)) = Len(pending) - 1
        /\ \A i \in 1..Len(Tail(pending)) : Tail(pending)[i] = pending[i + 1]
    BY <1>1
  <2>2. \A i \in 1..Len(Tail(pending)) : Priced(Tail(pending)[i])
    <3> SUFFICES ASSUME NEW i \in 1..Len(Tail(pending))
                 PROVE  Priced(Tail(pending)[i])
      OBVIOUS
    <3>1. i + 1 \in 1..Len(pending)
      BY <1>1, <2>1
    <3> QED
      BY <1>1, <2>1, <3>1
  <2>3. Tail(pending) # <<>> => ETH_AMOUNT_FOR_USDC # 0 /\ ETH_AMOUNT_FOR_DAI # 0
    BY <1>1
  <2> QED
    BY <1>3, <2>1, <2>2, <2>3 DEF PendingPriced, Priced
<1> QED
  BY <1>2, <1>3

(* What both pools' calls make of the Owner's position.                    *)
LEMMA BothPools ==
    ASSUME IInv, NEW tx, Priced(tx)
    PROVE  /\ AtPar(ForUSDC(tx)) /\ AtPar(ForDAI(tx))
           /\ ForDAI(tx).debt.base = totalBorrow.base + tx.forUSDC + tx.forDAI
           /\ ForDAI(tx).part = userBorrowPart[Owner] + tx.forUSDC + tx.forDAI
           /\ ForDAI(tx).share = userCollateralShare[Owner]
                 + ETH_AMOUNT_FOR_USDC * ShareRatio + ETH_AMOUNT_FOR_DAI * ShareRatio
<1>1. /\ AtPar(OwnersPosition) /\ tx.forUSDC \in Nat /\ tx.forDAI \in Nat
      /\ ETH_AMOUNT_FOR_USDC \in Nat /\ ETH_AMOUNT_FOR_DAI \in Nat
  BY OwnerAtPar, OriginsMintAssumption DEF Priced
<1>2. /\ AtPar(ForUSDC(tx))
      /\ ForUSDC(tx).debt.base = OwnersPosition.debt.base + tx.forUSDC
      /\ ForUSDC(tx).part = OwnersPosition.part + tx.forUSDC
      /\ ForUSDC(tx).share = OwnersPosition.share + ETH_AMOUNT_FOR_USDC * ShareRatio
  BY <1>1, MintAtPar DEF ForUSDC
<1>3. /\ AtPar(ForDAI(tx))
      /\ ForDAI(tx).debt.base = ForUSDC(tx).debt.base + tx.forDAI
      /\ ForDAI(tx).part = ForUSDC(tx).part + tx.forDAI
      /\ ForDAI(tx).share = ForUSDC(tx).share + ETH_AMOUNT_FOR_DAI * ShareRatio
  BY <1>1, <1>2, MintAtPar DEF ForDAI
<1> QED
  BY <1>2, <1>3 DEF OwnersPosition

LEMMA ExecuteMintKeeps ==
    ASSUME IInv, PendingPriced, NEW rate \in Rates, ExecuteMint(rate)
    PROVE  IInv' /\ PositionEffect
<1> DEFINE tx == Head(pending)
           part == ForDAI(tx).part
           coll == ForDAI(tx).share
           added == ETH_AMOUNT_FOR_USDC * ShareRatio + ETH_AMOUNT_FOR_DAI * ShareRatio
<1>1. Priced(tx)
  BY HeadPriced DEF ExecuteMint
<1>2. /\ AtPar(ForDAI(tx))
      /\ ForDAI(tx).debt.base = totalBorrow.base + tx.forUSDC + tx.forDAI
      /\ part = userBorrowPart[Owner] + tx.forUSDC + tx.forDAI
  BY <1>1, BothPools
<1>3. coll = userCollateralShare[Owner] + added
  <2>1. /\ ETH_AMOUNT_FOR_USDC * ShareRatio \in Nat /\ ETH_AMOUNT_FOR_DAI * ShareRatio \in Nat
        /\ userCollateralShare[Owner] \in Nat
    BY OriginsAssumption, OriginsMintAssumption, PrecisionAssumption, PositionTypes, SMT
  <2> QED
    BY <1>1, <2>1, BothPools
<1>4. /\ part \in Nat /\ coll \in Nat /\ added \in Nat
      /\ tx.forUSDC \in Nat /\ tx.forDAI \in Nat
      /\ ForDAI(tx).debt \in [elastic : Nat, base : Nat]
      /\ ForDAI(tx).debt.elastic = ForDAI(tx).debt.base
  <2>1. added \in Nat
    BY OriginsMintAssumption, PrecisionAssumption, SMT
  <2> QED
    BY <1>1, <1>2, <2>1 DEF Priced, AtPar
<1>5. /\ totalBorrow' = ForDAI(tx).debt
      /\ userBorrowPart' = [userBorrowPart EXCEPT ![Owner] = part]
      /\ userCollateralShare' = [userCollateralShare EXCEPT ![Owner] = coll]
      /\ totalCollateralShare' = totalCollateralShare + coll - userCollateralShare[Owner]
      /\ ybCollateral' = ybCollateral + coll - userCollateralShare[Owner]
      /\ usdoSupply' = usdoSupply + tx.forUSDC + tx.forDAI
      /\ exchangeRate' = rate
      /\ UNCHANGED adminVars
      /\ WithinLimits(ForDAI(tx)) /\ Sustains(ForDAI(tx), rate)
  BY DEF ExecuteMint, Succeeds, Admitted
<1> HIDE DEF tx, part, coll, added
<1>6. totalBorrow' \in [elastic : 0..MaxUint128, base : 0..MaxUint128]
  BY <1>4, <1>5, OriginsAssumption DEF WithinLimits
<1>7. totalCollateralShare' \in Nat /\ ybCollateral' \in Nat
  BY <1>3, <1>4, <1>5, OriginsAssumption DEF IInv, TypeOK
<1>8. userBorrowPart' \in [Users -> Nat] /\ userCollateralShare' \in [Users -> Nat]
  BY <1>4, <1>5, PositionTypes
<1>9. usdoSupply' \in Nat
  BY <1>4, <1>5 DEF IInv, TypeOK
<1>10. TypeOK'
  BY <1>5, <1>6, <1>7, <1>8, <1>9 DEF IInv, TypeOK, adminVars
<1>11. DebtIsUsdo'
  <2>1. totalBorrow'.elastic = totalBorrow'.base
        /\ totalBorrow'.base = totalBorrow.base + tx.forUSDC + tx.forDAI
    BY <1>2, <1>4, <1>5
  <2>2. /\ totalBorrow.elastic = totalBorrow.base /\ totalBorrow.base \in Nat
        /\ totalBorrow.elastic = usdoSupply - ExternalUsdo
        /\ usdoSupply \in Nat /\ ExternalUsdo \in Nat
    BY PositionTypes, OriginsAssumption DEF IInv, TypeOK, DebtIsUsdo
  <2> QED
    BY <1>4, <1>5, <2>1, <2>2 DEF DebtIsUsdo
<1>12. SolventAfter(Owner)
  <2>1. userCollateralShare'[Owner] = coll /\ userBorrowPart'[Owner] = part
    BY <1>5, PositionTypes, OriginsAssumption
  <2> QED
    BY <1>5, <2>1 DEF SolventAfter, Solvent, Sustains, coll, part
<1>13. totalBorrow'.base = totalBorrow.base + part - userBorrowPart[Owner]
  <2>1. totalBorrow.base \in Nat /\ userBorrowPart[Owner] \in Nat
        /\ totalBorrow'.base = totalBorrow.base + tx.forUSDC + tx.forDAI
    BY <1>2, <1>5, PositionTypes, OriginsAssumption
  <2> QED
    BY <1>2, <1>4, <2>1
<1>14. PositionMoves(Owner, part, coll)
  BY <1>5, <1>12, <1>13 DEF PositionMoves
<1> QED
  BY <1>4, <1>10, <1>11, <1>14, OriginsAssumption DEF IInv, PositionEffect

LEMMA SendMintKeeps ==
    ASSUME MintInv, NEW delta \in Deltas, NEW noTransfer \in BOOLEAN,
           SendMint(delta, noTransfer)
    PROVE  PendingPriced'
<1> DEFINE tx == [rate     |-> exchangeRate,
                  forUSDC  |-> borrowAmount(ETH_AMOUNT_FOR_USDC, exchangeRate, delta),
                  forDAI   |-> borrowAmount(ETH_AMOUNT_FOR_DAI, exchangeRate, delta),
                  transfer |-> ~noTransfer]
<1>1. exchangeRate \in Nat \ {0}
  BY OriginsAssumption DEF MintInv, IInv, TypeOK
<1>2. /\ ETH_AMOUNT_FOR_USDC \in Nat /\ ETH_AMOUNT_FOR_DAI \in Nat
      /\ ETH_AMOUNT_FOR_USDC # 0 /\ ETH_AMOUNT_FOR_DAI # 0
  BY OriginsMintAssumption DEF SendMint
<1>3. tx \in Transactions /\ Priced(tx)
  BY <1>1, <1>2, AmountPriced DEF Priced, Transactions
<1>4. pending \in Seq(Transactions) /\ \A i \in 1..Len(pending) : Priced(pending[i])
  BY DEF MintInv, PendingPriced
<1>5. pending' = Append(pending, tx)
  BY DEF SendMint
<1> HIDE DEF tx
<1>6. pending' \in Seq(Transactions) /\ Len(pending') = Len(pending) + 1
  BY <1>3, <1>4, <1>5
<1>7. ASSUME NEW i \in 1..Len(pending')
      PROVE  Priced(pending'[i])
  <2>1. CASE i = Len(pending) + 1
    BY <1>3, <1>4, <1>5, <2>1
  <2>2. CASE i # Len(pending) + 1
    <3>1. i \in 1..Len(pending) /\ pending'[i] = pending[i]
      BY <1>3, <1>4, <1>5, <1>6, <2>2
    <3> QED
      BY <1>4, <3>1
  <2> QED
    BY <2>1, <2>2
<1> QED
  BY <1>2, <1>6, <1>7 DEF PendingPriced, Priced

(* A step of the market or of the task: an effect on one position, and the *)
(* invariant is kept.                                                      *)
LEMMA MintStep ==
    ASSUME MintInv, [MintNext]_<<vars, mintVars>>
    PROVE  MintInv' /\ PositionEffect
<1>1. CASE OriginsStep
  <2>1. IInv' /\ PositionEffect
    BY <1>1, StepKeeps, StepMovesOne DEF OriginsStep, MintInv
  <2>2. PendingPriced'
    BY <1>1 DEF OriginsStep, MintInv, PendingPriced, Priced, mintVars
  <2> QED
    BY <2>1, <2>2, PartsKeepAddingUp DEF MintInv
<1>2. ASSUME UNCHANGED vars
      PROVE  IInv' /\ PartsAddUp' /\ PositionEffect
  <2>1. IInv' /\ PositionEffect
    BY <1>2, StepKeeps, StepMovesOne DEF MintInv
  <2> QED
    BY <2>1, PartsKeepAddingUp DEF MintInv
<1>3. CASE UNCHANGED <<vars, mintVars>>
  <2>1. PendingPriced'
    BY <1>3 DEF MintInv, PendingPriced, Priced, mintVars
  <2> QED
    BY <1>2, <1>3, <2>1 DEF MintInv
<1>4. ASSUME NEW delta \in Deltas, NEW noTransfer \in BOOLEAN, SendMint(delta, noTransfer)
      PROVE  MintInv' /\ PositionEffect
  BY <1>2, <1>4, SendMintKeeps DEF SendMint, MintInv
<1>5. ASSUME NEW rate \in Rates, ExecuteMint(rate)
      PROVE  MintInv' /\ PositionEffect
  <2>1. IInv' /\ PositionEffect
    BY <1>5, ExecuteMintKeeps DEF MintInv
  <2>2. PendingPriced'
    BY <1>5, HeadPriced DEF ExecuteMint, MintInv
  <2> QED
    BY <2>1, <2>2, PartsKeepAddingUp DEF MintInv
<1>6. ASSUME NEW rate \in Rates, RevertMint(rate)
      PROVE  MintInv' /\ PositionEffect
  BY <1>2, <1>6, HeadPriced DEF RevertMint, MintInv
<1> QED
  BY <1>1, <1>3, <1>4, <1>5, <1>6 DEF MintNext

LEMMA MintInitSound == MintInit => MintInv
<1> SUFFICES ASSUME MintInit
             PROVE  MintInv
  OBVIOUS
<1>1. SumFunction([u \in Users |-> 0]) = 0
  BY UsersAssumption, SumOfZeros
<1>2. PartsAddUp
  BY <1>1 DEF MintInit, Init, PartsAddUp, ZeroRebase
<1>3. PendingPriced
  BY DEF MintInit, PendingPriced
<1> QED
  BY <1>2, <1>3, InitSound DEF MintInit, MintInv

LEMMA MintInvariance == MintSpec => []MintInv
<1>1. MintInv /\ [MintNext]_<<vars, mintVars>> => MintInv'
  BY MintStep
<1> QED
  BY <1>1, MintInitSound, PTL DEF MintSpec

(* The same with the mint of the first USDO among the steps: its multicall *)
(* mints exactly the debt it takes on ...                                  *)
THEOREM MintedDebtIsUsdo == MintSpec => []DebtIsUsdo
<1>1. MintInv => DebtIsUsdo
  BY DEF MintInv, IInv
<1> QED
  BY <1>1, MintInvariance, PTL

(* ... and leaves no position insolvent, its own included.                 *)
THEOREM MintKeepsSolvency == MintSpec => SolventStaysSolvent
<1> DEFINE Keeps == \A u \in Users : Solvent(u, exchangeRate') => Solvent(u, exchangeRate)'
<1>1. MintInv /\ [MintNext]_<<vars, mintVars>> => [Keeps]_vars
  <2> SUFFICES ASSUME MintInv, [MintNext]_<<vars, mintVars>>
               PROVE  Keeps
    OBVIOUS
  <2>1. MintInv' /\ PositionEffect
    BY MintStep
  <2> QED
    BY <2>1, StepKeepsSolvent DEF MintInv
<1> QED
  BY <1>1, MintInvariance, PTL DEF MintSpec, SolventStaysSolvent

LEMMA UnmovedRate ==
    ASSUME collateralizationRate = FEE_PRECISION, MintInv
    PROVE  UnmovedRateSuffices
<1> DEFINE tx == Head(pending)
<1> SUFFICES ASSUME pending # <<>>, NEW rate \in Rates, tx.rate >= rate,
                    Solvent(Owner, rate), Admitted(tx)
             PROVE  Succeeds(tx, rate)
  BY DEF UnmovedRateSuffices
<1>1. Priced(tx)
  BY HeadPriced DEF MintInv
<1>2. rate \in Nat \ {0} /\ EXCHANGE_RATE_PRECISION \in Nat
  BY OriginsAssumption, PrecisionAssumption
<1>3. /\ ETH_AMOUNT_FOR_USDC \in Nat \ {0} /\ ETH_AMOUNT_FOR_DAI \in Nat \ {0}
  BY OriginsMintAssumption DEF MintInv, PendingPriced
<1> HIDE DEF tx
<1>4. ASSUME NEW amount \in Nat, NEW coll \in Nat,
             amount * tx.rate <= coll * EXCHANGE_RATE_PRECISION
      PROVE  amount * rate <= coll * EXCHANGE_RATE_PRECISION
  <2>1. tx.rate \in Nat
    BY <1>1 DEF Priced
  <2>2. rate * amount <= tx.rate * amount
    BY <1>2, <2>1, ProductMonotone
  <2>3. /\ rate * amount = amount * rate /\ tx.rate * amount = amount * tx.rate
        /\ amount * rate \in Nat /\ amount * tx.rate \in Nat
        /\ coll * EXCHANGE_RATE_PRECISION \in Nat
    BY <1>2, <2>1, SMT
  <2> QED
    BY <1>4, <2>2, <2>3
<1>5. /\ tx.forUSDC \in Nat /\ tx.forDAI \in Nat
      /\ tx.forUSDC * rate <= ETH_AMOUNT_FOR_USDC * EXCHANGE_RATE_PRECISION
      /\ tx.forDAI * rate <= ETH_AMOUNT_FOR_DAI * EXCHANGE_RATE_PRECISION
  BY <1>1, <1>3, <1>4 DEF Priced
<1>6. AtPar(OwnersPosition) /\ AtPar(ForUSDC(tx))
  BY <1>1, OwnerAtPar, BothPools DEF MintInv
<1>7. Sustains(OwnersPosition, rate)
  BY DEF Solvent, Sustains, OwnersPosition
<1>8. Sustains(ForUSDC(tx), rate)
  BY <1>2, <1>3, <1>5, <1>6, <1>7, MintSustained DEF ForUSDC
<1>9. Sustains(ForDAI(tx), rate)
  BY <1>2, <1>3, <1>5, <1>6, <1>8, MintSustained DEF ForDAI
<1> QED
  BY <1>8, <1>9 DEF Succeeds

(* Where collateral may be borrowed against in full, as the Origins market *)
(* of the task is configured (DEPLOY_CONFIG.ts), the multicall never       *)
(* reverts for want of collateral while USDO buys no more collateral than  *)
(* when the task read the rate, whatever happened to the market since.     *)
THEOREM UnmovedRateIsEnough ==
    ASSUME collateralizationRate = FEE_PRECISION
    PROVE  MintSpec => []UnmovedRateSuffices
<1>1. MintInv => UnmovedRateSuffices
  BY UnmovedRate
<1> QED
  BY <1>1, MintInvariance, PTL
=============================================================================
