------------------------------ MODULE Origins -------------------------------
(***************************************************************************)
(* The Origins market (src/contracts/markets/origins), with which the      *)
(* first USDO is minted: only allowed participants use it, a loan bears    *)
(* neither fee nor interest, and nothing is liquidated.                    *)
(*                                                                         *)
(* One transaction is one action.  USDO circulates in wallets outside the  *)
(* market, which holds none.                                               *)
(***************************************************************************)
EXTENDS Market, FiniteSets

CONSTANTS
    Users,              \* accounts that may be allowed to participate
    Owner,              \* the one that is from the start
    totalBorrowCap,     \* 0: no cap
    MaxUint128,
    ExternalUsdo,       \* USDO that circulates without a loan of this market
    MaxCollateral,      \* bound on the collateral shares in the market
    Shares, Amounts, Parts, \* the inputs callers choose from
    Rates,              \* exchange rates the oracle may report
    Pausable            \* the options the conservator may pause

PauseType == {"Borrow", "Repay", "AddCollateral", "RemoveCollateral",
              "Liquidation", "LeverageBuy", "LeverageSell"}

ASSUME UsersAssumption == IsFiniteSet(Users)

ASSUME OriginsAssumption ==
    /\ Owner \in Users
    /\ totalBorrowCap \in Nat /\ MaxUint128 \in Nat
    /\ ExternalUsdo \in Nat /\ MaxCollateral \in Nat
    /\ Shares \subseteq Nat /\ Amounts \subseteq Nat /\ Parts \subseteq Nat
    /\ Rates \subseteq Nat \ {0}
    /\ Pausable \subseteq PauseType

VARIABLES
    exchangeRate,         \* the cached oracle rate
    totalBorrow,          \* the market's debt: a Rebase
    userBorrowPart,       \* the parts of it each user owes
    userCollateralShare,  \* each user's collateral
    totalCollateralShare,
    ybCollateral,         \* collateral shares YieldBox holds for the market
    usdoSupply,           \* USDO in existence, ExternalUsdo included
    allowedParticipants,
    pauseOptions,         \* the options that are paused
    usdoPaused            \* whether USDO can be neither minted nor burnt

debtVars       == <<totalBorrow, userBorrowPart, usdoSupply>>
collateralVars == <<userCollateralShare, totalCollateralShare, ybCollateral>>
adminVars      == <<allowedParticipants, pauseOptions, usdoPaused>>
vars == <<exchangeRate, debtVars, collateralVars, adminVars>>

TypeOK ==
    /\ exchangeRate \in Rates
    /\ totalBorrow \in [elastic : 0..MaxUint128, base : 0..MaxUint128]
    /\ userBorrowPart \in [Users -> Nat]
    /\ userCollateralShare \in [Users -> Nat]
    /\ totalCollateralShare \in Nat
    /\ ybCollateral \in Nat
    /\ usdoSupply \in Nat
    /\ allowedParticipants \subseteq Users
    /\ pauseOptions \subseteq PauseType
    /\ usdoPaused \in BOOLEAN

(* The constructor, which reads the oracle.                                *)
Init ==
    /\ exchangeRate \in Rates
    /\ totalBorrow = ZeroRebase
    /\ userBorrowPart = [u \in Users |-> 0]
    /\ userCollateralShare = [u \in Users |-> 0]
    /\ totalCollateralShare = 0 /\ ybCollateral = 0
    /\ usdoSupply = ExternalUsdo
    /\ allowedParticipants = {Owner}
    /\ pauseOptions = {} /\ usdoPaused = FALSE

-----------------------------------------------------------------------------
(* A participant's operation on its own position.                          *)
Allowed(user, type) == user \in allowedParticipants /\ type \notin pauseOptions

Solvent(u, rate) ==
    IsSolvent(collateralizationRate, userCollateralShare[u], userBorrowPart[u],
              totalBorrow, rate)
SolventBefore(u) == Solvent(u, exchangeRate) \* mutant: checked before the body
SolventAfter(u) == Solvent(u, exchangeRate)'

AddCollateral(user, share) ==
    /\ Allowed(user, "AddCollateral")
    /\ ybCollateral + share <= MaxCollateral
    /\ userCollateralShare' = [userCollateralShare EXCEPT ![user] = @ + share]
    /\ totalCollateralShare' = totalCollateralShare + share
    /\ ybCollateral' = ybCollateral + share
    /\ UNCHANGED <<exchangeRate, debtVars, adminVars>>

RemoveCollateral(user, share, rate) ==
    /\ Allowed(user, "RemoveCollateral")
    /\ exchangeRate' = rate
    /\ share <= userCollateralShare[user]
    /\ share <= totalCollateralShare
    /\ share <= ybCollateral
    /\ userCollateralShare' = [userCollateralShare EXCEPT ![user] = @ - share]
    /\ totalCollateralShare' = totalCollateralShare - share
    /\ ybCollateral' = ybCollateral - share
    /\ UNCHANGED <<debtVars, adminVars>>
    /\ SolventAfter(user)

(* _borrow, whose whole loan is minted.                                    *)
BorrowWithFee(user, amount) == \* mutant: a fee is owed too, as in BigBang
    LET owed == RebaseAddUp(totalBorrow, amount + 1)
    IN  /\ owed.elastic <= MaxUint128 /\ owed.base <= MaxUint128
        /\ totalBorrowCap > 0 => owed.elastic <= totalBorrowCap
        /\ totalBorrow' = owed
        /\ userBorrowPart' =
              [userBorrowPart EXCEPT ![user] = @ + ToBaseUp(totalBorrow, amount + 1)]
        /\ ~usdoPaused
        /\ usdoSupply' = usdoSupply + amount
BorrowCore(user, amount) ==
    LET owed == RebaseAddUp(totalBorrow, amount)
    IN  /\ owed.elastic <= MaxUint128 /\ owed.base <= MaxUint128
        /\ totalBorrowCap > 0 => owed.elastic <= totalBorrowCap
        /\ totalBorrow' = owed
        /\ userBorrowPart' =
              [userBorrowPart EXCEPT ![user] = @ + ToBaseUp(totalBorrow, amount)]
        /\ ~usdoPaused
        /\ usdoSupply' = usdoSupply + amount

Borrow(user, amount, rate) ==
    /\ Allowed(user, "Borrow")
    /\ exchangeRate' = rate
    /\ IF amount = 0 THEN UNCHANGED debtVars ELSE BorrowCore(user, amount)
    /\ UNCHANGED <<collateralVars, adminVars>>
    /\ SolventAfter(user)

(* _repay: the part is limited to what the user owes.                      *)
RequestedPart(user, requested) == requested \* mutant: it is not
RepaidPart(user, requested) == Least(requested, userBorrowPart[user])

RepayCore(user, requested) ==
    LET part == RepaidPart(user, requested)
        owed == RebaseSubUp(totalBorrow, part)
    IN  /\ part # 0
        /\ NonNegative(owed)
        /\ totalBorrow' = owed
        /\ userBorrowPart' = [userBorrowPart EXCEPT ![user] = @ - part]
        /\ ~usdoPaused
        /\ usdoSupply' = usdoSupply - ToElasticUp(totalBorrow, part)

(* repay, which fails unless the oracle answers.                           *)
Repay(user, part, rate) ==
    /\ Allowed(user, "Repay")
    /\ exchangeRate' = rate
    /\ RepayCore(user, part)
    /\ UNCHANGED <<collateralVars, adminVars>>

UpdateExchangeRate(rate) ==
    /\ exchangeRate' = rate
    /\ UNCHANGED <<debtVars, collateralVars, adminVars>>

-----------------------------------------------------------------------------
(* Owner and conservator; of USDO, its owner.                              *)
UpdateAllowedParticipants(user, val) ==
    /\ allowedParticipants' = IF val THEN allowedParticipants \cup {user}
                              ELSE allowedParticipants \ {user}
    /\ UNCHANGED <<exchangeRate, debtVars, collateralVars, pauseOptions, usdoPaused>>

UpdatePause(type, val) ==
    /\ val # (type \in pauseOptions)
    /\ pauseOptions' = IF val THEN pauseOptions \cup {type} ELSE pauseOptions \ {type}
    /\ UNCHANGED <<exchangeRate, debtVars, collateralVars, allowedParticipants, usdoPaused>>

UpdatePauseAll(val) ==
    /\ pauseOptions' = IF val THEN PauseType ELSE {}
    /\ UNCHANGED <<exchangeRate, debtVars, collateralVars, allowedParticipants, usdoPaused>>

UsdoSetPause(val) ==
    /\ val # usdoPaused
    /\ usdoPaused' = val
    /\ UNCHANGED <<exchangeRate, debtVars, collateralVars, allowedParticipants, pauseOptions>>

UserStep(u) ==
    \/ \E share \in Shares : AddCollateral(u, share)
    \/ \E share \in Shares, rate \in Rates : RemoveCollateral(u, share, rate)
    \/ \E amount \in Amounts, rate \in Rates : Borrow(u, amount, rate)
    \/ \E part \in Parts, rate \in Rates : Repay(u, part, rate)

AdminStep ==
    \/ \E u \in Users, val \in BOOLEAN : UpdateAllowedParticipants(u, val)
    \/ \E type \in Pausable, val \in BOOLEAN : UpdatePause(type, val)
    \/ \E val \in BOOLEAN : UpdatePauseAll(val)
    \/ \E val \in BOOLEAN : UsdoSetPause(val)

Next ==
    \/ \E u \in Users : UserStep(u)
    \/ \E rate \in Rates : UpdateExchangeRate(rate)
    \/ AdminStep

Spec == Init /\ [][Next]_vars

-----------------------------------------------------------------------------
(* Properties.                                                             *)

(* Whatever is borrowed and repaid, by however many, and however it is     *)
(* rounded: a part of the debt is one USDO, and the debt is the USDO the   *)
(* market minted (_borrow, _repay).                                        *)
DebtIsUsdo ==
    /\ totalBorrow.elastic = totalBorrow.base
    /\ totalBorrow.elastic = usdoSupply - ExternalUsdo

(* Without liquidations, only the oracle makes a position insolvent: at    *)
(* the rate a step leaves behind, no position that was solvent before it   *)
(* is insolvent after it, whoever's step it was.                           *)
SolventStaysSolvent ==
    [][\A u \in Users :
          Solvent(u, exchangeRate') => Solvent(u, exchangeRate)']_vars
=============================================================================
