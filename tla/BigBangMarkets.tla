--------------------------- MODULE BigBangMarkets ---------------------------
(***************************************************************************)
(* All the BigBang markets under one Penrose: whose debt is charged when,  *)
(* and at what rate.  The interest of every market but the main one        *)
(* depends on the debt of the ETH market, so that each market accrues the  *)
(* ETH market before itself (BBCommon._accrue) and the ETH market accrues  *)
(* the others before its debt changes (Penrose.reAccrueBigBangMarkets).    *)
(*                                                                         *)
(* A market is its debt; positions, collateral and the market's other      *)
(* pauses are BigBang's.  A market that was unregistered goes on working.  *)
(* PenroseRegistry shows that the markets Penrose walks through are those  *)
(* registered, once each: they are a set here.  They share one             *)
(* configuration.                                                          *)
(***************************************************************************)
EXTENDS DebtRate

LOCAL INSTANCE Functions

CONSTANTS
    Markets,                  \* the BigBang markets
    MainMarkets,              \* those whose collateral is Penrose's main asset
    NoMarket,                 \* address(0)
    YEAR,                     \* 31557600 seconds
    MaxUint128,
    ExternalUsdo,             \* USDO minted elsewhere: by Origins, on other chains
    MaxTime,                  \* bound of the clock
    EthDebtRates,             \* what the owner may set bigBangEthDebtRate to
    Amounts, Fees             \* loans and repayments, and opening fees

ASSUME MarketsAssumption ==
    /\ MainMarkets \subseteq Markets /\ NoMarket \notin Markets
    /\ minDebtRate \in Nat /\ maxDebtRate \in Nat /\ minDebtRate <= maxDebtRate
    /\ debtRateAgainstEthMarket \in Nat
    /\ DEBT_PRECISION \in Nat \ {0} /\ RATE_PRECISION \in Nat \ {0}
    /\ YEAR \in Nat \ {0}
    /\ MaxUint128 \in Nat /\ MaxTime \in Nat /\ ExternalUsdo \in Nat
    /\ EthDebtRates \subseteq Nat
    /\ Amounts \subseteq Nat \ {0} /\ Fees \subseteq Nat

VARIABLES
    now,                \* block.timestamp
    isMarketRegistered, \* the markets Penrose lists
    bigBangEthMarket, bigBangEthDebtRate,
    paused,             \* whether Penrose is paused
    accruePaused,       \* the markets with a collateral option paused
    totalDebt,          \* totalBorrow.elastic of each market
    lastAccrued,        \* accrueInfo.lastAccrued
    openInterestDebt,   \* interest charged and not yet minted
    issued              \* USDO minted, less burnt, on each market's account

penroseVars == <<isMarketRegistered, bigBangEthMarket, bigBangEthDebtRate, paused>>
marketVars  == <<totalDebt, lastAccrued, openInterestDebt>>
vars == <<now, penroseVars, accruePaused, marketVars, issued>>

TypeOK ==
    /\ now \in 0..MaxTime
    /\ isMarketRegistered \subseteq Markets
    /\ bigBangEthMarket \in Markets \cup {NoMarket}
    /\ bigBangEthDebtRate \in Nat
    /\ paused \in BOOLEAN
    /\ accruePaused \subseteq Markets
    /\ totalDebt \in [Markets -> 0..MaxUint128]
    /\ lastAccrued \in [Markets -> 0..now]
    /\ openInterestDebt \in [Markets -> Nat]
    /\ issued \in [Markets -> Int]

Init ==
    /\ now = 0
    /\ isMarketRegistered = {}
    /\ bigBangEthMarket = NoMarket /\ bigBangEthDebtRate = 0
    /\ paused = FALSE
    /\ accruePaused = {}
    /\ totalDebt = [m \in Markets |-> 0]
    /\ lastAccrued = [m \in Markets |-> 0]
    /\ openInterestDebt = [m \in Markets |-> 0]
    /\ issued = [m \in Markets |-> 0]

-----------------------------------------------------------------------------
(* The debt rate, getDebtRate: the main market's is set by the owner;      *)
(* another's is undefined when there is debt and no ETH market.            *)
GetDebtRate(m, ethDebt) ==
    IF m \in MainMarkets THEN bigBangEthDebtRate ELSE DebtRateOf(totalDebt[m], ethDebt)

DebtRateDefined(m) ==
    m \in MainMarkets \/ totalDebt[m] = 0 \/ bigBangEthMarket # NoMarket

(* What a market's debt would be, accrued now: the ETH market's rate, if   *)
(* it is not the main market, depends on its debt before the interest, and *)
(* the others' on its debt after it.                                       *)
InterestUncapped(m, ethDebt) == \* mutant: beyond what a uint128 holds
    (totalDebt[m] * (GetDebtRate(m, ethDebt) \div YEAR) * (now - lastAccrued[m]))
       \div RATE_PRECISION
Interest(m, ethDebt) ==
    Least((totalDebt[m] * (GetDebtRate(m, ethDebt) \div YEAR) * (now - lastAccrued[m]))
             \div RATE_PRECISION,
          MaxUint128 - totalDebt[m])

EthDebt ==
    IF bigBangEthMarket = NoMarket THEN 0
    ELSE totalDebt[bigBangEthMarket]
            + Interest(bigBangEthMarket, totalDebt[bigBangEthMarket])

AccruedDebt(m) ==
    IF m = bigBangEthMarket THEN EthDebt ELSE totalDebt[m] + Interest(m, EthDebt)

(* The markets that are charged when those of S accrue.                    *)
Charged(S) ==
    S \cup {m \in Markets : m = bigBangEthMarket /\ S # {}}

(* _accrue by each market of S, which calls the ETH market's accrue(), and *)
(* so reverts if that is paused.                                           *)
AccrueIgnoringEthPause(S) == \* mutant: the ETH market accrues unasked
    /\ \A m \in Charged(S) : lastAccrued[m] < now => DebtRateDefined(m)
    /\ lastAccrued' = [m \in Markets |-> IF m \in Charged(S) THEN now ELSE lastAccrued[m]]
    /\ openInterestDebt' =
          [m \in Markets |-> openInterestDebt[m]
             + (IF m \in Charged(S) THEN AccruedDebt(m) - totalDebt[m] ELSE 0)]
ChargeInterest(S) ==
    /\ S \subseteq {bigBangEthMarket} \/ bigBangEthMarket \notin accruePaused
    /\ \A m \in Charged(S) : lastAccrued[m] < now => DebtRateDefined(m)
    /\ lastAccrued' = [m \in Markets |-> IF m \in Charged(S) THEN now ELSE lastAccrued[m]]
    /\ openInterestDebt' =
          [m \in Markets |-> openInterestDebt[m]
             + (IF m \in Charged(S) THEN AccruedDebt(m) - totalDebt[m] ELSE 0)]

DebtAfter(S) ==
    [m \in Markets |-> IF m \in Charged(S) THEN AccruedDebt(m) ELSE totalDebt[m]]

(* accrue() from outside the market, for each market of S.                 *)
AccrueAll(S) ==
    /\ S \cap accruePaused = {}
    /\ ChargeInterest(S)
    /\ totalDebt' = DebtAfter(S)

(* reAccrueBigBangMarkets, called by m: for the ETH market, the others     *)
(* accrue.                                                                 *)
ReAccruedByNone(m) == {} \* mutant: no other market accrues
ReAccrued(m) == IF m = bigBangEthMarket THEN isMarketRegistered \ {m} ELSE {}

(* A handler of m that changes its debt by `change` after accruing.        *)
ChangeDebt(m, change) ==
    LET S == {m} \cup ReAccrued(m)
    IN  /\ ~paused
        /\ ReAccrued(m) \cap accruePaused = {}
        /\ ChargeInterest(S)
        /\ DebtAfter(S)[m] + change \in 0..MaxUint128
        /\ totalDebt' = [DebtAfter(S) EXCEPT ![m] = @ + change]

-----------------------------------------------------------------------------
(* The markets' operations.                                                *)

Accrue(m) ==
    /\ AccrueAll({m})
    /\ UNCHANGED <<now, penroseVars, accruePaused, issued>>

Borrow(m, amount, fee) ==
    /\ ChangeDebt(m, amount + fee)
    /\ issued' = [issued EXCEPT ![m] = @ + amount]
    /\ UNCHANGED <<now, penroseVars, accruePaused>>

(* Repayments, and liquidations, whose debt is repaid by the liquidator:   *)
(* either burns USDO, wherever it was minted.                              *)
Repay(m, amount) ==
    /\ ExternalUsdo + SumFunction(issued) >= amount
    /\ ChangeDebt(m, -amount)
    /\ issued' = [issued EXCEPT ![m] = @ - amount]
    /\ UNCHANGED <<now, penroseVars, accruePaused>>

(* The conservator pauses or unpauses the market's collateral operations.  *)
UpdateCollateralPause(m, val) ==
    /\ val # (m \in accruePaused)
    /\ accruePaused' = IF val THEN accruePaused \cup {m} ELSE accruePaused \ {m}
    /\ UNCHANGED <<now, penroseVars, marketVars, issued>>

-----------------------------------------------------------------------------
(* Penrose's operations.                                                   *)

(* registerBigBang and addBigBang.                                         *)
AddBigBang(m) ==
    /\ m \notin isMarketRegistered
    /\ isMarketRegistered' = isMarketRegistered \cup {m}
    /\ UNCHANGED <<now, bigBangEthMarket, bigBangEthDebtRate, paused, accruePaused,
                   marketVars, issued>>

UnregisterContract(m) ==
    /\ m \in isMarketRegistered
    /\ isMarketRegistered' = isMarketRegistered \ {m}
    /\ UNCHANGED <<now, bigBangEthMarket, bigBangEthDebtRate, paused, accruePaused,
                   marketVars, issued>>

SetBigBangEthMarketDebtRate(rate) ==
    /\ \/ bigBangEthMarket # NoMarket /\ AccrueAll({bigBangEthMarket})
       \/ bigBangEthMarket = NoMarket /\ UNCHANGED marketVars
    /\ bigBangEthDebtRate' = rate
    /\ UNCHANGED <<now, isMarketRegistered, bigBangEthMarket, paused, accruePaused, issued>>

SetBigBangEthMarket(m) ==
    /\ \/ bigBangEthMarket # NoMarket /\ AccrueAll(isMarketRegistered \ {bigBangEthMarket})
       \/ bigBangEthMarket = NoMarket /\ UNCHANGED marketVars
    /\ bigBangEthMarket' = m
    /\ UNCHANGED <<now, isMarketRegistered, bigBangEthDebtRate, paused, accruePaused, issued>>

(* The interest of every market listed is minted for twTap.                *)
MintWithoutReset == \* mutant: the interest is not consumed
    /\ issued' = [m \in Markets |->
          issued[m] + (IF m \in isMarketRegistered THEN openInterestDebt[m] ELSE 0)]
    /\ UNCHANGED <<now, penroseVars, accruePaused, marketVars>>
MintOpenInterestDebt ==
    /\ issued' = [m \in Markets |->
          issued[m] + (IF m \in isMarketRegistered THEN openInterestDebt[m] ELSE 0)]
    /\ openInterestDebt' = [m \in Markets |->
          IF m \in isMarketRegistered THEN 0 ELSE openInterestDebt[m]]
    /\ UNCHANGED <<now, penroseVars, accruePaused, totalDebt, lastAccrued>>

UpdatePause(val) ==
    /\ val # paused
    /\ paused' = val
    /\ UNCHANGED <<now, isMarketRegistered, bigBangEthMarket, bigBangEthDebtRate,
                   accruePaused, marketVars, issued>>

Tick ==
    /\ now < MaxTime
    /\ now' = now + 1
    /\ UNCHANGED <<penroseVars, accruePaused, marketVars, issued>>

-----------------------------------------------------------------------------
MarketStep(m) ==
    \/ Accrue(m)
    \/ \E amount \in Amounts, fee \in Fees : Borrow(m, amount, fee)
    \/ \E amount \in Amounts : Repay(m, amount)

OwnerStep(m) ==
    \/ AddBigBang(m)
    \/ UnregisterContract(m)
    \/ SetBigBangEthMarket(m)
    \/ \E val \in BOOLEAN : UpdateCollateralPause(m, val)

PenroseStep ==
    \/ \E rate \in EthDebtRates : SetBigBangEthMarketDebtRate(rate)
    \/ MintOpenInterestDebt
    \/ \E val \in BOOLEAN : UpdatePause(val)

Next == (\E m \in Markets : MarketStep(m) \/ OwnerStep(m)) \/ PenroseStep \/ Tick

Spec == Init /\ [][Next]_vars

-----------------------------------------------------------------------------
(* Properties.                                                             *)

(* No market puts more USDO into circulation, or holds more interest to be *)
(* minted, than it is owed, wherever it is registered (openInterestDebt).  *)
DebtCoversUsdo ==
    \A m \in Markets : issued[m] + openInterestDebt[m] <= totalDebt[m]

(* Every listed market has been charged for the time gone by before        *)
(* anything but interest changes the debt that its rate depends on: a loan *)
(* or a repayment in the ETH market, its rate, or the choice of that       *)
(* market (Penrose.reAccrueBigBangMarkets and the setters).                *)
ChargedBeforeEthDebtChanges ==
    [][bigBangEthMarket # NoMarket /\ now' = now /\ EthDebt' # EthDebt
         => \A m \in isMarketRegistered \ {bigBangEthMarket} : lastAccrued'[m] = now]_vars

(* Pausing the collateral operations of the ETH market stops every other   *)
(* market: its debt neither grows nor is repaid, as BBCommon._accrue       *)
(* reverts; and a paused Penrose lets debts change by interest only.       *)
PausesFreezeDebt ==
    [][/\ bigBangEthMarket \in accruePaused
             => \A m \in Markets \ {bigBangEthMarket} : totalDebt'[m] = totalDebt[m]
       /\ paused => \A m \in Markets : totalDebt'[m] \in {totalDebt[m], AccruedDebt(m)}]_vars
=============================================================================
