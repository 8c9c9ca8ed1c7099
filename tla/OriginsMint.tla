---------------------------- MODULE OriginsMint -----------------------------
(***************************************************************************)
(* deployPostLbp__task_2: the first USDO is minted on Origins, for two     *)
(* pools.  The task reads the cached exchange rate of Origins, computes    *)
(* from it what to borrow, and sends one multicall; whatever happens to    *)
(* the market until the multicall is executed happens with the amounts     *)
(* already fixed.  The task may be given up and run again meanwhile:       *)
(* transactions have one sender, and are executed in order.                *)
(*                                                                         *)
(* The multicall is the Owner of Origins.  Rates, amounts and percentages  *)
(* are scaled like those of the market (EXCHANGE_RATE_PRECISION is 1e18 in *)
(* the task and in buildOrigins).                                          *)
(***************************************************************************)
EXTENDS Origins, Sequences

CONSTANTS
    ETH_AMOUNT_FOR_USDC, ETH_AMOUNT_FOR_DAI, \* the collateral for each pool
    PERCENT,        \* 100 in the task
    Deltas,         \* percentages by which less is borrowed
    MaxMints        \* bound on the transactions of the task

ASSUME OriginsMintAssumption ==
    /\ ETH_AMOUNT_FOR_USDC \in Nat /\ ETH_AMOUNT_FOR_DAI \in Nat
    /\ PERCENT \in Nat \ {0} /\ Deltas \subseteq 0..PERCENT
    /\ MaxMints \in Nat

VARIABLES
    minter,     \* whether Origins may mint and burn USDO
    pending,    \* transactions sent and not yet executed
    sent        \* how many were sent

mintVars == <<minter, pending, sent>>

(* Mutant: the rate is multiplied by, not divided by.                      *)
borrowAmountAtRate(collateralAmount, rate, delta) ==
    LET amount == (collateralAmount * rate) \div EXCHANGE_RATE_PRECISION
    IN  amount - (amount * delta) \div PERCENT

(* What is borrowed for an amount of collateral, at the rate read.         *)
borrowAmount(collateralAmount, rate, delta) ==
    LET perUnit == (EXCHANGE_RATE_PRECISION * EXCHANGE_RATE_PRECISION) \div rate
        amount  == (perUnit * collateralAmount) \div EXCHANGE_RATE_PRECISION
    IN  amount - (amount * delta) \div PERCENT

-----------------------------------------------------------------------------
(* The Owner's position in Origins, and what a pool's calls make of it:    *)
(* the collateral is added and the amount borrowed.                        *)
OwnersPosition ==
    [debt |-> totalBorrow, part |-> userBorrowPart[Owner],
     share |-> userCollateralShare[Owner]]

mintOriginUSDO(position, collateralAmount, amount) ==
    [debt  |-> IF amount = 0 THEN position.debt ELSE RebaseAddUp(position.debt, amount),
     part  |-> position.part + (IF amount = 0 THEN 0 ELSE ToBaseUp(position.debt, amount)),
     share |-> position.share + ToShare(ShareRatio, collateralAmount)]

ForUSDC(tx) == mintOriginUSDO(OwnersPosition, ETH_AMOUNT_FOR_USDC, tx.forUSDC)
ForDAI(tx) == mintOriginUSDO(ForUSDC(tx), ETH_AMOUNT_FOR_DAI, tx.forDAI)

Sustains(position, rate) ==
    IsSolvent(collateralizationRate, position.share, position.part, position.debt, rate)
WithinLimits(position) ==
    /\ position.debt.elastic <= MaxUint128 /\ position.debt.base <= MaxUint128
    /\ totalBorrowCap > 0 => position.debt.elastic <= totalBorrowCap

(* What the two loans need but solvency; USDO's send() calls itself, so    *)
(* that a multicall that also transfers never succeeds.                    *)
Admitted(tx) ==
    /\ ~tx.transfer
    /\ Allowed(Owner, "AddCollateral") /\ Allowed(Owner, "Borrow")
    /\ ~usdoPaused
    /\ WithinLimits(ForUSDC(tx)) /\ WithinLimits(ForDAI(tx))
Succeeds(tx, rate) ==
    /\ Admitted(tx)
    /\ Sustains(ForUSDC(tx), rate) /\ Sustains(ForDAI(tx), rate)

-----------------------------------------------------------------------------
MintInit == Init /\ minter = FALSE /\ pending = <<>> /\ sent = 0

(* Without a collateral for each pool the task throws.                     *)
SendMint(delta, noTransfer) ==
    /\ sent < MaxMints
    /\ ETH_AMOUNT_FOR_USDC # 0 /\ ETH_AMOUNT_FOR_DAI # 0
    /\ pending' = Append(pending,
          [rate     |-> exchangeRate,
           forUSDC  |-> borrowAmount(ETH_AMOUNT_FOR_USDC, exchangeRate, delta),
           forDAI   |-> borrowAmount(ETH_AMOUNT_FOR_DAI, exchangeRate, delta),
           transfer |-> ~noTransfer])
    /\ sent' = sent + 1
    /\ UNCHANGED <<vars, minter>>

(* The multicall makes Origins a minter and burner of USDO and mints for   *)
(* both pools, at the oracle's rate, or it changes nothing.                *)
ExecuteMint(rate) ==
    /\ pending # <<>>
    /\ LET tx == Head(pending) IN
       /\ Succeeds(tx, rate)
       /\ ybCollateral + ForDAI(tx).share - userCollateralShare[Owner] <= MaxCollateral
       /\ totalBorrow' = ForDAI(tx).debt
       /\ userBorrowPart' = [userBorrowPart EXCEPT ![Owner] = ForDAI(tx).part]
       /\ userCollateralShare' = [userCollateralShare EXCEPT ![Owner] = ForDAI(tx).share]
       /\ totalCollateralShare' =
             totalCollateralShare + ForDAI(tx).share - userCollateralShare[Owner]
       /\ ybCollateral' = ybCollateral + ForDAI(tx).share - userCollateralShare[Owner]
       /\ usdoSupply' = usdoSupply + tx.forUSDC + tx.forDAI
    /\ exchangeRate' = rate
    /\ minter' = TRUE
    /\ pending' = Tail(pending)
    /\ UNCHANGED <<adminVars, sent>>

RevertMint(rate) ==
    /\ pending # <<>>
    /\ ~Succeeds(Head(pending), rate)
    /\ pending' = Tail(pending)
    /\ UNCHANGED <<vars, minter, sent>>

(* The operations of Origins, which mint and burn only as a minter.        *)
OriginsStep ==
    /\ Next
    /\ minter \/ usdoSupply' = usdoSupply
    /\ UNCHANGED mintVars

MintNext ==
    \/ OriginsStep
    \/ \E delta \in Deltas, noTransfer \in BOOLEAN : SendMint(delta, noTransfer)
    \/ \E rate \in Rates : ExecuteMint(rate) \/ RevertMint(rate)

MintSpec == MintInit /\ [][MintNext]_<<vars, mintVars>>

-----------------------------------------------------------------------------
(* The amounts are fixed when the rate is read; as long as the oracle has  *)
(* USDO buy no more collateral than it did then, neither rounding, nor     *)
(* loans of others, nor a run that already minted make the multicall       *)
(* revert for want of collateral, if the Owner was solvent                 *)
(* (tapiocaPostDeployTask, mintOriginUSDO__deployPostLbp_2).               *)
UnmovedRateSuffices ==
    pending # <<>> =>
        \A rate \in Rates :
            /\ Head(pending).rate >= rate
            /\ Solvent(Owner, rate)
            /\ Admitted(Head(pending))
            => Succeeds(Head(pending), rate)
=============================================================================
