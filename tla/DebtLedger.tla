----------------------------- MODULE DebtLedger -----------------------------
(***************************************************************************)
(* What a market promises about the USDO it issues, without positions,     *)
(* collateral, rounding or time: a ledger of the debt owed to it, of the   *)
(* USDO it has put into circulation on balance, and of the interest it has *)
(* charged and not yet minted.  Loans and interest create the debt before  *)
(* the USDO that pays it back exists, and every repayment retires as much  *)
(* of the one as of the other, so the debt always covers the issue.        *)
(***************************************************************************)
EXTENDS Integers

VARIABLES
    debt,      \* owed by all borrowers
    issued,    \* minted minus burnt
    mintable   \* interest charged and not yet minted

Init == debt = 0 /\ issued = 0 /\ mintable = 0

(* Interest charged in a step, to be minted later.                         *)
Charged == mintable' - mintable

(* A loan: at least as much debt as USDO; the rest is the opening fee.     *)
Lend ==
    /\ Charged >= 0
    /\ issued' >= issued
    /\ debt' - debt >= (issued' - issued) + Charged

(* A repayment or a liquidation burns exactly what it takes off the debt.  *)
Settle ==
    /\ Charged >= 0
    /\ issued' <= issued
    /\ debt' >= 0
    /\ debt' - debt = (issued' - issued) + Charged

MintInterest ==
    /\ issued' = issued + mintable
    /\ mintable' = 0
    /\ UNCHANGED debt

Next == Lend \/ Settle \/ MintInterest

Spec == Init /\ [][Next]_<<debt, issued, mintable>>

(* Every USDO issued, and every USDO that may be minted without a further  *)
(* loan, is owed by a borrower.                                            *)
Covered == issued + mintable <= debt
=============================================================================
