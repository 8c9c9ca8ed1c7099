-------------------------------- MODULE Usdo --------------------------------
(***************************************************************************)
(* USDO on one chain (src/contracts/usdo/Usdo.sol): issuers that are       *)
(* allowed to mint and burn it do, and anyone may borrow it for the length *)
(* of one transaction, for a fee (USDOFlashloanHelper.sol).                *)
(*                                                                         *)
(* One transaction is one action, except that of a flash loan: between its *)
(* two halves the receiver's callback may make any call, FlashLoan and     *)
(* RepayFlashLoan are its halves, and RevertFlashLoan undoes it and all    *)
(* that the callback did.  Loans are taken by their receivers; those who   *)
(* send USDO approve it.                                                   *)
(***************************************************************************)
EXTENDS Integers

LOCAL INSTANCE Functions

CONSTANTS
    Accounts,      \* holders of USDO
    Issuers,       \* those that may be allowed to mint and burn: the markets, and
    Delegate,      \* the one that deploys USDO and is from the start
    This, Helper,  \* the addresses of USDO and of the flash loan helper
    NoLoan,
    FLASH_MINT_FEE_PRECISION, \* 1e5
    Amounts, FlashFees, MaxFlashMints, \* inputs: amounts, fees, limits of loans
    MaxSupply      \* bound on what is minted

Wallets == Accounts \cup Issuers
Holders == Wallets \cup {This, Helper}

(* What the state of the two contracts is between transactions, and a loan *)
(* with the state before it.                                               *)
States == [balanceOf : [Holders -> Nat], totalSupply : Int, fees : Nat,
           outstanding : Int, paused : BOOLEAN,
           allowedMinter : SUBSET (Issuers \cup {Helper}),
           allowedBurner : SUBSET (Issuers \cup {Helper}),
           flashLoanHelper : BOOLEAN, flashMintFee : FlashFees, maxFlashMint : Nat]
Loans == [receiver : Accounts, amount : Amounts, fee : Nat, before : States]

ASSUME UsdoAssumption ==
    /\ This # Helper
    /\ Delegate \in Issuers
    /\ {This, Helper} \cap Wallets = {}
    /\ NoLoan \notin Loans
    /\ FLASH_MINT_FEE_PRECISION \in Nat \ {0}
    /\ Amounts \subseteq Nat /\ MaxFlashMints \subseteq Nat /\ MaxSupply \in Nat
    /\ FlashFees \subseteq 0..(FLASH_MINT_FEE_PRECISION - 1)

VARIABLES
    balanceOf, totalSupply,
    fees,           \* _fees, what extractFees may take
    paused,
    allowedMinter, allowedBurner, \* the addresses that are, on this chain
    flashLoanHelper,\* whether USDO knows the helper
    flashMintFee, maxFlashMint,
    loan,           \* the flash loan that is under way, or NoLoan
    outstanding     \* what the issuers have minted and not burnt (history)

tokenVars  == <<balanceOf, totalSupply, fees, outstanding>>
roleVars   == <<paused, allowedMinter, allowedBurner, flashLoanHelper>>
helperVars == <<flashMintFee, maxFlashMint>>
vars == <<tokenVars, roleVars, helperVars, loan>>

(* All that a transaction that reverts restores.                           *)
State == [balanceOf |-> balanceOf, totalSupply |-> totalSupply, fees |-> fees,
          outstanding |-> outstanding, paused |-> paused,
          allowedMinter |-> allowedMinter, allowedBurner |-> allowedBurner,
          flashLoanHelper |-> flashLoanHelper, flashMintFee |-> flashMintFee,
          maxFlashMint |-> maxFlashMint]

(* The constructors: no market is a minter yet, nor is the helper.         *)
Init ==
    /\ balanceOf = [h \in Holders |-> 0]
    /\ totalSupply = 0 /\ fees = 0 /\ outstanding = 0
    /\ paused = FALSE
    /\ allowedMinter = {Delegate} /\ allowedBurner = {Delegate}
    /\ flashLoanHelper = FALSE
    /\ flashMintFee \in FlashFees /\ maxFlashMint \in MaxFlashMints
    /\ loan = NoLoan

-----------------------------------------------------------------------------
Move(from, to, amount) ==
    [balanceOf EXCEPT ![from] = @ - amount, ![to] = @ + amount]

Transfer(from, to, amount) ==
    /\ from # to
    /\ amount <= balanceOf[from]
    /\ balanceOf' = Move(from, to, amount)
    /\ UNCHANGED <<totalSupply, fees, outstanding, roleVars, helperVars, loan>>

(* An issuer mints to whom it likes, and burns what it or another holds,   *)
(* but never what the two contracts hold.                                  *)
Mint(issuer, to, amount) ==
    /\ ~paused
    /\ issuer \in allowedMinter
    /\ totalSupply + amount <= MaxSupply
    /\ balanceOf' = [balanceOf EXCEPT ![to] = @ + amount]
    /\ totalSupply' = totalSupply + amount
    /\ outstanding' = outstanding + amount
    /\ UNCHANGED <<fees, roleVars, helperVars, loan>>

Burn(issuer, from, amount) ==
    /\ ~paused
    /\ issuer \in allowedBurner
    /\ amount <= balanceOf[from]
    /\ balanceOf' = [balanceOf EXCEPT ![from] = @ - amount]
    /\ totalSupply' = totalSupply - amount
    /\ outstanding' = outstanding - amount
    /\ UNCHANGED <<fees, roleVars, helperVars, loan>>

(* flashLoan up to the callback: the amount is minted, and the fee is      *)
(* registered before it is paid.                                           *)
MaxFlashLoan == IF totalSupply > maxFlashMint THEN maxFlashMint ELSE totalSupply
FlashFee(amount) == (amount * flashMintFee) \div FLASH_MINT_FEE_PRECISION

FlashLoanReentered(receiver, amount) == \* mutant: _flashloanEntered is not checked
    /\ amount <= MaxFlashLoan
    /\ ~paused /\ Helper \in allowedMinter /\ flashLoanHelper
    /\ loan' = [receiver |-> receiver, amount |-> amount, fee |-> FlashFee(amount),
                before |-> State]
    /\ totalSupply + amount <= 2 * MaxSupply
    /\ balanceOf' = [balanceOf EXCEPT ![receiver] = @ + amount]
    /\ totalSupply' = totalSupply + amount
    /\ fees' = fees + FlashFee(amount)
    /\ UNCHANGED <<outstanding, roleVars, helperVars>>
FlashLoan(receiver, amount) ==
    /\ loan = NoLoan
    /\ amount <= MaxFlashLoan
    /\ ~paused /\ Helper \in allowedMinter /\ flashLoanHelper
    /\ loan' = [receiver |-> receiver, amount |-> amount, fee |-> FlashFee(amount),
                before |-> State]
    /\ balanceOf' = [balanceOf EXCEPT ![receiver] = @ + amount]
    /\ totalSupply' = totalSupply + amount
    /\ fees' = fees + FlashFee(amount)
    /\ UNCHANGED <<outstanding, roleVars, helperVars>>

(* flashLoan from the callback on: the amount is taken back and burnt, and *)
(* the fee is moved to USDO.                                               *)
RepayFlashLoanAtCurrentFee == \* mutant: the fee is computed a second time
    /\ loan # NoLoan
    /\ ~paused /\ Helper \in allowedBurner
    /\ loan.amount + FlashFee(loan.amount) <= balanceOf[loan.receiver]
    /\ balanceOf' =
          [balanceOf EXCEPT ![loan.receiver] = @ - (loan.amount + FlashFee(loan.amount)),
                            ![This] = @ + FlashFee(loan.amount)]
    /\ totalSupply' = totalSupply - loan.amount
    /\ loan' = NoLoan
    /\ UNCHANGED <<fees, outstanding, roleVars, helperVars>>
RepayFlashLoanWhilePaused == \* mutant: the failure of burn is not noticed
    /\ loan # NoLoan
    /\ loan.amount + loan.fee <= balanceOf[loan.receiver]
    /\ balanceOf' = [balanceOf EXCEPT ![loan.receiver] = @ - (loan.amount + loan.fee),
                                      ![This] = @ + loan.fee]
    /\ totalSupply' = totalSupply - loan.amount
    /\ loan' = NoLoan
    /\ UNCHANGED <<fees, outstanding, roleVars, helperVars>>
RepayFlashLoan ==
    /\ loan # NoLoan
    /\ ~paused /\ Helper \in allowedBurner
    /\ loan.amount + loan.fee <= balanceOf[loan.receiver]
    /\ balanceOf' = [balanceOf EXCEPT ![loan.receiver] = @ - (loan.amount + loan.fee),
                                      ![This] = @ + loan.fee]
    /\ totalSupply' = totalSupply - loan.amount
    /\ loan' = NoLoan
    /\ UNCHANGED <<fees, outstanding, roleVars, helperVars>>

RevertFlashLoan ==
    /\ loan # NoLoan
    /\ balanceOf' = loan.before.balanceOf
    /\ totalSupply' = loan.before.totalSupply
    /\ fees' = loan.before.fees
    /\ outstanding' = loan.before.outstanding
    /\ paused' = loan.before.paused
    /\ allowedMinter' = loan.before.allowedMinter
    /\ allowedBurner' = loan.before.allowedBurner
    /\ flashLoanHelper' = loan.before.flashLoanHelper
    /\ flashMintFee' = loan.before.flashMintFee
    /\ maxFlashMint' = loan.before.maxFlashMint
    /\ loan' = NoLoan

-----------------------------------------------------------------------------
(* The owner of USDO and of the helper.                                    *)
SetPause(val) ==
    /\ paused # val
    /\ paused' = val
    /\ UNCHANGED <<tokenVars, allowedMinter, allowedBurner, flashLoanHelper, helperVars, loan>>

SetFlashloanHelper(val) ==
    /\ flashLoanHelper' = val
    /\ UNCHANGED <<tokenVars, paused, allowedMinter, allowedBurner, helperVars, loan>>

(* extractFees, by an owner `to`: no more than what USDO holds, which may  *)
(* be less than the fees while a loan is under way.                        *)
ExtractAllFees(to) == \* mutant: those that are not paid yet too
    /\ fees > 0
    /\ fees' = 0
    /\ balanceOf' = Move(This, to, fees)
    /\ UNCHANGED <<totalSupply, outstanding, roleVars, helperVars, loan>>
ExtractFees(to) ==
    LET toExtract == IF balanceOf[This] >= fees THEN fees ELSE balanceOf[This]
    IN  /\ fees > 0
        /\ fees' = fees - toExtract
        /\ balanceOf' = Move(This, to, toExtract)
        /\ UNCHANGED <<totalSupply, outstanding, roleVars, helperVars, loan>>

SetMinterStatus(for, status) ==
    /\ allowedMinter' = IF status THEN allowedMinter \cup {for} ELSE allowedMinter \ {for}
    /\ UNCHANGED <<tokenVars, paused, allowedBurner, flashLoanHelper, helperVars, loan>>

SetBurnerStatus(for, status) ==
    /\ allowedBurner' = IF status THEN allowedBurner \cup {for} ELSE allowedBurner \ {for}
    /\ UNCHANGED <<tokenVars, paused, allowedMinter, flashLoanHelper, helperVars, loan>>

SetMaxFlashMintable(val) ==
    /\ maxFlashMint' = val
    /\ UNCHANGED <<tokenVars, roleVars, flashMintFee, loan>>

SetFlashMintFee(val) ==
    /\ flashMintFee' = val
    /\ UNCHANGED <<tokenVars, roleVars, maxFlashMint, loan>>

TokenStep ==
    \E amount \in Amounts :
        \/ \E from \in Wallets, to \in Wallets \cup {This} : Transfer(from, to, amount)
        \/ \E issuer \in Issuers, to \in Wallets \cup {This} : Mint(issuer, to, amount)
        \/ \E issuer \in Issuers, from \in Wallets : Burn(issuer, from, amount)
        \/ \E receiver \in Accounts : FlashLoan(receiver, amount)

OwnerStep ==
    \/ \E val \in BOOLEAN : SetPause(val)
    \/ \E val \in BOOLEAN : SetFlashloanHelper(val)
    \/ \E to \in Accounts : ExtractFees(to)
    \/ \E for \in Issuers \cup {Helper}, status \in BOOLEAN : SetMinterStatus(for, status)
    \/ \E for \in Issuers \cup {Helper}, status \in BOOLEAN : SetBurnerStatus(for, status)
    \/ \E val \in MaxFlashMints : SetMaxFlashMintable(val)
    \/ \E val \in FlashFees : SetFlashMintFee(val)

Next ==
    \/ TokenStep
    \/ RepayFlashLoan
    \/ RevertFlashLoan
    \/ OwnerStep

Spec == Init /\ [][Next]_vars

-----------------------------------------------------------------------------
(* Properties.                                                             *)

TypeOK ==
    /\ State \in States
    /\ loan \in Loans \cup {NoLoan}

Lent == IF loan = NoLoan THEN 0 ELSE loan.amount
FeeDue == IF loan = NoLoan THEN 0 ELSE loan.fee

(* Whatever a flash loan's receiver does in its callback, and however the  *)
(* loan ends: the USDO that exists is what the issuers have minted and not *)
(* burnt, and the one loan that is under way.                              *)
SupplyIsOutstanding == totalSupply = outstanding + Lent

(* Whatever the owner does to fees and limits, and whenever it takes the   *)
(* fees: USDO holds the fees that are registered, but for that of the loan *)
(* under way (extractFees, addFlashloanFee).                               *)
FeesAreHeld == fees <= balanceOf[This] + FeeDue

(* While USDO is paused none of it is created or destroyed, not even by a  *)
(* loan that was made before; and a loan then cannot end but by reverting. *)
PausedSupplyIsFixed ==
    [][paused /\ paused' => UNCHANGED <<totalSupply, loan>>]_vars
=============================================================================
