----------------------------- MODULE UsdoProofs -----------------------------
(***************************************************************************)
(* Theorems about USDO, for any holders, issuers, fees and limits.         *)
(*                                                                         *)
(* A flash loan may revert, and then the state is what it was before the   *)
(* loan: the inductive invariant says of that state too that it satisfies  *)
(* the invariants, and that USDO was not paused in it.                     *)
(***************************************************************************)
EXTENDS Usdo, TLAPS

RestoredIsSound ==
    loan # NoLoan =>
        /\ loan.before.totalSupply = loan.before.outstanding
        /\ loan.before.fees <= loan.before.balanceOf[This]
        /\ ~loan.before.paused

IInv == TypeOK /\ SupplyIsOutstanding /\ FeesAreHeld /\ RestoredIsSound

-----------------------------------------------------------------------------
(* The type, variable by variable.                                         *)
VarsOK ==
    /\ balanceOf \in [Holders -> Nat]
    /\ totalSupply \in Int /\ fees \in Nat /\ outstanding \in Int
    /\ paused \in BOOLEAN
    /\ allowedMinter \in SUBSET (Issuers \cup {Helper})
    /\ allowedBurner \in SUBSET (Issuers \cup {Helper})
    /\ flashLoanHelper \in BOOLEAN
    /\ flashMintFee \in FlashFees /\ maxFlashMint \in Nat
    /\ loan \in Loans \cup {NoLoan}

LEMMA TypeOfVars == TypeOK <=> VarsOK
<1>1. State \in States <=>
         /\ balanceOf \in [Holders -> Nat]
         /\ totalSupply \in Int /\ fees \in Nat /\ outstanding \in Int
         /\ paused \in BOOLEAN
         /\ allowedMinter \in SUBSET (Issuers \cup {Helper})
         /\ allowedBurner \in SUBSET (Issuers \cup {Helper})
         /\ flashLoanHelper \in BOOLEAN
         /\ flashMintFee \in FlashFees /\ maxFlashMint \in Nat
  BY DEF State, States
<1> QED
  BY <1>1 DEF TypeOK, VarsOK

LEMMA TypeOfVarsNext == TypeOK' <=> VarsOK'
  BY TypeOfVars, PTL

LEMMA LoanType ==
    ASSUME VarsOK, loan # NoLoan
    PROVE  /\ loan.receiver \in Accounts /\ loan.amount \in Nat /\ loan.fee \in Nat
           /\ loan.before \in States
  BY UsdoAssumption DEF VarsOK, Loans

(* Division rounded down.                                                  *)
LEMMA DivFacts ==
    ASSUME NEW a \in Nat, NEW b \in Nat \ {0}
    PROVE  /\ a \div b \in Nat
           /\ b * (a \div b) <= a
           /\ a < b * (a \div b) + b
  BY SMT

LEMMA FlashFeeType ==
    ASSUME VarsOK, NEW amount \in Amounts
    PROVE  FlashFee(amount) \in Nat
<1>1. amount \in Nat /\ flashMintFee \in Nat /\ FLASH_MINT_FEE_PRECISION \in Nat \ {0}
  BY UsdoAssumption DEF VarsOK
<1>2. amount * flashMintFee \in Nat
  BY <1>1, SMT
<1> QED
  BY <1>1, <1>2, DivFacts DEF FlashFee

(* Only the ends of a loan, and who pays fees, touch what USDO holds.      *)
LEMMA HolderFacts ==
    /\ This \in Holders
    /\ \A h \in Wallets : h \in Holders /\ h # This
    /\ \A h \in Accounts : h \in Holders /\ h # This
  BY UsdoAssumption DEF Wallets, Holders

LEMMA LentType ==
    ASSUME VarsOK
    PROVE  Lent \in Nat
  BY LoanType DEF Lent

LEMMA FeeDueType ==
    ASSUME VarsOK
    PROVE  FeeDue \in Nat
  BY LoanType DEF FeeDue

(* What a step does to the invariant.                                      *)
StepEffect == VarsOK' /\ SupplyIsOutstanding' /\ FeesAreHeld' /\ RestoredIsSound'

-----------------------------------------------------------------------------
LEMMA TransferKeeps ==
    ASSUME IInv, VarsOK, NEW amount \in Amounts,
           NEW from \in Wallets, NEW to \in Wallets \cup {This},
           Transfer(from, to, amount)
    PROVE  StepEffect
<1>1. amount \in Nat /\ from \in Holders /\ from # This /\ to \in Holders /\ from # to
  BY UsdoAssumption, HolderFacts DEF Transfer
<1>2. /\ balanceOf[from] - amount \in Nat /\ balanceOf[to] + amount \in Nat
      /\ balanceOf[This] \in Nat
  BY <1>1, HolderFacts DEF VarsOK, Transfer
<1>3. balanceOf' = [balanceOf EXCEPT ![from] = @ - amount, ![to] = @ + amount]
  BY DEF Transfer, Move
<1>4. balanceOf' \in [Holders -> Nat]
  BY <1>1, <1>2, <1>3 DEF VarsOK
<1>5. balanceOf'[This] >= balanceOf[This]
  BY <1>1, <1>2, <1>3, HolderFacts DEF VarsOK
<1>6. /\ UNCHANGED <<totalSupply, fees, outstanding, paused, loan>>
      /\ Lent' = Lent /\ FeeDue' = FeeDue
  BY DEF Transfer, roleVars, Lent, FeeDue
<1>7. VarsOK'
  BY <1>4 DEF VarsOK, Transfer, roleVars, helperVars
<1>8. FeesAreHeld'
  BY <1>2, <1>4, <1>5, <1>6, HolderFacts, FeeDueType DEF IInv, VarsOK, FeesAreHeld
<1> QED
  BY <1>6, <1>7, <1>8 DEF IInv, StepEffect, SupplyIsOutstanding, RestoredIsSound

LEMMA MintKeeps ==
    ASSUME IInv, VarsOK, NEW amount \in Amounts, NEW issuer \in Issuers,
           NEW to \in Wallets \cup {This}, Mint(issuer, to, amount)
    PROVE  StepEffect
<1>1. amount \in Nat /\ to \in Holders
  BY UsdoAssumption, HolderFacts
<1>2. balanceOf[to] + amount \in Nat /\ balanceOf[This] \in Nat
  BY <1>1, HolderFacts DEF VarsOK
<1>3. balanceOf' \in [Holders -> Nat]
  BY <1>1, <1>2 DEF VarsOK, Mint
<1>4. balanceOf'[This] >= balanceOf[This]
  BY <1>1, <1>2, HolderFacts DEF VarsOK, Mint
<1>5. /\ UNCHANGED <<fees, paused, loan>>
      /\ Lent' = Lent /\ FeeDue' = FeeDue
  BY DEF Mint, roleVars, Lent, FeeDue
<1>6. VarsOK'
  BY <1>1, <1>3 DEF VarsOK, Mint, roleVars, helperVars
<1>7. SupplyIsOutstanding'
  BY <1>1, <1>5, LentType DEF IInv, VarsOK, Mint, SupplyIsOutstanding
<1>8. FeesAreHeld'
  BY <1>2, <1>3, <1>4, <1>5, HolderFacts, FeeDueType DEF IInv, VarsOK, FeesAreHeld
<1> QED
  BY <1>5, <1>6, <1>7, <1>8 DEF IInv, StepEffect, RestoredIsSound

LEMMA BurnKeeps ==
    ASSUME IInv, VarsOK, NEW amount \in Amounts, NEW issuer \in Issuers,
           NEW from \in Wallets, Burn(issuer, from, amount)
    PROVE  StepEffect
<1>1. amount \in Nat /\ from \in Holders /\ from # This /\ amount <= balanceOf[from]
  BY UsdoAssumption, HolderFacts DEF Burn
<1>2. balanceOf' \in [Holders -> Nat] /\ balanceOf'[This] = balanceOf[This]
  BY <1>1, HolderFacts DEF VarsOK, Burn
<1>3. Lent' = Lent /\ FeeDue' = FeeDue
  BY DEF Burn, Lent, FeeDue
<1>4. Lent \in Nat
  BY LoanType DEF Lent
<1>5. VarsOK'
  BY <1>1, <1>2 DEF VarsOK, Burn, roleVars, helperVars
<1>6. SupplyIsOutstanding'
  BY <1>1, <1>3, <1>4 DEF IInv, VarsOK, Burn, SupplyIsOutstanding
<1> QED
  BY <1>2, <1>3, <1>5, <1>6
  DEF IInv, StepEffect, Burn, FeesAreHeld, RestoredIsSound

LEMMA FlashLoanKeeps ==
    ASSUME IInv, VarsOK, NEW amount \in Amounts, NEW receiver \in Accounts,
           FlashLoan(receiver, amount)
    PROVE  StepEffect
<1>1. amount \in Nat /\ FlashFee(amount) \in Nat
  BY UsdoAssumption, FlashFeeType
<1>2. balanceOf' \in [Holders -> Nat] /\ balanceOf'[This] = balanceOf[This]
  BY <1>1, HolderFacts DEF VarsOK, FlashLoan
<1>3. State \in States
  BY DEF IInv, TypeOK
<1>4. loan' = [receiver |-> receiver, amount |-> amount, fee |-> FlashFee(amount),
               before |-> State]
  BY DEF FlashLoan
<1>5. loan' \in Loans /\ loan' # NoLoan
  BY <1>1, <1>3, <1>4, UsdoAssumption DEF Loans
<1>6. Lent = 0 /\ FeeDue = 0 /\ Lent' = amount /\ FeeDue' = FlashFee(amount)
  BY <1>4, <1>5 DEF FlashLoan, Lent, FeeDue
<1>7. VarsOK'
  BY <1>1, <1>2, <1>5 DEF VarsOK, FlashLoan, roleVars, helperVars
<1>8. SupplyIsOutstanding'
  BY <1>1, <1>6 DEF IInv, VarsOK, FlashLoan, SupplyIsOutstanding
<1>9. FeesAreHeld'
  BY <1>1, <1>2, <1>6, HolderFacts DEF IInv, VarsOK, FlashLoan, FeesAreHeld
<1>10. RestoredIsSound'
  <2>1. totalSupply = outstanding /\ fees <= balanceOf[This] /\ ~paused
    BY <1>6, HolderFacts DEF IInv, VarsOK, SupplyIsOutstanding, FeesAreHeld, FlashLoan
  <2>2. loan'.before = State
    BY <1>4
  <2> QED
    BY <2>1, <2>2 DEF RestoredIsSound, State
<1> QED
  BY <1>7, <1>8, <1>9, <1>10 DEF StepEffect

LEMMA RepayFlashLoanKeeps ==
    ASSUME IInv, VarsOK, RepayFlashLoan
    PROVE  StepEffect
<1> DEFINE r == loan.receiver
           d == loan.amount + loan.fee
<1>1. loan # NoLoan /\ r \in Holders /\ r # This /\ This \in Holders
      /\ loan.amount \in Nat /\ loan.fee \in Nat
  BY LoanType, HolderFacts DEF RepayFlashLoan
<1>2. d \in Nat /\ d <= balanceOf[r]
  BY <1>1 DEF RepayFlashLoan
<1>3. balanceOf' = [balanceOf EXCEPT ![r] = @ - d, ![This] = @ + loan.fee]
  BY DEF RepayFlashLoan
<1>4. balanceOf'[This] = balanceOf[This] + loan.fee
  BY <1>1, <1>3 DEF VarsOK
<1>5. balanceOf' \in [Holders -> Nat]
  <2>1. balanceOf[r] - d \in Nat /\ balanceOf[This] + loan.fee \in Nat
    BY <1>1, <1>2 DEF VarsOK
  <2> HIDE DEF r, d
  <2> QED
    BY <1>1, <1>3, <2>1 DEF VarsOK
<1>6. Lent = loan.amount /\ FeeDue = loan.fee /\ Lent' = 0 /\ FeeDue' = 0 /\ loan' = NoLoan
  BY <1>1 DEF RepayFlashLoan, Lent, FeeDue
<1>7. VarsOK'
  BY <1>1, <1>5, <1>6 DEF VarsOK, RepayFlashLoan, roleVars, helperVars
<1>8. SupplyIsOutstanding'
  BY <1>1, <1>6 DEF IInv, VarsOK, RepayFlashLoan, SupplyIsOutstanding
<1>9. FeesAreHeld'
  BY <1>1, <1>4, <1>6 DEF IInv, VarsOK, RepayFlashLoan, FeesAreHeld
<1> QED
  BY <1>6, <1>7, <1>8, <1>9 DEF StepEffect, RestoredIsSound

LEMMA RevertFlashLoanKeeps ==
    ASSUME IInv, VarsOK, RevertFlashLoan
    PROVE  StepEffect
<1>1. loan # NoLoan /\ loan' = NoLoan /\ loan.before \in States
  BY LoanType DEF RevertFlashLoan
<1>2. VarsOK'
  BY <1>1 DEF VarsOK, RevertFlashLoan, States
<1>3. Lent' = 0 /\ FeeDue' = 0
  BY <1>1 DEF Lent, FeeDue
<1>4. /\ loan.before.totalSupply = loan.before.outstanding
      /\ loan.before.fees <= loan.before.balanceOf[This]
      /\ loan.before.outstanding \in Int /\ loan.before.balanceOf[This] \in Nat
  BY <1>1, HolderFacts DEF IInv, RestoredIsSound, States
<1>5. SupplyIsOutstanding' /\ FeesAreHeld'
  BY <1>3, <1>4 DEF RevertFlashLoan, SupplyIsOutstanding, FeesAreHeld
<1> QED
  BY <1>1, <1>2, <1>5 DEF StepEffect, RestoredIsSound

LEMMA ExtractFeesKeeps ==
    ASSUME IInv, VarsOK, NEW to \in Accounts, ExtractFees(to)
    PROVE  StepEffect
<1> DEFINE b == balanceOf[This]
           x == IF b >= fees THEN fees ELSE b
<1>1. b \in Nat /\ fees \in Nat /\ x \in Nat /\ x <= b /\ x <= fees
  BY HolderFacts DEF VarsOK
<1>2. to \in Holders /\ to # This /\ This \in Holders
  BY HolderFacts
<1>3. balanceOf' = [balanceOf EXCEPT ![This] = @ - x, ![to] = @ + x] /\ fees' = fees - x
  BY DEF ExtractFees, Move
<1>4. balanceOf' \in [Holders -> Nat] /\ balanceOf'[This] = b - x
  <2>1. b - x \in Nat /\ balanceOf[to] + x \in Nat
    BY <1>1, <1>2 DEF VarsOK
  <2>2. b = balanceOf[This]
    OBVIOUS
  <2> HIDE DEF b, x
  <2> QED
    BY <1>2, <1>3, <2>1, <2>2 DEF VarsOK
<1>5. Lent' = Lent /\ FeeDue' = FeeDue
  BY DEF ExtractFees, Lent, FeeDue
<1>6. VarsOK'
  BY <1>1, <1>3, <1>4 DEF VarsOK, ExtractFees, roleVars, helperVars
<1>7. SupplyIsOutstanding' /\ RestoredIsSound'
  BY <1>5 DEF IInv, SupplyIsOutstanding, ExtractFees, RestoredIsSound
<1>8. FeesAreHeld'
  <2>1. FeeDue \in Nat /\ fees <= b + FeeDue
    BY LoanType DEF IInv, FeesAreHeld, FeeDue
  <2> HIDE DEF b, x
  <2> QED
    BY <1>1, <1>3, <1>4, <1>5, <2>1 DEF FeesAreHeld
<1> QED
  BY <1>6, <1>7, <1>8 DEF StepEffect

(* What the owner's other calls leave alone is all that the invariant is   *)
(* about.                                                                  *)
LEMMA QuietStep ==
    ASSUME IInv, VarsOK', UNCHANGED <<tokenVars, loan>>
    PROVE  StepEffect
  BY DEF IInv, StepEffect, tokenVars, SupplyIsOutstanding, FeesAreHeld, RestoredIsSound,
         Lent, FeeDue

LEMMA OwnerStepKeeps ==
    ASSUME IInv, VarsOK, OwnerStep
    PROVE  StepEffect
<1>1. ASSUME NEW val \in BOOLEAN, SetPause(val)
      PROVE  StepEffect
  BY <1>1, QuietStep DEF SetPause, VarsOK, tokenVars, helperVars
<1>2. ASSUME NEW val \in BOOLEAN, SetFlashloanHelper(val)
      PROVE  StepEffect
  BY <1>2, QuietStep DEF SetFlashloanHelper, VarsOK, tokenVars, helperVars
<1>3. ASSUME NEW to \in Accounts, ExtractFees(to)
      PROVE  StepEffect
  BY <1>3, ExtractFeesKeeps
<1>4. ASSUME NEW for \in Issuers \cup {Helper}, NEW status \in BOOLEAN,
             SetMinterStatus(for, status)
      PROVE  StepEffect
  BY <1>4, QuietStep DEF SetMinterStatus, VarsOK, tokenVars, helperVars
<1>5. ASSUME NEW for \in Issuers \cup {Helper}, NEW status \in BOOLEAN,
             SetBurnerStatus(for, status)
      PROVE  StepEffect
  BY <1>5, QuietStep DEF SetBurnerStatus, VarsOK, tokenVars, helperVars
<1>6. ASSUME NEW val \in MaxFlashMints, SetMaxFlashMintable(val)
      PROVE  StepEffect
  BY <1>6, QuietStep, UsdoAssumption DEF SetMaxFlashMintable, VarsOK, tokenVars, roleVars
<1>7. ASSUME NEW val \in FlashFees, SetFlashMintFee(val)
      PROVE  StepEffect
  BY <1>7, QuietStep DEF SetFlashMintFee, VarsOK, tokenVars, roleVars
<1> QED
  BY <1>1, <1>2, <1>3, <1>4, <1>5, <1>6, <1>7 DEF OwnerStep

LEMMA StutterKeeps ==
    ASSUME IInv, VarsOK, UNCHANGED vars
    PROVE  StepEffect
  BY QuietStep DEF vars, VarsOK, tokenVars, roleVars, helperVars

LEMMA StepKeeps == IInv /\ [Next]_vars => IInv'
<1> SUFFICES ASSUME IInv, [Next]_vars
             PROVE  IInv'
  OBVIOUS
<1>1. VarsOK
  BY TypeOfVars DEF IInv
<1>2. StepEffect
  BY <1>1, TransferKeeps, MintKeeps, BurnKeeps, FlashLoanKeeps, RepayFlashLoanKeeps,
     RevertFlashLoanKeeps, OwnerStepKeeps, StutterKeeps DEF Next, TokenStep
<1> QED
  BY <1>2, TypeOfVarsNext DEF StepEffect, IInv

LEMMA InitSound == Init => IInv
<1> SUFFICES ASSUME Init
             PROVE  IInv
  OBVIOUS
<1>1. balanceOf \in [Holders -> Nat] /\ balanceOf[This] = 0
  BY HolderFacts DEF Init
<1>2. /\ totalSupply \in Int /\ fees \in Nat /\ outstanding \in Int
      /\ maxFlashMint \in Nat /\ flashMintFee \in FlashFees
  BY UsdoAssumption DEF Init
<1>3. /\ allowedMinter \in SUBSET (Issuers \cup {Helper})
      /\ allowedBurner \in SUBSET (Issuers \cup {Helper})
  BY UsdoAssumption DEF Init
<1>4. paused \in BOOLEAN /\ flashLoanHelper \in BOOLEAN /\ loan \in Loans \cup {NoLoan}
  BY DEF Init
<1>5. VarsOK
  BY <1>1, <1>2, <1>3, <1>4 DEF VarsOK
<1> QED
  BY <1>1, <1>5, TypeOfVars
  DEF IInv, Init, SupplyIsOutstanding, FeesAreHeld, RestoredIsSound, Lent, FeeDue

LEMMA Invariance == Spec => []IInv
  BY InitSound, StepKeeps, PTL DEF Spec

-----------------------------------------------------------------------------
(* Every variable of the two contracts keeps its type.                     *)
THEOREM UsdoTypeCorrect == Spec => []TypeOK
<1>1. IInv => TypeOK
  BY DEF IInv
<1> QED
  BY <1>1, Invariance, PTL

(* All USDO in existence was minted by an issuer and not burnt, or by the  *)
(* one flash loan under way, whatever its callback calls (mint, burn,      *)
(* flashLoan).                                                             *)
THEOREM SupplyIsAccountedFor == Spec => []SupplyIsOutstanding
<1>1. IInv => SupplyIsOutstanding
  BY DEF IInv
<1> QED
  BY <1>1, Invariance, PTL

(* USDO holds the fees registered with it, but for the loan's under way    *)
(* (addFlashloanFee, extractFees).                                         *)
THEOREM FeesArePaid == Spec => []FeesAreHeld
<1>1. IInv => FeesAreHeld
  BY DEF IInv
<1> QED
  BY <1>1, Invariance, PTL

(* A pause stops every creation and destruction of USDO (whenNotPaused),   *)
(* even at the end of a flash loan that began before it.                   *)
THEOREM PauseFixesSupply == Spec => PausedSupplyIsFixed
<1>1. ASSUME IInv, [Next]_vars
      PROVE  [paused /\ paused' => UNCHANGED <<totalSupply, loan>>]_vars
  <2>1. SUFFICES ASSUME Next, paused, paused'
                 PROVE  UNCHANGED <<totalSupply, loan>>
    BY <1>1 DEF vars
  <2>2. ~RevertFlashLoan
    BY <1>1, <2>1 DEF RevertFlashLoan, IInv, RestoredIsSound
  <2>3. CASE TokenStep
    BY <2>1, <2>3 DEF TokenStep, Transfer, Mint, Burn, FlashLoan
  <2>4. CASE OwnerStep
    BY <2>4 DEF OwnerStep, SetPause, SetFlashloanHelper, ExtractFees, SetMinterStatus,
                SetBurnerStatus, SetMaxFlashMintable, SetFlashMintFee, tokenVars
  <2> QED
    BY <2>1, <2>2, <2>3, <2>4 DEF Next, RepayFlashLoan
<1> QED
  BY <1>1, Invariance, PTL DEF Spec, PausedSupplyIsFixed
=============================================================================
