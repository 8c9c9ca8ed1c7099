SPECIFICATION Spec
CONSTANTS
    NoLoan = NoLoan
    a1 = a1
    m1 = m1
    This = This
    Helper = Helper
    Accounts = {a1}
    Issuers = {m1}
    Delegate = m1
    FLASH_MINT_FEE_PRECISION = 2
    Amounts = {2}
    FlashFees = {0, 1}
    MaxFlashMints = {0, 2}
    MaxSupply = 2
INVARIANTS SupplyIsOutstanding FeesAreHeld
PROPERTIES PausedSupplyIsFixed
