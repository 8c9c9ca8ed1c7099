------------------------------ MODULE DebtRate ------------------------------
(***************************************************************************)
(* The yearly debt rate of a BigBang market that is not the main one       *)
(* (BBCommon.getDebtRate): it grows from minDebtRate to maxDebtRate with   *)
(* the market's debt, up to a share of the ETH market's debt.              *)
(***************************************************************************)
EXTENDS BoringRebase

CONSTANTS
    minDebtRate, maxDebtRate,
    debtRateAgainstEthMarket, \* the share, as a fraction of RATE_PRECISION
    DEBT_PRECISION,           \* 1e18: a debt percentage is a fraction of it
    RATE_PRECISION            \* 1e18: so are the rates

MaxDebtPoint(ethDebt) == (ethDebt * debtRateAgainstEthMarket) \div RATE_PRECISION

DebtRateOf(debt, ethDebt) ==
    IF debt = 0 THEN minDebtRate
    ELSE IF debt >= MaxDebtPoint(ethDebt) THEN maxDebtRate
    ELSE LET percentage == (debt * DEBT_PRECISION) \div MaxDebtPoint(ethDebt)
         IN  Least(((maxDebtRate - minDebtRate) * percentage) \div DEBT_PRECISION
                      + minDebtRate, maxDebtRate)
=============================================================================
