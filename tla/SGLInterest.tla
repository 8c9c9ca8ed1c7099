----------------------------- MODULE SGLInterest ----------------------------
(***************************************************************************)
(* How a Singularity market's interest rate moves when it is charged       *)
(* (SGLInterestHelper.getInterestRate): for a utilization u and a time     *)
(* elapsed, it decays below the target utilization and grows above it,     *)
(* faster the further away, and within its bounds.                         *)
(***************************************************************************)
EXTENDS BoringRebase

CONSTANTS
    UTILIZATION_PRECISION,        \* 1e18, FULL_UTILIZATION
    minimumTargetUtilization, maximumTargetUtilization,
    minimumInterestPerSecond, maximumInterestPerSecond,
    interestElasticity

RateBelowTarget(rate, u, elapsed) ==
    LET factor == ((minimumTargetUtilization - u) * UTILIZATION_PRECISION)
                     \div minimumTargetUtilization
        scale == interestElasticity + factor * factor * elapsed
        decayed == (rate * interestElasticity) \div scale
    IN  IF decayed < minimumInterestPerSecond THEN minimumInterestPerSecond ELSE decayed

RateUncapped(rate, u, elapsed) == \* mutant: no maximum
    LET factor == ((u - maximumTargetUtilization) * UTILIZATION_PRECISION)
                     \div (UTILIZATION_PRECISION - maximumTargetUtilization)
        scale == interestElasticity + factor * factor * elapsed
    IN  (rate * scale) \div interestElasticity
RateAboveTarget(rate, u, elapsed) ==
    LET factor == ((u - maximumTargetUtilization) * UTILIZATION_PRECISION)
                     \div (UTILIZATION_PRECISION - maximumTargetUtilization)
        scale == interestElasticity + factor * factor * elapsed
    IN  Least((rate * scale) \div interestElasticity, maximumInterestPerSecond)

NextRate(rate, u, elapsed) ==
    IF u < minimumTargetUtilization THEN RateBelowTarget(rate, u, elapsed)
    ELSE IF u > maximumTargetUtilization THEN RateAboveTarget(rate, u, elapsed)
    ELSE rate
=============================================================================
