------------------------------ MODULE MintFee -------------------------------
(***************************************************************************)
(* The opening fee of a BigBang loan (_computeVariableOpeningFee): the     *)
(* fee grows from minMintFee to maxMintFee as the price of USDO falls from *)
(* minMintFeeStart to maxMintFeeStart.                                     *)
(***************************************************************************)
EXTENDS Integers

CONSTANTS minMintFee, maxMintFee, minMintFeeStart, maxMintFeeStart

OpeningFeeRate(price) ==
    IF price >= minMintFeeStart THEN minMintFee
    ELSE IF price <= maxMintFeeStart THEN maxMintFee
    ELSE LET fee == maxMintFee - ((price - maxMintFeeStart) * (maxMintFee - minMintFee))
                                    \div (minMintFeeStart - maxMintFeeStart)
         IN  IF fee > maxMintFee THEN maxMintFee
             ELSE IF fee < minMintFee THEN minMintFee ELSE fee
=============================================================================
