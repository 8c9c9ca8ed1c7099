--------------------------- MODULE MCSingularity ----------------------------
(***************************************************************************)
(* Singularity on small instances: percentages are tenths, a share is half *)
(* a unit of asset or collateral, and a used pool has at least two         *)
(* fractions.                                                              *)
(***************************************************************************)
EXTENDS Singularity, TLC

UserSymmetry == Permutations(Lenders) \cup Permutations(Borrowers)
=============================================================================
