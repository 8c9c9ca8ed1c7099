----------------------------- MODULE MCBigBang ------------------------------
(***************************************************************************)
(* BigBang on small instances: percentages are tenths, one share is half a *)
(* unit of collateral, and the debt grows by a quarter per unit of time.   *)
(***************************************************************************)
EXTENDS BigBang, TLC

UserSymmetry == Permutations(Users)
AllPauses == PauseType
=============================================================================
