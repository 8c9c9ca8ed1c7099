----------------------------- MODULE MCOrigins ------------------------------
(***************************************************************************)
(* Origins, and the task that mints the first USDO on it, on small         *)
(* instances: percentages are fifths, one share is half a unit of          *)
(* collateral.                                                             *)
(***************************************************************************)
EXTENDS OriginsMint, TLC
=============================================================================
