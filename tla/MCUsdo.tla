------------------------------- MODULE MCUsdo -------------------------------
(***************************************************************************)
(* Usdo on small instances: fees are halves.                               *)
(***************************************************************************)
EXTENDS Usdo, TLC
=============================================================================
