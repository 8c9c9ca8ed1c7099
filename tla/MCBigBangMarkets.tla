-------------------------- MODULE MCBigBangMarkets --------------------------
(***************************************************************************)
(* BigBangMarkets on small instances: a main market and its siblings, and  *)
(* rates that double or triple a debt in a unit of time.                   *)
(***************************************************************************)
EXTENDS BigBangMarkets, TLC
=============================================================================
