---------------------------- MODULE MCDeployment ----------------------------
(***************************************************************************)
(* Deployment on small instances: a chain of each kind, and a few runs of  *)
(* the task.                                                               *)
(***************************************************************************)
EXTENDS Deployment
=============================================================================
