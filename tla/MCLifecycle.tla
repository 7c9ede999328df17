------------------------------ MODULE MCLifecycle ------------------------------
(***************************************************************************)
(* Instances of Lifecycle for TLC.                                         *)
(***************************************************************************)
EXTENDS Lifecycle, TLC

CONSTANTS w1, r1, r2
===============================================================================
