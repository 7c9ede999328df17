------------------------------- MODULE MCSecrets -------------------------------
(***************************************************************************)
(* Instances of Secrets for TLC.                                           *)
(***************************************************************************)
EXTENDS Secrets

CONSTANTS n1, n2, c1, c2

================================================================================
