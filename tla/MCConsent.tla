------------------------------- MODULE MCConsent -------------------------------
(***************************************************************************)
(* Instances of Consent for TLC.                                           *)
(***************************************************************************)
EXTENDS Consent

CONSTANTS w1, d1, d2, f1, f2, f3, r1

\* One workspace; two connections to one destination and one to another.
MCWsOf   == [f \in Flows |-> w1]
MCDestOf == [f \in Flows |-> IF f = f3 THEN d2 ELSE d1]
\* The two destinations are ports of one host.
MCHostOf == [d \in Dests |-> "host"]
===============================================================================
