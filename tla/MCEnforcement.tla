---------------------------- MODULE MCEnforcement ----------------------------
(***************************************************************************)
(* Instances of Enforcement for TLC.                                       *)
(***************************************************************************)
EXTENDS Enforcement, TLC

CONSTANTS n1, n2, a1, f1, f2

\* Both connections dial the one address both names live at.
MCAddrOf == [f \in Flows |-> a1]

\* Neither the names nor the connections are told apart.
Symmetric == Permutations({n1, n2}) \cup Permutations({f1, f2})
==============================================================================
