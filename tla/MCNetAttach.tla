----------------------------- MODULE MCNetAttach -----------------------------
(***************************************************************************)
(* Instances of NetAttach for TLC.                                         *)
(***************************************************************************)
EXTENDS NetAttach

CONSTANTS w1, w2, t1, t2, s1

\* One workspace is switched between the postures; the other competes with it
\* for the pool's only slice.
MCModes == [w \in Workspaces |->
  IF w = w1 THEN {"allow", "interactive"} ELSE {"static"}]
==============================================================================
