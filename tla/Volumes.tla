-------------------------------- MODULE Volumes --------------------------------
(***************************************************************************)
(* What the lifecycle promises of a workspace's volumes, whatever requests *)
(* overlap and whenever the daemon dies: they have one user at a time.     *)
(*                                                                         *)
(*   - a guest boots on them only while the workspace has its row and no   *)
(*     move is exchanging one of them;                                     *)
(*   - a move begins only while no guest runs and no other move does;      *)
(*   - a workspace is deleted only while nobody uses them, and for good.   *)
(*                                                                         *)
(* A guest may halt at any time.  A restart ends every move at once, and   *)
(* no guest.                                                               *)
(***************************************************************************)
CONSTANT Workspaces

VARIABLES
  present,  \* workspaces that have a row
  guests,   \* workspaces whose guest runs
  moves     \* workspaces with a volume on the move

vars == <<present, guests, moves>>

Init == present = Workspaces /\ guests = {} /\ moves = {}

Boot(w) ==
  /\ w \in present \ moves
  /\ guests' = guests \cup {w}
  /\ UNCHANGED <<present, moves>>

Halt(w) ==
  /\ guests' = guests \ {w}
  /\ UNCHANGED <<present, moves>>

Move(w) ==
  /\ w \in present \ (guests \cup moves)
  /\ moves' = moves \cup {w}
  /\ UNCHANGED <<present, guests>>

Done(w) ==
  /\ moves' = moves \ {w}
  /\ UNCHANGED <<present, guests>>

Delete(w) ==
  /\ w \notin guests \cup moves
  /\ present' = present \ {w}
  /\ UNCHANGED <<guests, moves>>

Restart ==
  /\ moves' = {}
  /\ UNCHANGED <<present, guests>>

Next ==
  \/ \E w \in Workspaces : Boot(w) \/ Halt(w) \/ Move(w) \/ Done(w) \/ Delete(w)
  \/ Restart

Spec == Init /\ [][Next]_vars
===============================================================================
