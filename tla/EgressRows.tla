------------------------------ MODULE EgressRows ------------------------------
(***************************************************************************)
(* The consent table's statements (model/egress_consent.py), as operators  *)
(* on a function from row ids to rows.  Every one is a single database     *)
(* transaction of the code: a conditional UPDATE, a deduplicated INSERT or *)
(* a DELETE, so each is applied by one step of whoever calls it.           *)
(*                                                                         *)
(* A row keeps its workspace, its destination (host and port together),    *)
(* the decision, and the duration of the verdict.  The audit columns and   *)
(* the HMAC tag are left out.                                              *)
(***************************************************************************)
EXTENDS FiniteSets

\* The verdicts a decider may give, and what they are given for: `once`
\* covers the connection, `tilrestart` the life of the VM, `forever` all.
Verdicts  == {"allowed", "denied"}
Durations == {"once", "tilrestart", "forever"}

Decisions == Verdicts \cup {"absent", "pending", "expired", "revoked"}

RowType(Workspaces, Dests) ==
  [decision : Decisions, ws : Workspaces, dest : Dests,
   duration : Durations \cup {"none"}]

IsPending(row) == row.decision = "pending"

\* pending_row: the rows of one destination that still await a verdict.
PendingFor(rows, w, d) ==
  {r \in DOMAIN rows : IsPending(rows[r]) /\ rows[r].ws = w /\ rows[r].dest = d}

\* count_pending reads this set's size.
PendingOf(rows, w) == {r \in DOMAIN rows : IsPending(rows[r]) /\ rows[r].ws = w}

\* A faulty variant: the INSERT without its conflict clause.
AlwaysCreates(rows, w, d) == TRUE

\* create_request: the partial unique index refuses a second pending row.
CanCreate(rows, w, d) == PendingFor(rows, w, d) = {}

Created(rows, r, w, d) ==
  [rows EXCEPT ![r] = [decision |-> "pending", ws |-> w, dest |-> d,
                       duration |-> "none"]]

\* decide: the UPDATE matches a pending row only.
CanDecide(rows, r) == IsPending(rows[r])

Decided(rows, r, verdict, duration) ==
  [rows EXCEPT ![r].decision = verdict, ![r].duration = duration]

\* A faulty variant: the label lands in the duration column.
ExpiredInDuration(rows, r) ==
  IF IsPending(rows[r])
  THEN [rows EXCEPT ![r].decision = "expired", ![r].duration = "expired"]
  ELSE rows

\* expire_pending: moves a pending row, leaves every other row alone.
Expired(rows, r) ==
  IF IsPending(rows[r])
  THEN [rows EXCEPT ![r].decision = "expired", ![r].duration = "once"]
  ELSE rows

\* expire_all_pending: the startup reaper (it leaves the duration unset).
AllExpired(rows) ==
  [r \in DOMAIN rows |->
     IF IsPending(rows[r]) THEN [rows[r] EXCEPT !.decision = "expired"]
                           ELSE rows[r]]

\* revoke: the UPDATE matches a decided row only.
CanRevoke(rows, r) == rows[r].decision \in Verdicts

Revoked(rows, r) == [rows EXCEPT ![r].decision = "revoked"]

\* The rows clear_tilrestart deletes at a workspace stop.
TilrestartOf(rows, w) ==
  {r \in DOMAIN rows : /\ rows[r].ws = w
                       /\ rows[r].decision \in Verdicts
                       /\ rows[r].duration = "tilrestart"}

Deleted(rows, gone) ==
  [r \in DOMAIN rows |->
     IF r \in gone THEN [rows[r] EXCEPT !.decision = "absent"] ELSE rows[r]]

\* delete_for_workspace: every row of a deleted workspace.
RowsOf(rows, w) == {r \in DOMAIN rows : rows[r].ws = w}
===============================================================================
