-------------------------------- MODULE Verdict --------------------------------
(***************************************************************************)
(* What consent promises of one request, whoever closes it and whenever:   *)
(*                                                                         *)
(*   - its ruling only ever moves pending -> allowed | denied | expired    *)
(*     and allowed | denied -> revoked; deleting it ends it;               *)
(*   - its held packet is answered at most once, and allowed only when a   *)
(*     verdict allowing it was committed.                                  *)
(*                                                                         *)
(* Requests move independently, any number of them in one step (a restart  *)
(* or a workspace delete moves many).                                      *)
(***************************************************************************)
CONSTANT Requests

VARIABLES
  ruling,   \* the decision column of each request
  granted,  \* the requests whose committed verdict was an allow
  answer    \* "none", "open" (held), then one of the answers

vars == <<ruling, granted, answer>>

Rulings == {"absent", "pending", "allowed", "denied", "expired", "revoked"}
Answers == {"allow", "deny", "cancelled"}

\* The moves of a ruling; a deleted one may be moved to from any.
RulingSteps ==
  {<<"absent", "pending">>, <<"pending", "allowed">>, <<"pending", "denied">>,
   <<"pending", "expired">>, <<"allowed", "revoked">>, <<"denied", "revoked">>}

Init ==
  /\ ruling = [q \in Requests |-> "absent"]
  /\ granted = {}
  /\ answer = [q \in Requests |-> "none"]

RulingMoves(q) ==
  /\ \/ ruling'[q] \in {ruling[q], "absent"}
     \/ <<ruling[q], ruling'[q]>> \in RulingSteps
  /\ q \in granted' <=>
       q \in granted \/ (ruling[q] = "pending" /\ ruling'[q] = "allowed")

AnswerMoves(q) ==
  \/ answer'[q] = answer[q]
  \/ answer[q] = "none" /\ answer'[q] = "open"
  \/ /\ answer[q] = "open"
     /\ answer'[q] \in Answers
     /\ answer'[q] = "allow" => q \in granted

Next ==
  /\ ruling' \in [Requests -> Rulings]
  /\ granted' \in SUBSET Requests
  /\ answer' \in [Requests -> Answers \cup {"none", "open"}]
  /\ \A q \in Requests : RulingMoves(q) /\ AnswerMoves(q)

Spec == Init /\ [][Next]_vars
===============================================================================
