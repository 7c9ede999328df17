------------------------------- MODULE DeciderView -------------------------------
(***************************************************************************)
(* What a decider's screen shows: the hub's queue and relay (events.py),   *)
(* the registration beside it on one socket (server/api/events.py), the    *)
(* frames of holds and rules (consent/coordinator.py), and the client that *)
(* applies them (client/tui/consent.py, link.py).                          *)
(*                                                                         *)
(* Two tasks write to the socket, the relay and the registration; each     *)
(* reads, waits and sends, and so does every broadcast of the rules.  The  *)
(* holds and changes are those of the client's own workspace; the hub      *)
(* carries the frames of every other one to it too.                        *)
(***************************************************************************)
EXTENDS Naturals, Sequences, Functions

CONSTANTS
  Requests,    \* held connections of the workspace
  Revokes,     \* operators' revokes of its verdicts
  Switches,    \* operators' switches of its posture
  Own,         \* the workspace the client registers for
  Elsewhere,   \* another workspace
  Stray,       \* a hold of that one
  QueueMax,    \* the hub's bound on a subscriber's queue
  MaxConnects, \* bound: connections of the client
  MaxOutside   \* bound: frames of the other workspace, and verdicts that end

ByName == "by name"
Actors == Requests \cup Revokes \cup Switches

ASSUME ViewAssumption ==
  /\ Requests \cap (Revokes \cup Switches) = {} /\ Revokes \cap Switches = {}
  /\ Own # Elsewhere /\ ByName \notin {Own, Elsewhere} /\ Stray \notin Requests
  /\ QueueMax \in Nat \ {0} /\ MaxConnects \in Nat /\ MaxOutside \in Nat

VARIABLES
  stage,    \* of each request: where its hold stands
  waiting,  \* requests whose connection still waits for the answer
  facts,    \* the versions of the workspace's posture and of its verdicts
  cast,     \* of each actor: its broadcast of the rules
  queue,    \* the client's queue in the hub
  reg,      \* the registration of the connected client
  view,     \* what the client shows
  connects, outside,
  \* History, of this connection:
  told,     \* the client was shown these facts
  overtaken,\* holds told of as resolved while the replay was sent
  silent,   \* holds closed without a word
  untold,   \* the facts changed without a word, or a broadcast was cut
  lost      \* the queue dropped a frame

holds == <<stage, waiting>>
rules == <<facts, cast>>
screen == <<reg, view, connects>>
ghosts == <<overtaken, silent>>
vars == <<holds, rules, queue, screen, outside, told, ghosts, untold, lost>>

NoFacts == [mode |-> 0, active |-> 0]
Pending == {r \in Requests : stage[r] \in {"stored", "held", "deciding", "expiring"}}
Held == {r \in Requests : stage[r] = "held"}

(***************************************************************************)
(* Frames and the hub.  The task that carries a publish is the next one of *)
(* the loop: it is made one with the step that starts it.                  *)
(***************************************************************************)
Frame(kind, of, ws, f) == [kind |-> kind, of |-> of, ws |-> ws, facts |-> f]
Ask(r) == Frame("request", r, Own, NoFacts)
Told(r) == Frame("resolved", r, Own, NoFacts)
Rules(f) == Frame("rules", Own, Own, f)
Connected == reg.pc # "down"

\* A faulty variant: the newest is queued beyond the bound.
PublishUnbounded(frame) ==
  /\ queue' = IF Connected THEN Append(queue, frame) ELSE queue
  /\ UNCHANGED lost

\* A faulty variant: a client is delivered to once it has registered.
PublishRegistered(frame) ==
  LET full == Len(queue) = QueueMax IN
  IF reg.pc = "done" THEN /\ queue' = Append(IF full THEN Tail(queue) ELSE queue, frame)
                          /\ lost' = (lost \/ full)
                     ELSE UNCHANGED <<queue, lost>>

\* A full queue drops its oldest.
Publish(frame) ==
  LET full == Len(queue) = QueueMax IN
  IF Connected THEN /\ queue' = Append(IF full THEN Tail(queue) ELSE queue, frame)
                    /\ lost' = (lost \/ full)
               ELSE UNCHANGED <<queue, lost>>

NoPublish == UNCHANGED <<queue, lost>>

\* A hold or a change of another workspace.
Foreign ==
  /\ outside < MaxOutside /\ outside' = outside + 1
  /\ \/ Publish(Frame("request", Stray, Elsewhere, NoFacts))
     \/ Publish(Frame("resolved", Stray, Elsewhere, NoFacts))
     \/ Publish(Frame("rules", Elsewhere, Elsewhere, NoFacts))
  /\ UNCHANGED <<holds, rules, screen, told, ghosts, untold>>

\* A verdict ends with its duration, or with the VM it was given until the end of.
Lapse ==
  /\ outside < MaxOutside /\ outside' = outside + 1
  /\ facts' = [facts EXCEPT !.active = @ + 1] /\ told' = FALSE /\ untold' = TRUE
  /\ NoPublish /\ UNCHANGED <<holds, cast, screen, ghosts>>

(***************************************************************************)
(* A hold: its row, its registration, and the one closer that pops it.     *)
(***************************************************************************)
Move(r, from, to) == stage[r] = from /\ stage' = [stage EXCEPT ![r] = to]
BeginCast(a) == cast' = [cast EXCEPT ![a].pc = "mode"]
Aside == UNCHANGED <<screen, outside>>
Plain == Aside /\ NoPublish /\ UNCHANGED <<rules, told, ghosts, untold>>

Store(r) == Move(r, "new", "stored") /\ Plain /\ UNCHANGED waiting

Register(r) ==
  /\ Move(r, "stored", "held") /\ Publish(Ask(r))
  /\ Aside /\ UNCHANGED <<waiting, rules, told, ghosts, untold>>

\* The consumer is stopped under the hold: its future is cancelled.
Abandon(r) ==
  /\ r \in waiting /\ stage[r] \notin {"new", "stored", "closed"}
  /\ waiting' = waiting \ {r}
  /\ Plain /\ UNCHANGED stage

\* resolve: the pop, the decide write, and what it does when it resumes.  Only a
\* verdict that lasts is among the rules.
DecidePop(r) == Move(r, "held", "deciding") /\ Plain /\ UNCHANGED waiting

DecideWrite(r) ==
  /\ Move(r, "deciding", "decided")
  /\ \/ facts' = [facts EXCEPT !.active = @ + 1] /\ told' = FALSE
     \/ UNCHANGED <<facts, told>>
  /\ Aside /\ NoPublish /\ UNCHANGED <<waiting, cast, ghosts, untold>>

\* No row was written: the future is resolved and the row expired.
DecideRefused(r) ==
  /\ Move(r, "deciding", "refused") /\ waiting' = waiting \ {r} /\ Plain

\* A faulty variant: the verdict is not broadcast.
DecideTellsNoRules(r) ==
  /\ Move(r, "decided", "closed") \/ Move(r, "refused", "closed")
  /\ waiting' = waiting \ {r}
  /\ Publish(Told(r))
  /\ Aside /\ UNCHANGED <<rules, told, ghosts, untold>>

DecideTell(r) ==
  /\ Move(r, "decided", "closed") \/ Move(r, "refused", "closed")
  /\ waiting' = waiting \ {r}
  /\ Publish(Told(r)) /\ BeginCast(r)
  /\ Aside /\ UNCHANGED <<facts, told, ghosts, untold>>

\* The frame goes out with the answer to whoever waits, or not at all.
FailClose(r) ==
  /\ waiting' = waiting \ {r}
  /\ IF r \in waiting THEN Publish(Told(r)) /\ UNCHANGED silent
                      ELSE silent' = silent \cup {r} /\ NoPublish

\* The decide request is cancelled in a write, committed or not.
DecideCancelled(r) ==
  /\ \/ Move(r, "deciding", "closed")
     \/ Move(r, "decided", "closed")
     \/ Move(r, "refused", "closed")
  /\ FailClose(r) /\ untold' = (untold \/ stage[r] = "decided")
  /\ Aside /\ UNCHANGED <<rules, told, overtaken>>

\* fail_close: a timeout, a stop, a switch of posture.
ExpirePop(r) == Move(r, "held", "expiring") /\ Plain /\ UNCHANGED waiting

ExpireTell(r) ==
  /\ Move(r, "expiring", "closed") /\ FailClose(r)
  /\ Aside /\ UNCHANGED <<rules, told, overtaken, untold>>

Hold(r) ==
  \/ Store(r) \/ Register(r) \/ Abandon(r) \/ DecidePop(r) \/ DecideWrite(r)
  \/ DecideRefused(r) \/ DecideTell(r) \/ DecideCancelled(r) \/ ExpirePop(r) \/ ExpireTell(r)

(***************************************************************************)
(* Revokes and switches of posture, and the broadcast each of them ends in.*)
(***************************************************************************)
Quiet == UNCHANGED <<holds, ghosts>> /\ Aside

Revoke(a) ==
  /\ a \in Revokes /\ cast[a].pc = "idle"
  /\ facts' = [facts EXCEPT !.active = @ + 1] /\ told' = FALSE
  /\ BeginCast(a)
  /\ Quiet /\ NoPublish /\ UNCHANGED untold

\* The switches of a workspace take its move lock.
SwitchWrite(a) ==
  /\ a \in Switches /\ cast[a].pc = "idle"
  /\ \A b \in Switches : cast[b].pc # "swap"
  /\ facts' = [facts EXCEPT !.mode = @ + 1] /\ told' = FALSE
  /\ cast' = [cast EXCEPT ![a].pc = "swap"]
  /\ Quiet /\ NoPublish /\ UNCHANGED untold

SwitchApplied(a) ==
  /\ cast[a].pc = "swap" /\ BeginCast(a)
  /\ Quiet /\ NoPublish /\ UNCHANGED <<facts, told, untold>>

\* A swap that fails writes the posture back, unless that fails too, and nothing
\* tells of it.
SwitchFails(a) ==
  /\ cast[a].pc = "swap"
  /\ \/ facts' = [facts EXCEPT !.mode = @ - 1] /\ told' = FALSE
     \/ UNCHANGED <<facts, told>>
  /\ cast' = [cast EXCEPT ![a].pc = "done"] /\ untold' = TRUE
  /\ Quiet /\ NoPublish

\* rules_frame: the posture first, the verdicts after; then the publish.
CastMode(a) ==
  /\ cast[a].pc = "mode"
  /\ cast' = [cast EXCEPT ![a] =
       [pc |-> "active", facts |-> [mode |-> facts.mode, active |-> 0]]]
  /\ Quiet /\ NoPublish /\ UNCHANGED <<facts, told, untold>>

CastActive(a) ==
  /\ cast[a].pc = "active"
  /\ Publish(Rules([cast[a].facts EXCEPT !.active = facts.active]))
  /\ cast' = [cast EXCEPT ![a] = [pc |-> "done", facts |-> NoFacts]]
  /\ Quiet /\ UNCHANGED <<facts, told, untold>>

\* A read fails, or the request that broadcasts is cancelled.
CastCut(a) ==
  /\ cast[a].pc \in {"mode", "active"}
  /\ cast' = [cast EXCEPT ![a] = [pc |-> "done", facts |-> NoFacts]] /\ untold' = TRUE
  /\ Quiet /\ NoPublish /\ UNCHANGED <<facts, told>>

Change(a) ==
  \/ Revoke(a) \/ SwitchWrite(a) \/ SwitchApplied(a) \/ SwitchFails(a)
  \/ CastMode(a) \/ CastActive(a) \/ CastCut(a)

(***************************************************************************)
(* The client.  A frame is applied when it is sent: the wire keeps order.  *)
(***************************************************************************)
Owns(w) == view.ws = w

\* The first rules frame tells a client that knows its workspace by name which
\* it is; the client takes any workspace's for that.
Applied(frame) ==
  CASE frame.kind = "request" ->
         IF Owns(frame.ws) THEN [view EXCEPT !.pending = @ \cup {frame.of}] ELSE view
    [] frame.kind = "resolved" -> [view EXCEPT !.pending = @ \ {frame.of}]
    [] frame.kind = "rules" ->
         IF Owns(frame.ws) \/ ~view.ruled
           THEN [view EXCEPT !.ws = frame.ws, !.ruled = TRUE] ELSE view

Shows(frame) ==
  /\ view' = Applied(frame)
  /\ told' = (told \/ (frame = Rules(facts) /\ view'.ws = Own))

RegAt(pc) == reg.pc = pc
RegTo(pc) == reg' = [reg EXCEPT !.pc = pc]
IdleReg(pc) == [pc |-> pc, facts |-> NoFacts, todo |-> {}]
Daemon == UNCHANGED <<holds, rules, outside>>
Reading == Daemon /\ NoPublish /\ UNCHANGED <<view, connects, told, ghosts, untold>>

Dial ==
  /\ ~Connected /\ connects < MaxConnects
  /\ connects' = connects + 1
  /\ reg' = IdleReg("mode") /\ queue' = <<>>
  /\ told' = FALSE /\ overtaken' = {} /\ silent' = {} /\ untold' = FALSE /\ lost' = FALSE
  /\ Daemon

\* A faulty variant: the client keeps what the last connection showed.
ConnectUnreset == Dial /\ UNCHANGED view

\* The socket is accepted and subscribed; the client names its workspace and
\* forgets what it showed, before it reads a frame.
Connect == Dial /\ view' = [view EXCEPT !.pending = {}, !.ruled = FALSE]

\* The client goes: its tasks are cancelled, its queue unsubscribed.
Disconnect ==
  /\ Connected
  /\ reg' = IdleReg("down") /\ queue' = <<>>
  /\ Daemon /\ UNCHANGED <<view, connects, told, ghosts, untold, lost>>

Relay ==
  /\ Connected /\ queue # <<>>
  /\ Shows(Head(queue)) /\ queue' = Tail(queue)
  /\ overtaken' = IF Head(queue).kind = "resolved" /\ RegAt("send")
                    THEN overtaken \cup {Head(queue).of} ELSE overtaken
  /\ Daemon /\ UNCHANGED <<reg, connects, silent, untold, lost>>

\* register_decider: the rules first, then the holds that still stand.
RegMode ==
  /\ RegAt("mode")
  /\ reg' = [reg EXCEPT !.pc = "active", !.facts.mode = facts.mode]
  /\ Reading

RegActive ==
  /\ RegAt("active")
  /\ reg' = [reg EXCEPT !.pc = "rules", !.facts.active = facts.active]
  /\ Reading

SendRules ==
  /\ RegAt("rules") /\ reg' = IdleReg("list")
  /\ Shows(Rules(reg.facts))
  /\ Daemon /\ NoPublish /\ UNCHANGED <<connects, ghosts, untold>>

SnapshotRows ==
  /\ RegAt("list")
  /\ reg' = [reg EXCEPT !.pc = "filter", !.todo = Pending]
  /\ Reading

\* Only the holds still live are replayed.
SnapshotHeld ==
  /\ RegAt("filter")
  /\ reg' = [reg EXCEPT !.pc = "send", !.todo = @ \cap Held]
  /\ Reading

SendHold ==
  /\ RegAt("send")
  /\ \E r \in reg.todo :
       /\ Shows(Ask(r))
       /\ reg' = [reg EXCEPT !.todo = @ \ {r}]
  /\ Daemon /\ NoPublish /\ UNCHANGED <<connects, ghosts, untold>>

Registered == RegAt("send") /\ reg.todo = {} /\ RegTo("done") /\ Reading

Registration ==
  RegMode \/ RegActive \/ SendRules \/ SnapshotRows \/ SnapshotHeld \/ SendHold \/ Registered

Init ==
  /\ stage = [r \in Requests |-> "new"] /\ waiting = Requests
  /\ facts = NoFacts /\ cast = [a \in Actors |-> [pc |-> "idle", facts |-> NoFacts]]
  /\ queue = <<>> /\ reg = IdleReg("down")
  /\ \E w \in {Own, ByName} : view = [pending |-> {}, ruled |-> FALSE, ws |-> w]
  /\ connects = 0 /\ outside = 0
  /\ told = FALSE /\ overtaken = {} /\ silent = {} /\ untold = FALSE /\ lost = FALSE

Next ==
  \/ \E r \in Requests : Hold(r)
  \/ \E a \in Actors : Change(a)
  \/ Foreign \/ Lapse \/ Connect \/ Disconnect \/ Relay \/ Registration

Spec == Init /\ [][Next]_vars

-----------------------------------------------------------------------------
(***************************************************************************)
(* Properties.                                                             *)
(***************************************************************************)
Facts == [mode : Nat, active : Nat]
CastType == [pc : {"idle", "swap", "mode", "active", "done"}, facts : Facts]
RegType ==
  [pc : {"down", "mode", "active", "rules", "list", "filter", "send", "done"},
   facts : Facts, todo : SUBSET Requests]
ViewType ==
  [pending : SUBSET (Requests \cup {Stray}), ruled : BOOLEAN, ws : {Own, Elsewhere, ByName}]
Frames ==
  [kind : {"request", "resolved"}, of : Requests \cup {Stray}, ws : {Own, Elsewhere},
   facts : Facts]
  \cup [kind : {"rules"}, of : {Own, Elsewhere}, ws : {Own, Elsewhere}, facts : Facts]

\* Every variable keeps its type, and the queue its bound.
TypeOK ==
  /\ stage \in [Requests ->
       {"new", "stored", "held", "deciding", "decided", "refused", "expiring", "closed"}]
  /\ waiting \subseteq Requests /\ facts \in Facts
  /\ cast \in [Actors -> CastType] /\ reg \in RegType /\ view \in ViewType
  /\ queue \in Seq(Frames) /\ Len(queue) <= QueueMax
  /\ connects \in 0..MaxConnects /\ outside \in 0..MaxOutside
  /\ overtaken \subseteq Requests \cup {Stray} /\ silent \subseteq Requests
  /\ told \in BOOLEAN /\ untold \in BOOLEAN /\ lost \in BOOLEAN

\* A registered client shows its own workspace, and no frame of its queue was
\* dropped on this connection.
Sound == RegAt("done") /\ view.ws = Own /\ ~lost

\* Every hold is on a registered client's screen or on its way there, whenever it
\* came relative to the subscription, the rules that name the workspace and the
\* replay of register_decider.
HoldsShown == Sound => \A r \in Held : r \in view.pending \/ Ask(r) \in Range(queue)

\* A request on a connected client's screen stands, or is about to be told of as
\* resolved: nothing resolved while disconnected, or popped before the replay was
\* put together, lingers.  A replay that the resolution overtook, a hold whose
\* closer found nobody waiting, and a dropped frame are the exceptions.
GhostsLeave ==
  Connected /\ ~lost =>
    \A r \in view.pending \cap Requests :
      \/ stage[r] # "closed"
      \/ Told(r) \in Range(queue)
      \/ r \in overtaken \cup silent

WillTell(a) ==
  \/ cast[a].pc \in {"swap", "mode"}
  \/ cast[a].pc = "active" /\ cast[a].facts.mode = facts.mode
  \/ a \in Requests /\ stage[a] = "decided"

\* The rules in force were shown to a registered client, or somebody has yet to
\* read or to send them: no change, in whatever order with others and with the
\* registration, goes untold.  A broadcast that is cut, a switch that is written
\* back and a verdict that ends are the exceptions.
RulesTold ==
  Sound /\ ~untold =>
    told \/ Rules(facts) \in Range(queue) \/ \E a \in Actors : WillTell(a)

=================================================================================
