----------------------------- MODULE DeciderViewProofs -----------------------------
(***************************************************************************)
(* The safety of DeciderView, for any holds, changes, connections and      *)
(* bound of the queue.                                                     *)
(*                                                                         *)
(* The argument follows the queue.  A hold that stands is on the screen,   *)
(* in the queue, or still to be replayed; a question in the queue has its  *)
(* resolution behind it once its hold is closed; the rules in force are    *)
(* shown, in the queue, or yet to be read by a broadcast or by the         *)
(* registration.                                                           *)
(***************************************************************************)
EXTENDS DeciderView, TLAPS

\* One switch is under way at a time, and has a version to take back.
OneSwap ==
  \A a \in Actors : cast[a].pc = "swap" =>
    /\ a \in Switches /\ facts.mode > 0
    /\ \A b \in Actors : cast[b].pc = "swap" => a = b

\* The registration has named the workspace before it lists the holds.
RuledFirst == reg.pc \in {"list", "filter", "send", "done"} => view.ruled

\* What is told of as resolved is closed.
ToldClosed ==
  \A f \in Range(queue) : f.kind = "resolved" /\ f.of \in Requests => stage[f.of] = "closed"

\* A hold that stands is shown, on its way, or still to be replayed.
Covered(r) ==
  /\ stage[r] = "held" /\ ~lost /\ view.ws = Own
  /\ reg.pc \in {"filter", "send", "done"}
  => \/ r \in view.pending
     \/ Ask(r) \in Range(queue)
     \/ reg.pc # "done" /\ r \in reg.todo

\* A closed hold is told of, overtook its replay, or was closed without a word.
Excused(r) == Told(r) \in Range(queue) \/ r \in overtaken \cup silent

\* A question in the queue has its resolution behind it once it is closed.
Followed ==
  \A i \in 1..Len(queue) :
    queue[i].kind = "request" /\ queue[i].of \in Requests /\ stage[queue[i].of] = "closed" =>
      \/ queue[i].of \in silent
      \/ \E j \in i + 1..Len(queue) : queue[j] = Told(queue[i].of)

Leaving(r) ==
  Connected /\ ~lost /\ stage[r] = "closed" =>
    /\ r \in view.pending => Excused(r)
    /\ reg.pc = "send" /\ r \in reg.todo => Excused(r)

\* The registration has yet to read or to send the rules in force.
RegWillTell ==
  \/ reg.pc = "mode"
  \/ reg.pc = "active" /\ reg.facts.mode = facts.mode
  \/ reg.pc = "rules" /\ reg.facts = facts

RulesCovered ==
  Connected /\ ~lost /\ ~untold /\ (view.ws = Own \/ ~view.ruled) =>
    \/ told /\ view.ws = Own
    \/ Rules(facts) \in Range(queue)
    \/ RegWillTell
    \/ \E a \in Actors : WillTell(a)

IInv ==
  /\ TypeOK /\ OneSwap /\ RuledFirst /\ ToldClosed
  /\ \A r \in Requests : Covered(r) /\ Leaving(r)
  /\ (Connected /\ ~lost => Followed)
  /\ RulesCovered

-------------------------------------------------------------------------------
\* What an append and a tail leave in a sequence.
LEMMA AppendRange ==
  ASSUME NEW S, NEW s \in Seq(S), NEW x \in S
  PROVE  Range(Append(s, x)) = Range(s) \cup {x}
  <1>1. \A i \in 1..Len(s) : Append(s, x)[i] = s[i]
    OBVIOUS
  <1>2. Append(s, x)[Len(s) + 1] = x /\ DOMAIN Append(s, x) = 1..Len(s) + 1
    OBVIOUS
  <1>3. Range(s) \cup {x} \subseteq Range(Append(s, x))
    BY <1>1, <1>2 DEF Range
  <1>4. Range(Append(s, x)) \subseteq Range(s) \cup {x}
    <2> SUFFICES ASSUME NEW i \in 1..Len(s) + 1
                 PROVE  Append(s, x)[i] \in Range(s) \cup {x}
      BY <1>2 DEF Range
    <2>1. CASE i = Len(s) + 1 BY <2>1, <1>2
    <2>2. CASE i \in 1..Len(s) BY <2>2, <1>1 DEF Range
    <2> QED BY <2>1, <2>2
  <1> QED BY <1>3, <1>4

\* What a tail takes out of a sequence.
LEMMA TailRange ==
  ASSUME NEW S, NEW s \in Seq(S), s # <<>>
  PROVE  Head(s) \in S /\ Tail(s) \in Seq(S) /\ Range(s) = {Head(s)} \cup Range(Tail(s))
  <1>1. Len(s) \in Nat \ {0} /\ Head(s) = s[1] /\ DOMAIN s = 1..Len(s) /\ Tail(s) \in Seq(S)
    OBVIOUS
  <1>2. DOMAIN Tail(s) = 1..Len(s) - 1 /\ \A i \in 1..Len(s) - 1 : Tail(s)[i] = s[i + 1]
    OBVIOUS
  <1>3. \A i \in 2..Len(s) : i - 1 \in 1..Len(s) - 1 /\ s[i] = Tail(s)[i - 1]
    BY <1>1, <1>2
  <1>4. Range(s) \subseteq {Head(s)} \cup Range(Tail(s))
    <2> SUFFICES ASSUME NEW i \in 1..Len(s)
                 PROVE  s[i] \in {Head(s)} \cup Range(Tail(s))
      BY <1>1 DEF Range
    <2>1. CASE i = 1 BY <2>1, <1>1
    <2>2. CASE i \in 2..Len(s) BY <2>2, <1>2, <1>3 DEF Range
    <2> QED BY <2>1, <2>2, <1>1
  <1>5. {Head(s)} \cup Range(Tail(s)) \subseteq Range(s)
    <2>1. Head(s) \in Range(s) BY <1>1 DEF Range
    <2>2. \A i \in 1..Len(s) - 1 : Tail(s)[i] \in Range(s)
      BY <1>1, <1>2 DEF Range
    <2> QED BY <2>1, <2>2, <1>2 DEF Range
  <1> QED BY <1>1, <1>4, <1>5

\* A frame is queued behind the others, and one is lost only with a mark.
QueueType == queue \in Seq(Frames) /\ Len(queue) <= QueueMax /\ lost \in BOOLEAN

Queued(f) ==
  /\ QueueType'
  /\ Range(queue') \subseteq Range(queue) \cup {f}
  /\ lost => lost'
  /\ Connected /\ ~lost' =>
       queue' = Append(queue, f) /\ Range(queue') = Range(queue) \cup {f}
  /\ ~Connected => UNCHANGED queue

\* A publish queues its frame, for whoever is connected.
LEMMA PublishEffect ==
  ASSUME QueueType, NEW f \in Frames, Publish(f)
  PROVE  Queued(f)
  <1> USE ViewAssumption DEF QueueType, Queued
  <1>1. CASE ~Connected BY <1>1 DEF Publish
  <1>2. CASE Connected /\ Len(queue) # QueueMax
    <2>1. queue' = Append(queue, f) /\ lost' = lost BY <1>2 DEF Publish
    <2>2. Range(queue') = Range(queue) \cup {f} BY <2>1, AppendRange
    <2>3. Len(queue') <= QueueMax BY <2>1, <1>2
    <2> QED BY <2>1, <2>2, <2>3, <1>2
  <1>3. CASE Connected /\ Len(queue) = QueueMax
    <2>1. queue' = Append(Tail(queue), f) /\ lost' BY <1>3 DEF Publish
    <2>2. queue # <<>> BY <1>3
    <2>3. Tail(queue) \in Seq(Frames) /\ Range(Tail(queue)) \subseteq Range(queue)
      BY <2>2, TailRange
    <2>4. Range(queue') = Range(Tail(queue)) \cup {f} BY <2>1, <2>3, AppendRange
    <2>5. Len(queue') <= QueueMax BY <2>1, <2>2, <1>3
    <2>6. lost' = TRUE BY <1>3 DEF Publish
    <2> QED BY <2>1, <2>3, <2>4, <2>5, <2>6, <1>3
  <1> QED BY <1>1, <1>2, <1>3

\* The frames of the daemon are frames.
LEMMA FramesTyped ==
  /\ \A r \in Requests : Ask(r) \in Frames /\ Told(r) \in Frames
  /\ \A f \in Facts : Rules(f) \in Frames
  /\ NoFacts \in Facts
  /\ Frame("request", Stray, Elsewhere, NoFacts) \in Frames
  /\ Frame("resolved", Stray, Elsewhere, NoFacts) \in Frames
  /\ Frame("rules", Elsewhere, Elsewhere, NoFacts) \in Frames
  BY DEF Ask, Told, Rules, Frame, Frames, NoFacts, Facts

\* What a hold's step leaves alone, and what it queues.
LEMMA HoldFrames ==
  ASSUME QueueType, NEW r \in Requests, Hold(r)
  PROVE  /\ UNCHANGED <<screen, outside, overtaken>>
         /\ \/ Store(r) \/ Abandon(r) \/ DecidePop(r) \/ DecideWrite(r) \/ DecideRefused(r)
              \/ ExpirePop(r)
            \/ Register(r) /\ Queued(Ask(r))
            \/ DecideTell(r) /\ Queued(Told(r))
            \/ DecideCancelled(r) /\ (r \in waiting => Queued(Told(r)))
            \/ ExpireTell(r) /\ (r \in waiting => Queued(Told(r)))
  <1>1. UNCHANGED <<screen, outside, overtaken>>
    BY DEF Hold, Store, Register, Abandon, DecidePop, DecideWrite, DecideRefused, DecideTell,
       DecideCancelled, ExpirePop, ExpireTell, Plain, Aside, ghosts, screen
  <1>2. Ask(r) \in Frames /\ Told(r) \in Frames BY FramesTyped
  <1>3. Publish(Ask(r)) => Queued(Ask(r)) BY <1>2, PublishEffect
  <1>4. Publish(Told(r)) => Queued(Told(r)) BY <1>2, PublishEffect
  <1>5. FailClose(r) /\ r \in waiting => Publish(Told(r)) BY DEF FailClose
  <1>6. Register(r) => Publish(Ask(r)) BY DEF Register
  <1>7. DecideTell(r) => Publish(Told(r)) BY DEF DecideTell
  <1>8. DecideCancelled(r) \/ ExpireTell(r) => FailClose(r) BY DEF DecideCancelled, ExpireTell
  <1> QED BY <1>1, <1>3, <1>4, <1>5, <1>6, <1>7, <1>8 DEF Hold

\* What the changes leave alone, and what they queue.
LEMMA ChangeFrames ==
  ASSUME QueueType, facts \in Facts, cast \in [Actors -> CastType], NEW a \in Actors, Change(a)
  PROVE  /\ UNCHANGED <<holds, ghosts, screen, outside>>
         /\ \/ CastActive(a) /\ Queued(Rules([cast[a].facts EXCEPT !.active = facts.active]))
            \/ ~CastActive(a) /\ UNCHANGED <<queue, lost>>
  <1>1. UNCHANGED <<holds, ghosts, screen, outside>>
    BY DEF Change, Revoke, SwitchWrite, SwitchApplied, SwitchFails, CastMode, CastActive, CastCut,
       Quiet, Aside
  <1>2. [cast[a].facts EXCEPT !.active = facts.active] \in Facts BY DEF CastType, Facts
  <1>3. CastActive(a) => Queued(Rules([cast[a].facts EXCEPT !.active = facts.active]))
    BY <1>2, FramesTyped, PublishEffect DEF CastActive
  <1>4. ~CastActive(a) => UNCHANGED <<queue, lost>>
    BY DEF Change, Revoke, SwitchWrite, SwitchApplied, SwitchFails, CastMode, CastCut, NoPublish
  <1> QED BY <1>1, <1>3, <1>4

\* What another workspace's frames leave alone, and what they queue.
LEMMA ForeignFrames ==
  ASSUME QueueType, Foreign
  PROVE  /\ UNCHANGED <<holds, rules, screen, told, ghosts, untold>>
         /\ \E f \in Frames : Queued(f) /\ f.ws = Elsewhere /\ f.of \in {Stray, Elsewhere}
              /\ (f.kind # "rules" => f.of = Stray)
  <1>1. UNCHANGED <<holds, rules, screen, told, ghosts, untold>> BY DEF Foreign
  <1>2. ASSUME NEW k \in {"request", "resolved"}, Publish(Frame(k, Stray, Elsewhere, NoFacts))
        PROVE  \E f \in Frames : Queued(f) /\ f.ws = Elsewhere /\ f.of \in {Stray, Elsewhere}
                 /\ (f.kind # "rules" => f.of = Stray)
    <2>1. Frame(k, Stray, Elsewhere, NoFacts) \in Frames BY FramesTyped
    <2>2. Queued(Frame(k, Stray, Elsewhere, NoFacts)) BY <1>2, <2>1, PublishEffect
    <2> QED BY <2>1, <2>2 DEF Frame
  <1>3. ASSUME Publish(Frame("rules", Elsewhere, Elsewhere, NoFacts))
        PROVE  \E f \in Frames : Queued(f) /\ f.ws = Elsewhere /\ f.of \in {Stray, Elsewhere}
                 /\ (f.kind # "rules" => f.of = Stray)
    <2>1. Frame("rules", Elsewhere, Elsewhere, NoFacts) \in Frames BY FramesTyped
    <2>2. Queued(Frame("rules", Elsewhere, Elsewhere, NoFacts)) BY <1>3, <2>1, PublishEffect
    <2> QED BY <2>1, <2>2 DEF Frame
  <1> QED BY <1>1, <1>2, <1>3 DEF Foreign

\* What the registration leaves alone.
LEMMA RegistrationFrames ==
  ASSUME Registration
  PROVE  /\ UNCHANGED <<holds, rules, outside, silent, untold, queue, lost, connects, overtaken>>
         /\ SendRules \/ SendHold \/ UNCHANGED <<view, told>>
  BY DEF Registration, RegMode, RegActive, SendRules, SnapshotRows, SnapshotHeld, SendHold,
     Registered, Reading, Daemon, NoPublish, ghosts

\* A frame that is shown leaves a view of its type.
LEMMA AppliedTyped ==
  ASSUME view \in ViewType, NEW f \in Frames
  PROVE  /\ Applied(f) \in ViewType
         /\ view.ruled => Applied(f).ruled
         /\ view.ruled /\ Applied(f).ws = Own => view.ws = Own
         /\ f.kind = "request" =>
              Applied(f) = IF view.ws = f.ws THEN [view EXCEPT !.pending = @ \cup {f.of}] ELSE view
         /\ f.kind = "resolved" => Applied(f) = [view EXCEPT !.pending = @ \ {f.of}]
         /\ f.kind = "rules" => Applied(f).pending = view.pending
         /\ f.kind = "rules" /\ (view.ws = f.ws \/ ~view.ruled) => Applied(f).ws = f.ws
         /\ ~Applied(f).ruled => Applied(f).ws = view.ws
  <1>1. CASE f.kind = "request"
    <2>1. f.of \in Requests \cup {Stray} BY <1>1 DEF Frames
    <2>2. Applied(f) = IF view.ws = f.ws THEN [view EXCEPT !.pending = @ \cup {f.of}] ELSE view
      BY <1>1 DEF Applied, Owns
    <2> QED BY <1>1, <2>1, <2>2 DEF ViewType
  <1>2. CASE f.kind = "resolved"
    <2>1. Applied(f) = [view EXCEPT !.pending = @ \ {f.of}] BY <1>2 DEF Applied
    <2> QED BY <1>2, <2>1 DEF ViewType
  <1>3. CASE f.kind = "rules"
    <2>1. Applied(f) = IF view.ws = f.ws \/ ~view.ruled
                         THEN [view EXCEPT !.ws = f.ws, !.ruled = TRUE] ELSE view
      BY <1>3 DEF Applied, Owns
    <2>2. f.ws \in {Own, Elsewhere} BY DEF Frames
    <2> QED BY <1>3, <2>1, <2>2 DEF ViewType
  <1>4. f.kind \in {"request", "resolved", "rules"} BY DEF Frames
  <1> QED BY <1>1, <1>2, <1>3, <1>4

\* What the relay takes from the queue, it shows.
LEMMA RelayTakes ==
  ASSUME QueueType, view \in ViewType, Relay
  PROVE  /\ Connected /\ Head(queue) \in Frames /\ QueueType' /\ lost' = lost
         /\ Range(queue) = {Head(queue)} \cup Range(queue')
         /\ view' = Applied(Head(queue)) /\ view' \in ViewType
         /\ queue # <<>> /\ queue' = Tail(queue)
  <1>1. queue # <<>> /\ queue' = Tail(queue) /\ lost' = lost /\ Connected BY DEF Relay
  <1>2. Head(queue) \in Frames /\ Tail(queue) \in Seq(Frames)
        /\ Range(queue) = {Head(queue)} \cup Range(Tail(queue))
    BY <1>1, TailRange DEF QueueType
  <1>3. Len(queue') <= QueueMax
    BY <1>1, ViewAssumption DEF QueueType
  <1>4. view' = Applied(Head(queue)) BY DEF Relay, Shows
  <1> QED BY <1>1, <1>2, <1>3, <1>4, AppliedTyped DEF QueueType

\* Every step keeps the types.
LEMMA TypeStep ==
  ASSUME TypeOK, OneSwap, [Next]_vars
  PROVE  TypeOK'
  <1>0. QueueType BY DEF TypeOK, QueueType
  <1>1. ASSUME NEW r \in Requests, Hold(r) PROVE TypeOK'
    <2>1. UNCHANGED <<screen, outside, overtaken>> BY <1>0, <1>1, HoldFrames
    <2>2. QueueType'
      BY <1>0, <1>1, HoldFrames
      DEF Queued, QueueType, FailClose, Store, Abandon, DecidePop, DecideWrite, DecideRefused, ExpirePop, Plain,
          NoPublish, DecideCancelled, ExpireTell
    <2>3. stage' \in [Requests ->
            {"new", "stored", "held", "deciding", "decided", "refused", "expiring", "closed"}]
      BY <1>1 DEF TypeOK, Hold, Store, Register, Abandon, DecidePop, DecideWrite, DecideRefused,
         DecideTell, DecideCancelled, ExpirePop, ExpireTell, Plain, Move
    <2>4. waiting' \subseteq Requests /\ silent' \subseteq Requests
      BY <1>1 DEF TypeOK, Hold, Store, Register, Abandon, DecidePop, DecideWrite, DecideRefused,
         DecideTell, DecideCancelled, ExpirePop, ExpireTell, Plain, FailClose, ghosts
    <2>5. facts' \in Facts
      <3>1. UNCHANGED facts \/ facts' = [facts EXCEPT !.active = @ + 1]
        BY <1>1 DEF Hold, Store, Register, Abandon, DecidePop, DecideWrite, DecideRefused,
         DecideTell, DecideCancelled, ExpirePop, ExpireTell, Plain, rules
      <3> QED BY <3>1 DEF TypeOK, Facts
    <2>7. told' \in BOOLEAN /\ untold' \in BOOLEAN
      <3>1. CASE DecideCancelled(r)
        <4>1. UNCHANGED told /\ untold' = (untold \/ stage[r] = "decided")
          BY <3>1 DEF DecideCancelled
        <4> QED BY <4>1, Zenon DEF TypeOK
      <3>2. CASE ~DecideCancelled(r)
        <4>1. (told' = told \/ told' = FALSE) /\ UNCHANGED untold
          BY <1>1, <3>2 DEF Hold, Store, Register, Abandon, DecidePop, DecideWrite, DecideRefused,
             DecideTell, ExpirePop, ExpireTell, Plain
        <4> QED BY <4>1 DEF TypeOK
      <3> QED BY <3>1, <3>2
    <2>6. cast' \in [Actors -> CastType]
      BY <1>1 DEF TypeOK, Hold, Store, Register, Abandon, DecidePop, DecideWrite, DecideRefused,
         DecideTell, DecideCancelled, ExpirePop, ExpireTell, Plain, rules, BeginCast, CastType
    <2> QED BY <2>1, <2>2, <2>3, <2>4, <2>5, <2>6, <2>7 DEF TypeOK, QueueType, screen
  <1>2. ASSUME NEW a \in Actors, Change(a) PROVE TypeOK'
    <2>0. facts \in Facts /\ cast \in [Actors -> CastType] BY DEF TypeOK
    <2>1. UNCHANGED <<holds, ghosts, screen, outside>> BY <1>0, <1>2, <2>0, ChangeFrames
    <2>2. QueueType' BY <1>0, <1>2, <2>0, ChangeFrames DEF Queued, QueueType
    <2>3. SwitchFails(a) => facts.mode > 0 BY <2>0 DEF OneSwap, SwitchFails
    <2>4. facts' \in Facts
      <3>1. \/ UNCHANGED facts
            \/ facts' = [facts EXCEPT !.active = @ + 1]
            \/ facts' = [facts EXCEPT !.mode = @ + 1]
            \/ facts.mode > 0 /\ facts' = [facts EXCEPT !.mode = @ - 1]
        BY <1>2, <2>3 DEF Change, Revoke, SwitchWrite, SwitchApplied, SwitchFails, CastMode,
         CastActive, CastCut
      <3> QED BY <2>0, <3>1 DEF Facts
    <2>5. cast' \in [Actors -> CastType]
      <3>1. CASE CastMode(a)
        BY <3>1, <2>0 DEF CastMode, CastType, Facts
      <3>2. CASE CastActive(a) \/ CastCut(a)
        <4>1. cast' = [cast EXCEPT ![a] = [pc |-> "done", facts |-> NoFacts]]
          BY <3>2 DEF CastActive, CastCut
        <4> QED BY <4>1, <2>0, FramesTyped DEF CastType
      <3>3. CASE Revoke(a) \/ SwitchApplied(a)
        BY <3>3, <2>0 DEF Revoke, SwitchApplied, BeginCast, CastType
      <3>4. CASE SwitchWrite(a) \/ SwitchFails(a)
        <4>1. PICK pc \in {"swap", "done"} : cast' = [cast EXCEPT ![a].pc = pc]
          BY <3>4 DEF SwitchWrite, SwitchFails
        <4> QED BY <4>1, <2>0 DEF CastType
      <3> QED BY <1>2, <3>1, <3>2, <3>3, <3>4 DEF Change
    <2>6. (told' = told \/ told' = FALSE) /\ (untold' = untold \/ untold' = TRUE)
      BY <1>2 DEF Change, Revoke, SwitchWrite, SwitchApplied, SwitchFails, CastMode,
         CastActive, CastCut
    <2> QED BY <2>1, <2>2, <2>4, <2>5, <2>6 DEF TypeOK, QueueType, screen, holds, ghosts
  <1>3. CASE Foreign
    <2>1. UNCHANGED <<holds, rules, screen, told, ghosts, untold>> /\ QueueType'
      BY <1>0, <1>3, ForeignFrames DEF Queued
    <2>2. outside' \in 0..MaxOutside BY <1>3, ViewAssumption DEF TypeOK, Foreign
    <2> QED BY <2>1, <2>2 DEF TypeOK, QueueType, screen, holds, rules, ghosts
  <1>4. CASE Connect
    <2>1. reg' \in RegType BY <1>4 DEF Connect, Dial, IdleReg, RegType, NoFacts, Facts
    <2>2. view' \in ViewType BY <1>4 DEF Connect, TypeOK, ViewType
    <2>3. connects' \in 0..MaxConnects
      BY <1>4, ViewAssumption DEF Connect, Dial, TypeOK
    <2>4. queue' = <<>> /\ Len(queue') <= QueueMax BY <1>4, ViewAssumption DEF Connect, Dial
    <2>5. told' = FALSE /\ overtaken' = {} /\ silent' = {} /\ untold' = FALSE /\ lost' = FALSE
          /\ Daemon
      BY <1>4 DEF Connect, Dial
    <2>6. queue' \in Seq(Frames) BY <2>4
    <2> QED BY <2>1, <2>2, <2>3, <2>4, <2>5, <2>6 DEF TypeOK, Daemon, holds, rules
  <1>5. CASE Disconnect
    <2>1. reg' \in RegType BY <1>5 DEF Disconnect, IdleReg, RegType, NoFacts, Facts
    <2>2. queue' = <<>> /\ Len(queue') <= QueueMax BY <1>5, ViewAssumption DEF Disconnect
    <2> QED BY <1>5, <2>1, <2>2 DEF TypeOK, Disconnect, Daemon, holds, rules, ghosts
  <1>6. CASE Relay
    <2>1. QueueType' /\ view' \in ViewType /\ Head(queue) \in Frames
      BY <1>0, <1>6, RelayTakes DEF TypeOK
    <2>2. told' \in BOOLEAN BY <1>6 DEF Relay, Shows, TypeOK
    <2>3. overtaken' \subseteq Requests \cup {Stray}
      BY <1>6, <2>1 DEF Relay, TypeOK, Frames
    <2> QED BY <1>6, <2>1, <2>2, <2>3 DEF TypeOK, QueueType, Relay, Daemon, holds, rules
  <1>7. CASE Registration
    <2>1. UNCHANGED <<holds, rules, outside, silent, untold, queue, lost, connects, overtaken>>
      BY <1>7, RegistrationFrames
    <2>2. reg' \in RegType
      <3>0. reg \in RegType /\ facts \in Facts BY DEF TypeOK
      <3>1. CASE RegMode
        <4>1. reg' = [pc |-> "active", facts |-> [mode |-> facts.mode, active |-> reg.facts.active],
                      todo |-> reg.todo]
          BY <3>1, <3>0 DEF RegMode, RegType, Facts
        <4> QED BY <4>1, <3>0 DEF RegType, Facts
      <3>2. CASE RegActive
        <4>1. reg' = [pc |-> "rules", facts |-> [mode |-> reg.facts.mode, active |-> facts.active],
                      todo |-> reg.todo]
          BY <3>2, <3>0 DEF RegActive, RegType, Facts
        <4> QED BY <4>1, <3>0 DEF RegType, Facts
      <3>3. CASE SendRules \/ Registered
        BY <3>0, <3>3, FramesTyped DEF SendRules, Registered, RegTo, IdleReg, RegType
      <3>4. CASE SnapshotRows \/ SnapshotHeld
        BY <3>0, <3>4 DEF SnapshotRows, SnapshotHeld, RegType, Pending, Held
      <3>5. CASE SendHold
        BY <3>0, <3>5 DEF SendHold, RegType
      <3> QED BY <1>7, <3>1, <3>2, <3>3, <3>4, <3>5 DEF Registration
    <2>3. view' \in ViewType
      <3>1. CASE SendRules
        <4>1. Rules(reg.facts) \in Frames BY FramesTyped DEF TypeOK, RegType
        <4> QED BY <3>1, <4>1, AppliedTyped DEF SendRules, Shows, TypeOK
      <3>2. CASE SendHold
        <4>1. PICK r \in Requests : Shows(Ask(r)) BY <3>2 DEF SendHold, TypeOK, RegType
        <4> QED BY <4>1, FramesTyped, AppliedTyped DEF Shows, TypeOK
      <3>3. CASE UNCHANGED <<view, told>> BY <3>3 DEF TypeOK
      <3> QED BY <1>7, <3>1, <3>2, <3>3, RegistrationFrames
    <2>4. told' \in BOOLEAN
      BY <1>7, RegistrationFrames DEF SendRules, SendHold, Shows, TypeOK
    <2> QED BY <2>1, <2>2, <2>3, <2>4 DEF TypeOK, holds, rules
  <1>8. CASE Lapse
    <2>1. facts' \in Facts BY <1>8 DEF Lapse, TypeOK, Facts
    <2>2. outside' \in 0..MaxOutside BY <1>8, ViewAssumption DEF TypeOK, Lapse
    <2> QED BY <1>8, <2>1, <2>2 DEF TypeOK, Lapse, NoPublish, holds, screen, ghosts
  <1>9. CASE UNCHANGED vars
    BY <1>9 DEF TypeOK, vars, holds, rules, screen, ghosts
  <1> QED BY <1>1, <1>2, <1>3, <1>4, <1>5, <1>6, <1>7, <1>8, <1>9 DEF Next

\* A step of a hold: it asks when it begins to stand, and tells when it closes,
\* or closes without a word.
LEMMA HoldSteps ==
  ASSUME TypeOK, NEW r \in Requests, Hold(r)
  PROVE  /\ stage[r] # "closed" /\ stage' = [stage EXCEPT ![r] = stage'[r]]
         /\ silent \subseteq silent'
         /\ UNCHANGED <<reg, view, connects, outside, overtaken>>
         /\ \/ /\ UNCHANGED <<queue, lost>>
               /\ stage'[r] = "held" => stage[r] = "held"
               /\ stage'[r] = "closed" => r \in silent'
            \/ Queued(Ask(r)) /\ stage'[r] = "held"
            \/ Queued(Told(r)) /\ stage'[r] = "closed"
  <1>0. QueueType BY DEF TypeOK, QueueType
  <1>1. UNCHANGED <<reg, view, connects, outside, overtaken>> BY <1>0, HoldFrames DEF screen
  <1>2. CASE Store(r) \/ Abandon(r) \/ DecidePop(r) \/ DecideWrite(r) \/ DecideRefused(r) \/ ExpirePop(r)
    <2>1. UNCHANGED <<queue, lost, silent>>
      BY <1>2 DEF Store, Abandon, DecidePop, DecideWrite, DecideRefused, ExpirePop, Plain, NoPublish,
         ghosts
    <2>2. /\ stage[r] # "closed" /\ stage' = [stage EXCEPT ![r] = stage'[r]]
          /\ stage'[r] = "held" => stage[r] = "held"
          /\ stage'[r] # "closed"
      BY <1>2 DEF Store, Abandon, DecidePop, DecideWrite, DecideRefused, ExpirePop, Move, TypeOK
    <2> QED BY <1>1, <2>1, <2>2
  <1>3. CASE Register(r)
    <2>1. Queued(Ask(r)) BY <1>3, FramesTyped, <1>0, PublishEffect DEF Register
    <2>2. stage[r] # "closed" /\ stage' = [stage EXCEPT ![r] = stage'[r]] /\ stage'[r] = "held"
      BY <1>3 DEF Register, Move, TypeOK
    <2>3. UNCHANGED silent BY <1>3 DEF Register, ghosts
    <2> QED BY <1>1, <2>1, <2>2, <2>3
  <1>4. CASE DecideTell(r)
    <2>1. Queued(Told(r)) BY <1>4, FramesTyped, <1>0, PublishEffect DEF DecideTell
    <2>2. stage[r] # "closed" /\ stage' = [stage EXCEPT ![r] = stage'[r]] /\ stage'[r] = "closed"
      BY <1>4 DEF DecideTell, Move, TypeOK
    <2>3. UNCHANGED silent BY <1>4 DEF DecideTell, ghosts
    <2> QED BY <1>1, <2>1, <2>2, <2>3
  <1>5. CASE DecideCancelled(r) \/ ExpireTell(r)
    <2>1. stage[r] # "closed" /\ stage' = [stage EXCEPT ![r] = stage'[r]] /\ stage'[r] = "closed"
      BY <1>5 DEF DecideCancelled, ExpireTell, Move, TypeOK
    <2>2. FailClose(r) BY <1>5 DEF DecideCancelled, ExpireTell
    <2>3. CASE r \in waiting
      <3>1. Queued(Told(r)) BY <2>2, <2>3, FramesTyped, <1>0, PublishEffect DEF FailClose
      <3> QED BY <1>1, <2>1, <2>2, <2>3, <3>1 DEF FailClose
    <2>4. CASE r \notin waiting BY <1>1, <2>1, <2>2, <2>4 DEF FailClose, NoPublish
    <2> QED BY <2>3, <2>4
  <1> QED BY <1>2, <1>3, <1>4, <1>5 DEF Hold

\* What the broadcasts of the rules do to their own books.
LEMMA OneSwapStep ==
  ASSUME TypeOK, OneSwap, [Next]_vars
  PROVE  OneSwap'
  <1>0. cast \in [Actors -> CastType] /\ facts \in Facts BY DEF TypeOK
  <1>1. CASE UNCHANGED rules BY <1>1 DEF OneSwap, rules
  <1>2. ASSUME NEW r \in Requests, Hold(r) PROVE OneSwap'
    <2>1. UNCHANGED rules
          \/ (cast' = [cast EXCEPT ![r].pc = "mode"] /\ UNCHANGED facts)
          \/ (UNCHANGED cast /\ (UNCHANGED facts \/ facts' = [facts EXCEPT !.active = @ + 1]))
      BY <1>2 DEF Hold, Store, Register, Abandon, DecidePop, DecideWrite, DecideRefused, DecideTell,
         DecideCancelled, ExpirePop, ExpireTell, Plain, BeginCast
    <2>2. r \in Actors BY DEF Actors
    <2>3. CASE cast' = [cast EXCEPT ![r].pc = "mode"] /\ UNCHANGED facts
      <3>1. \A b \in Actors : cast'[b].pc = "swap" => cast[b].pc = "swap"
        BY <2>3, <2>2, <1>0 DEF CastType
      <3> QED BY <2>3, <3>1 DEF OneSwap
    <2>4. CASE UNCHANGED cast /\ (UNCHANGED facts \/ facts' = [facts EXCEPT !.active = @ + 1])
      <3>1. facts'.mode = facts.mode BY <2>4, <1>0 DEF Facts
      <3> QED BY <2>4, <3>1 DEF OneSwap
    <2> QED BY <2>1, <2>3, <2>4, <1>1
  <1>3. ASSUME NEW a \in Actors, Change(a) PROVE OneSwap'
    <2>1. CASE SwitchWrite(a)
      <3>1. \A b \in Actors : cast[b].pc # "swap" BY <2>1 DEF SwitchWrite, OneSwap
      <3>2. \A b \in Actors : cast'[b].pc = "swap" => b = a
        BY <2>1, <3>1, <1>0 DEF SwitchWrite, CastType
      <3>3. a \in Switches /\ facts'.mode > 0 BY <2>1, <1>0 DEF SwitchWrite, Facts
      <3> QED BY <3>2, <3>3 DEF OneSwap
    <2>2. CASE SwitchFails(a)
      <3>1. \A b \in Actors : cast[b].pc = "swap" => b = a BY <2>2 DEF SwitchFails, OneSwap
      <3>2. \A b \in Actors : cast'[b].pc # "swap"
        BY <2>2, <3>1, <1>0 DEF SwitchFails, CastType
      <3> QED BY <3>2 DEF OneSwap
    <2>3. CASE Revoke(a) \/ SwitchApplied(a) \/ CastMode(a) \/ CastActive(a) \/ CastCut(a)
      <3>1. \A b \in Actors : cast'[b].pc = "swap" => cast[b].pc = "swap"
        BY <2>3, <1>0 DEF Revoke, SwitchApplied, CastMode, CastActive, CastCut, BeginCast, CastType
      <3>2. facts'.mode = facts.mode
        BY <2>3, <1>0 DEF Revoke, SwitchApplied, CastMode, CastActive, CastCut, Facts
      <3> QED BY <3>1, <3>2 DEF OneSwap
    <2> QED BY <1>3, <2>1, <2>2, <2>3 DEF Change
  <1>4. CASE Foreign \/ Connect \/ Disconnect \/ Relay \/ Registration
    <2>1. UNCHANGED rules
      BY <1>4, RegistrationFrames DEF Foreign, Connect, Disconnect, Relay, Dial, Daemon
    <2> QED BY <2>1, <1>1
  <1>5. CASE Lapse
    <2>1. UNCHANGED cast /\ facts'.mode = facts.mode BY <1>5, <1>0 DEF Lapse, Facts
    <2> QED BY <2>1 DEF OneSwap
  <1> QED BY <1>1, <1>2, <1>3, <1>4, <1>5 DEF Next, vars, rules

\* The rules are sent before the list is read.
LEMMA RuledFirstStep ==
  ASSUME TypeOK, RuledFirst, [Next]_vars
  PROVE  RuledFirst'
  <1>0. QueueType /\ view \in ViewType /\ reg \in RegType BY DEF TypeOK, QueueType
  <1>1. CASE UNCHANGED <<reg, view>> BY <1>1 DEF RuledFirst
  <1>2. CASE (\E r \in Requests : Hold(r)) \/ (\E a \in Actors : Change(a)) \/ Foreign \/ Lapse
    <2>1. UNCHANGED <<reg, view>>
      BY <1>0, <1>2, HoldSteps, ChangeFrames, ForeignFrames DEF screen, TypeOK, Lapse
    <2> QED BY <2>1, <1>1
  <1>3. CASE Connect \/ Disconnect
    <2>1. reg'.pc \in {"mode", "down"} BY <1>3 DEF Connect, Disconnect, Dial, IdleReg
    <2> QED BY <2>1 DEF RuledFirst
  <1>4. CASE Relay
    <2>1. UNCHANGED reg BY <1>4 DEF Relay
    <2>2. view.ruled => view'.ruled BY <1>0, <1>4, RelayTakes, AppliedTyped
    <2> QED BY <2>1, <2>2 DEF RuledFirst
  <1>5. CASE SendRules
    <2>1. Rules(reg.facts) \in Frames BY <1>0, FramesTyped DEF RegType
    <2>2. view' = IF view.ws = Own \/ ~view.ruled
                    THEN [view EXCEPT !.ws = Own, !.ruled = TRUE] ELSE view
      BY <1>5 DEF SendRules, Shows, Applied, Rules, Frame, Owns
    <2>3. view'.ruled BY <2>2, <1>0 DEF ViewType
    <2> QED BY <2>3 DEF RuledFirst
  <1>6. CASE SendHold
    <2>1. PICK r \in Requests : Shows(Ask(r)) BY <1>6, <1>0 DEF SendHold, RegType
    <2>2. view.ruled => view'.ruled BY <2>1, <1>0, FramesTyped, AppliedTyped DEF Shows
    <2>3. reg.pc = "send" BY <1>6 DEF SendHold, RegAt
    <2> QED BY <2>2, <2>3 DEF RuledFirst
  <1>7. CASE RegMode \/ RegActive
    <2>1. reg'.pc \in {"active", "rules"} BY <1>7, <1>0 DEF RegMode, RegActive, RegType, Facts
    <2> QED BY <2>1 DEF RuledFirst
  <1>8. CASE SnapshotRows \/ SnapshotHeld \/ Registered
    <2>1. UNCHANGED view /\ reg.pc \in {"list", "filter", "send"}
      BY <1>8 DEF SnapshotRows, SnapshotHeld, Registered, Reading, RegAt
    <2> QED BY <2>1 DEF RuledFirst
  <1> QED BY <1>1, <1>2, <1>3, <1>4, <1>5, <1>6, <1>7, <1>8 DEF Next, vars, screen, Registration

\* A frame is one thing, about one hold.
LEMMA FramesApart ==
  ASSUME NEW r, NEW s, NEW f
  PROVE  /\ Told(r) # Ask(s) /\ Rules(f) # Ask(s) /\ Rules(f) # Told(s)
         /\ Ask(r) = Ask(s) => r = s
         /\ Told(r) = Told(s) => r = s
         /\ Ask(r).kind = "request" /\ Ask(r).of = r /\ Ask(r).ws = Own
         /\ Told(r).kind = "resolved" /\ Told(r).of = r
         /\ Rules(f).kind = "rules" /\ Rules(f).facts = f /\ Rules(f).ws = Own
  <1>1. /\ Ask(r).kind = "request" /\ Ask(r).of = r /\ Ask(r).ws = Own
        /\ Ask(s).kind = "request" /\ Ask(s).of = s
        /\ Told(r).kind = "resolved" /\ Told(r).of = r
        /\ Told(s).kind = "resolved" /\ Told(s).of = s
        /\ Rules(f).kind = "rules" /\ Rules(f).facts = f /\ Rules(f).ws = Own
    BY DEF Ask, Told, Rules, Frame
  <1> QED BY <1>1

\* A resolution is told of when the hold closes, and a closed hold stays closed.
LEMMA ToldClosedStep ==
  ASSUME TypeOK, ToldClosed, [Next]_vars
  PROVE  ToldClosed'
  <1>0. QueueType /\ view \in ViewType /\ facts \in Facts /\ cast \in [Actors -> CastType]
    BY DEF TypeOK, QueueType
  <1>1. CASE UNCHANGED stage /\ Range(queue') \subseteq Range(queue) BY <1>1 DEF ToldClosed
  <1>2. ASSUME UNCHANGED stage, NEW f \in Frames, Queued(f), f.kind = "resolved" => f.of \notin Requests
        PROVE  ToldClosed'
    BY <1>2 DEF ToldClosed, Queued
  <1>3. ASSUME NEW r \in Requests, Hold(r) PROVE ToldClosed'
    <2>1. stage[r] # "closed" /\ stage' = [stage EXCEPT ![r] = stage'[r]] BY <1>3, HoldSteps
    <2>2. \A s \in Requests : stage[s] = "closed" => stage'[s] = "closed" BY <2>1 DEF TypeOK
    <2>3. CASE UNCHANGED queue BY <2>2, <2>3 DEF ToldClosed
    <2>4. CASE Queued(Ask(r)) BY <2>2, <2>4, FramesApart DEF ToldClosed, Queued
    <2>5. CASE Queued(Told(r)) /\ stage'[r] = "closed"
      BY <2>2, <2>5, FramesApart DEF ToldClosed, Queued
    <2> QED BY <1>3, <2>3, <2>4, <2>5, HoldSteps
  <1>4. ASSUME NEW a \in Actors, Change(a) PROVE ToldClosed'
    <2>1. UNCHANGED stage BY <1>0, <1>4, ChangeFrames DEF holds
    <2>2. CASE CastActive(a)
      <3> DEFINE new == [cast[a].facts EXCEPT !.active = facts.active]
      <3>1. new \in Facts BY <1>0 DEF CastType, Facts
      <3>2. Queued(Rules(new)) BY <1>0, <1>4, <2>2, ChangeFrames
      <3>3. Rules(new) \in Frames /\ Rules(new).kind = "rules" BY <3>1, FramesTyped, FramesApart
      <3> QED BY <1>2, <2>1, <3>2, <3>3
    <2>3. CASE ~CastActive(a) BY <1>0, <1>1, <1>4, <2>1, <2>3, ChangeFrames
    <2> QED BY <2>2, <2>3
  <1>5. CASE Foreign
    <2>1. PICK f \in Frames : Queued(f) /\ (f.kind # "rules" => f.of = Stray)
      BY <1>0, <1>5, ForeignFrames
    <2>2. UNCHANGED stage BY <1>0, <1>5, ForeignFrames DEF holds
    <2> QED BY <1>2, <2>1, <2>2, ViewAssumption
  <1>6. CASE Connect \/ Disconnect
    <2>1. queue' = <<>> BY <1>6 DEF Connect, Disconnect, Dial
    <2> QED BY <2>1 DEF ToldClosed, Range
  <1>7. CASE Relay
    <2>1. UNCHANGED stage BY <1>7 DEF Relay, Daemon, holds
    <2> QED BY <1>0, <1>1, <1>7, <2>1, RelayTakes
  <1>8. CASE Registration
    <2>1. UNCHANGED <<stage, queue>> BY <1>8, RegistrationFrames DEF holds
    <2> QED BY <1>1, <2>1
  <1>9. CASE UNCHANGED vars \/ Lapse BY <1>1, <1>9 DEF vars, holds, Lapse, NoPublish
  <1> QED BY <1>3, <1>4, <1>5, <1>6, <1>7, <1>8, <1>9 DEF Next

\* A hold is in the queue from its registration, in the replay from the snapshot
\* that precedes it, and on the screen from there.
LEMMA CoveredStep ==
  ASSUME TypeOK, RuledFirst, ToldClosed, [Next]_vars, NEW r \in Requests, Covered(r)
  PROVE  Covered(r)'
  <1>0. QueueType /\ view \in ViewType /\ reg \in RegType /\ facts \in Facts
        /\ cast \in [Actors -> CastType]
    BY DEF TypeOK, QueueType
  <1>1. ASSUME UNCHANGED <<reg, view>>, stage'[r] = "held" => stage[r] = "held", lost => lost',
               Connected /\ ~lost' => Range(queue) \subseteq Range(queue')
        PROVE  Covered(r)'
    BY <1>1 DEF Covered, Connected, Ask
  <1>2. ASSUME NEW s \in Requests, Hold(s) PROVE Covered(r)'
    <2>1. UNCHANGED <<reg, view>> /\ stage' = [stage EXCEPT ![s] = stage'[s]]
      BY <1>2, HoldSteps
    <2>2. s # r => stage'[r] = stage[r] BY <2>1 DEF TypeOK
    <2>3. CASE UNCHANGED <<queue, lost>> /\ (stage'[s] = "held" => stage[s] = "held")
      BY <1>1, <2>1, <2>2, <2>3
    <2>4. CASE Queued(Ask(s)) /\ s # r BY <1>1, <2>1, <2>2, <2>4 DEF Queued
    <2>5. CASE Queued(Ask(r)) BY <2>1, <2>5 DEF Queued, Covered, Connected, Ask
    <2>6. CASE Queued(Told(s)) /\ stage'[s] = "closed" BY <1>1, <2>1, <2>2, <2>6 DEF Queued
    <2> QED BY <1>2, <2>3, <2>4, <2>5, <2>6, HoldSteps
  <1>3. ASSUME NEW a \in Actors, Change(a) PROVE Covered(r)'
    <2>1. UNCHANGED <<stage, reg, view>> BY <1>0, <1>3, ChangeFrames DEF holds, screen
    <2>2. (lost => lost') /\ (Connected /\ ~lost' => Range(queue) \subseteq Range(queue'))
      BY <1>0, <1>3, ChangeFrames DEF Queued
    <2> QED BY <1>1, <2>1, <2>2
  <1>4. CASE Foreign
    <2>1. UNCHANGED <<stage, reg, view>> BY <1>0, <1>4, ForeignFrames DEF holds, screen
    <2>2. (lost => lost') /\ (Connected /\ ~lost' => Range(queue) \subseteq Range(queue'))
      BY <1>0, <1>4, ForeignFrames DEF Queued
    <2> QED BY <1>1, <2>1, <2>2
  <1>5. CASE Connect \/ Disconnect
    <2>1. reg'.pc \in {"mode", "down"} BY <1>5 DEF Connect, Disconnect, Dial, IdleReg
    <2> QED BY <2>1 DEF Covered
  <1>6. CASE Relay
    <2> DEFINE f == Head(queue)
    <2> SUFFICES ASSUME stage[r] = "held", ~lost, view'.ws = Own, reg.pc \in {"filter", "send", "done"}
                 PROVE  \/ r \in view'.pending
                        \/ Ask(r) \in Range(queue')
                        \/ reg.pc # "done" /\ r \in reg.todo
      BY <1>6, <1>0, RelayTakes DEF Covered, Relay, Daemon, holds, Ask
    <2>1. f \in Frames /\ view' = Applied(f) /\ Range(queue) = {f} \cup Range(queue')
      BY <1>6, <1>0, RelayTakes
    <2>2. view.ws = Own BY <2>1, <1>0, AppliedTyped DEF RuledFirst
    <2>3. \/ r \in view.pending
          \/ Ask(r) \in Range(queue)
          \/ reg.pc # "done" /\ r \in reg.todo
      BY <2>2 DEF Covered
    <2>4. f.kind = "resolved" => f.of # r BY <2>1 DEF ToldClosed
    <2>5. f.kind \in {"request", "resolved", "rules"} BY <2>1 DEF Frames
    <2>6. CASE r \in view.pending
      <3>1. r \in view'.pending BY <2>1, <2>4, <2>5, <2>6, <1>0, AppliedTyped DEF ViewType
      <3> QED BY <3>1
    <2>7. CASE f = Ask(r)
      <3>1. r \in view'.pending BY <2>1, <2>2, <2>7, <1>0, AppliedTyped, FramesApart DEF ViewType
      <3> QED BY <3>1
    <2> QED BY <2>1, <2>3, <2>6, <2>7
  <1>7. CASE RegMode \/ RegActive \/ SendRules
    <2>1. SendRules => reg'.pc = "list" BY DEF SendRules, IdleReg
    <2>2. RegMode => reg'.pc = "active" BY <1>0 DEF RegMode, RegType
    <2>3. RegActive => reg'.pc = "rules" BY <1>0 DEF RegActive, RegType
    <2> QED BY <1>7, <2>1, <2>2, <2>3 DEF Covered
  <1>8. CASE SnapshotRows \/ SnapshotHeld \/ Registered
    <2>1. UNCHANGED <<stage, queue, view, lost>>
      BY <1>8, RegistrationFrames DEF Registration, holds, SnapshotRows, SnapshotHeld, Registered, Reading
    <2>2. CASE SnapshotRows
      <3>1. stage'[r] = "held" => reg'.pc = "filter" /\ r \in reg'.todo
        BY <2>1, <2>2, <1>0 DEF SnapshotRows, Pending, RegType
      <3> QED BY <3>1 DEF Covered
    <2>3. CASE SnapshotHeld
      <3>1. reg.pc = "filter" /\ reg'.pc = "send" /\ reg'.todo = reg.todo \cap Held
        BY <2>3, <1>0 DEF SnapshotHeld, RegAt, RegType
      <3> QED BY <2>1, <3>1 DEF Covered, Held, Ask
    <2>4. CASE Registered
      <3>1. reg.pc = "send" /\ reg'.pc = "done" /\ reg.todo = {}
        BY <2>4, <1>0 DEF Registered, RegAt, RegTo, RegType
      <3> QED BY <2>1, <3>1 DEF Covered, Ask
    <2> QED BY <1>8, <2>2, <2>3, <2>4
  <1>9. CASE SendHold
    <2>1. PICK s \in reg.todo : Shows(Ask(s)) /\ reg' = [reg EXCEPT !.todo = @ \ {s}]
      BY <1>9 DEF SendHold
    <2>2. s \in Requests /\ reg.pc = "send" BY <2>1, <1>9, <1>0 DEF SendHold, RegAt, RegType
    <2>3. reg'.pc = "send" /\ reg'.todo = reg.todo \ {s} BY <2>1, <2>2, <1>0 DEF RegType
    <2>4. view' = IF view.ws = Own THEN [view EXCEPT !.pending = @ \cup {s}] ELSE view
      BY <2>1, <2>2, <1>0, FramesTyped, FramesApart, AppliedTyped DEF Shows
    <2>5. UNCHANGED <<stage, queue, lost>> BY <1>9 DEF SendHold, Daemon, holds, NoPublish, ghosts
    <2>6. view'.ws = view.ws /\ view.pending \subseteq view'.pending
          /\ (view.ws = Own => s \in view'.pending)
      BY <2>4, <1>0 DEF ViewType
    <2> QED BY <2>2, <2>3, <2>5, <2>6 DEF Covered, Ask
  <1>10. CASE UNCHANGED vars \/ Lapse
    BY <1>10 DEF vars, holds, screen, Covered, Ask, Lapse, NoPublish
  <1> QED BY <1>2, <1>3, <1>4, <1>5, <1>6, <1>7, <1>8, <1>9, <1>10 DEF Next, Registration

\* A resolution is queued after the question it answers, and the relay keeps order.
LEMMA FollowedStep ==
  ASSUME TypeOK, Connected /\ ~lost => Followed, [Next]_vars
  PROVE  (Connected /\ ~lost => Followed)'
  <1>0. QueueType /\ view \in ViewType /\ reg \in RegType /\ facts \in Facts
        /\ cast \in [Actors -> CastType]
    BY DEF TypeOK, QueueType
  <1>1. CASE UNCHANGED <<reg, stage, queue, lost, silent>>
    BY <1>1 DEF Followed, Connected, Told
  <1>2. ASSUME UNCHANGED <<reg, stage, silent>>, NEW f \in Frames, Queued(f),
               f.kind = "request" => f.of \notin Requests
        PROVE  (Connected /\ ~lost => Followed)'
    <2> SUFFICES ASSUME Connected', ~lost' PROVE Followed'
      OBVIOUS
    <2>1. queue' = Append(queue, f) /\ Followed /\ ~lost BY <1>2 DEF Queued, Connected
    <2>2. Len(queue') = Len(queue) + 1 /\ queue'[Len(queue) + 1] = f /\ Len(queue) \in Nat
          /\ \A i \in 1..Len(queue) : queue'[i] = queue[i]
      BY <2>1, <1>0 DEF QueueType
    <2> SUFFICES ASSUME NEW i \in 1..Len(queue'), queue'[i].kind = "request",
                        queue'[i].of \in Requests, stage'[queue'[i].of] = "closed"
                 PROVE  \/ queue'[i].of \in silent'
                        \/ \E j \in i + 1..Len(queue') : queue'[j] = Told(queue'[i].of)
      BY DEF Followed, Told
    <2>3. i \in 1..Len(queue) BY <1>2, <2>2
    <2>4. queue'[i] = queue[i] BY <2>2, <2>3
    <2>5. \/ queue[i].of \in silent
          \/ \E j \in i + 1..Len(queue) : queue[j] = Told(queue[i].of)
      BY <1>2, <2>1, <2>3, <2>4 DEF Followed
    <2> QED BY <1>2, <2>2, <2>3, <2>4, <2>5
  <1>3. ASSUME NEW r \in Requests, Hold(r) PROVE (Connected /\ ~lost => Followed)'
    <2> SUFFICES ASSUME Connected', ~lost' PROVE Followed'
      OBVIOUS
    <2>1. /\ stage[r] # "closed" /\ stage' = [stage EXCEPT ![r] = stage'[r]]
          /\ silent \subseteq silent' /\ UNCHANGED reg
      BY <1>3, HoldSteps
    <2>2. \A s \in Requests : s # r => stage'[s] = stage[s] BY <2>1 DEF TypeOK
    <2>3. CASE UNCHANGED <<queue, lost>> /\ (stage'[r] = "closed" => r \in silent')
      <3>1. Followed BY <2>1, <2>3 DEF Connected
      <3> QED BY <2>1, <2>2, <2>3, <3>1 DEF Followed, Told
    <2>4. ASSUME NEW f \in Frames, Queued(f), f.of = r, f.kind = "request" => stage'[r] # "closed",
                 stage'[r] = "closed" => f = Told(r)
          PROVE  Followed'
      <3>1. queue' = Append(queue, f) /\ Followed /\ ~lost BY <2>1, <2>4 DEF Queued, Connected
      <3>2. Len(queue') = Len(queue) + 1 /\ queue'[Len(queue) + 1] = f /\ Len(queue) \in Nat
            /\ \A i \in 1..Len(queue) : queue'[i] = queue[i]
        BY <3>1, <1>0 DEF QueueType
      <3> SUFFICES ASSUME NEW i \in 1..Len(queue'), queue'[i].kind = "request",
                          queue'[i].of \in Requests, stage'[queue'[i].of] = "closed"
                   PROVE  \/ queue'[i].of \in silent'
                          \/ \E j \in i + 1..Len(queue') : queue'[j] = Told(queue'[i].of)
        BY DEF Followed, Told
      <3>3. i \in 1..Len(queue) BY <2>4, <3>2
      <3>4. queue'[i] = queue[i] BY <3>2, <3>3
      <3>5. CASE queue[i].of = r
        <4>1. queue'[Len(queue) + 1] = Told(r) BY <2>4, <3>2, <3>4, <3>5
        <4>2. Len(queue) + 1 \in i + 1..Len(queue') BY <3>2, <3>3
        <4> QED BY <3>4, <3>5, <4>1, <4>2
      <3>6. CASE queue[i].of # r
        <4>1. \/ queue[i].of \in silent
              \/ \E j \in i + 1..Len(queue) : queue[j] = Told(queue[i].of)
          BY <2>2, <3>1, <3>3, <3>4, <3>6 DEF Followed
        <4> QED BY <2>1, <3>2, <3>3, <3>4, <4>1
      <3> QED BY <3>5, <3>6
    <2>5. CASE Queued(Ask(r)) /\ stage'[r] = "held"
      BY <2>4, <2>5, FramesTyped, FramesApart
    <2>6. CASE Queued(Told(r)) /\ stage'[r] = "closed"
      BY <2>4, <2>6, FramesTyped, FramesApart
    <2> QED BY <1>3, <2>3, <2>5, <2>6, HoldSteps
  <1>4. ASSUME NEW a \in Actors, Change(a) PROVE (Connected /\ ~lost => Followed)'
    <2>1. UNCHANGED <<reg, stage, silent>> BY <1>0, <1>4, ChangeFrames DEF holds, screen, ghosts
    <2>2. CASE CastActive(a)
      <3> DEFINE new == [cast[a].facts EXCEPT !.active = facts.active]
      <3>1. new \in Facts BY <1>0 DEF CastType, Facts
      <3>2. Queued(Rules(new)) BY <1>0, <1>4, <2>2, ChangeFrames
      <3>3. Rules(new) \in Frames /\ Rules(new).kind = "rules" BY <3>1, FramesTyped, FramesApart
      <3> QED BY <1>2, <2>1, <3>2, <3>3
    <2>3. CASE ~CastActive(a) BY <1>0, <1>1, <1>4, <2>1, <2>3, ChangeFrames
    <2> QED BY <2>2, <2>3
  <1>5. CASE Foreign
    <2>1. PICK f \in Frames : Queued(f) /\ (f.kind # "rules" => f.of = Stray)
      BY <1>0, <1>5, ForeignFrames
    <2>2. UNCHANGED <<reg, stage, silent>> BY <1>0, <1>5, ForeignFrames DEF holds, screen, ghosts
    <2> QED BY <1>2, <2>1, <2>2, ViewAssumption
  <1>6. CASE Connect \/ Disconnect
    <2>1. queue' = <<>> BY <1>6 DEF Connect, Disconnect, Dial
    <2> QED BY <2>1 DEF Followed
  <1>7. CASE Relay
    <2> SUFFICES ASSUME Connected', ~lost' PROVE Followed'
      OBVIOUS
    <2>1. UNCHANGED <<stage, silent, reg>> BY <1>7 DEF Relay, Daemon, holds
    <2>2. queue # <<>> /\ queue' = Tail(queue) /\ lost' = lost BY <1>0, <1>7, RelayTakes
    <2>3. Len(queue') = Len(queue) - 1 /\ Len(queue) \in Nat
          /\ \A i \in 1..Len(queue') : queue'[i] = queue[i + 1]
      BY <2>2, <1>0 DEF QueueType
    <2>4. Followed BY <2>1, <2>2 DEF Connected
    <2> SUFFICES ASSUME NEW i \in 1..Len(queue'), queue'[i].kind = "request",
                        queue'[i].of \in Requests, stage'[queue'[i].of] = "closed"
                 PROVE  \/ queue'[i].of \in silent'
                        \/ \E j \in i + 1..Len(queue') : queue'[j] = Told(queue'[i].of)
      BY DEF Followed, Told
    <2>5. queue'[i] = queue[i + 1] /\ i + 1 \in 1..Len(queue) BY <2>3
    <2>6. \/ queue[i + 1].of \in silent
          \/ \E j \in i + 2..Len(queue) : queue[j] = Told(queue[i + 1].of)
      BY <2>1, <2>4, <2>5 DEF Followed
    <2>7. CASE \E j \in i + 2..Len(queue) : queue[j] = Told(queue[i + 1].of)
      <3>1. PICK j \in i + 2..Len(queue) : queue[j] = Told(queue[i + 1].of) BY <2>7
      <3>2. j - 1 \in i + 1..Len(queue') /\ j - 1 \in 1..Len(queue') BY <2>3
      <3>3. queue'[j - 1] = queue[j] BY <2>3, <3>2
      <3> QED BY <2>5, <3>1, <3>2, <3>3
    <2> QED BY <2>1, <2>5, <2>6, <2>7
  <1>8. CASE Registration
    <2>1. UNCHANGED <<stage, silent, queue, lost>> BY <1>8, RegistrationFrames DEF holds
    <2>2. Connected
      BY <1>8 DEF Registration, RegMode, RegActive, SendRules, SnapshotRows, SnapshotHeld, SendHold,
         Registered, RegAt, Connected
    <2> QED BY <2>1, <2>2 DEF Followed, Told
  <1>9. CASE UNCHANGED vars \/ Lapse
    BY <1>1, <1>9 DEF vars, holds, screen, ghosts, Lapse, NoPublish
  <1> QED BY <1>3, <1>4, <1>5, <1>6, <1>7, <1>8, <1>9 DEF Next

\* A closed hold leaves the screen with its resolution, which no replay follows
\* unless it was overtaken.
LEMMA LeavingStep ==
  ASSUME TypeOK, Connected /\ ~lost => Followed, [Next]_vars, NEW r \in Requests, Leaving(r)
  PROVE  Leaving(r)'
  <1>0. QueueType /\ view \in ViewType /\ reg \in RegType /\ facts \in Facts
        /\ cast \in [Actors -> CastType]
    BY DEF TypeOK, QueueType
  <1>1. ASSUME UNCHANGED <<reg, view, overtaken>>, silent \subseteq silent',
               stage'[r] = "closed" => stage[r] = "closed", lost => lost',
               Connected /\ ~lost' => Range(queue) \subseteq Range(queue')
        PROVE  Leaving(r)'
    BY <1>1 DEF Leaving, Excused, Connected, Told
  <1>2. ASSUME NEW s \in Requests, Hold(s) PROVE Leaving(r)'
    <2>1. /\ stage' = [stage EXCEPT ![s] = stage'[s]] /\ silent \subseteq silent'
          /\ UNCHANGED <<reg, view, overtaken>>
      BY <1>2, HoldSteps
    <2>2. s # r => stage'[r] = stage[r] BY <2>1 DEF TypeOK
    <2>3. CASE s # r
      <3>1. (lost => lost') /\ (Connected /\ ~lost' => Range(queue) \subseteq Range(queue'))
        BY <1>2, HoldSteps DEF Queued
      <3> QED BY <1>1, <2>1, <2>2, <2>3, <3>1
    <2>4. CASE s = r /\ stage'[r] # "closed" BY <2>4 DEF Leaving
    <2>5. CASE s = r /\ stage'[r] = "closed"
      <3>1. Connected' /\ ~lost' => Excused(r)'
        BY <1>2, <2>1, <2>5, HoldSteps DEF Queued, Excused, Connected, Told
      <3> QED BY <3>1 DEF Leaving
    <2> QED BY <2>3, <2>4, <2>5
  <1>3. ASSUME NEW a \in Actors, Change(a) PROVE Leaving(r)'
    <2>1. UNCHANGED <<stage, reg, view, overtaken, silent>>
      BY <1>0, <1>3, ChangeFrames DEF holds, screen, ghosts
    <2>2. (lost => lost') /\ (Connected /\ ~lost' => Range(queue) \subseteq Range(queue'))
      BY <1>0, <1>3, ChangeFrames DEF Queued
    <2> QED BY <1>1, <2>1, <2>2
  <1>4. CASE Foreign
    <2>1. UNCHANGED <<stage, reg, view, overtaken, silent>>
      BY <1>0, <1>4, ForeignFrames DEF holds, screen, ghosts
    <2>2. (lost => lost') /\ (Connected /\ ~lost' => Range(queue) \subseteq Range(queue'))
      BY <1>0, <1>4, ForeignFrames DEF Queued
    <2> QED BY <1>1, <2>1, <2>2
  <1>5. CASE Connect
    <2>1. view'.pending = {} /\ reg'.pc = "mode"
      BY <1>5, <1>0 DEF Connect, Dial, IdleReg, ViewType
    <2> QED BY <2>1 DEF Leaving
  <1>6. CASE Disconnect
    <2>1. ~Connected' BY <1>6 DEF Disconnect, IdleReg, Connected
    <2> QED BY <2>1 DEF Leaving
  <1>7. CASE Relay
    <2> DEFINE f == Head(queue)
    <2>1. f \in Frames /\ view' = Applied(f) /\ Range(queue) = {f} \cup Range(queue')
          /\ queue # <<>> /\ queue' = Tail(queue) /\ lost' = lost
      BY <1>7, <1>0, RelayTakes
    <2>2. /\ UNCHANGED <<stage, silent, reg>>
          /\ overtaken' = IF f.kind = "resolved" /\ reg.pc = "send"
                            THEN overtaken \cup {f.of} ELSE overtaken
      BY <1>7 DEF Relay, Daemon, holds, RegAt
    <2> SUFFICES ASSUME Connected, ~lost, stage[r] = "closed"
                 PROVE  /\ r \in view'.pending => Excused(r)'
                        /\ reg.pc = "send" /\ r \in reg.todo => Excused(r)'
      BY <2>1, <2>2 DEF Leaving, Connected
    <2>3. f # Told(r) /\ Excused(r) => Excused(r)' BY <2>1, <2>2 DEF Excused, Told
    <2>4. f.kind \in {"request", "resolved", "rules"} BY <2>1 DEF Frames
    <2>5. CASE f.kind = "request" /\ f.of = r
      <3>1. Len(queue) \in Nat \ {0} /\ f = queue[1] /\ Len(queue') = Len(queue) - 1
            /\ \A j \in 2..Len(queue) : j - 1 \in 1..Len(queue') /\ queue'[j - 1] = queue[j]
        BY <2>1, <1>0 DEF QueueType
      <3>2. r \in silent \/ \E j \in 2..Len(queue) : queue[j] = Told(r)
        BY <2>5, <3>1 DEF Followed
      <3>3. CASE \E j \in 2..Len(queue) : queue[j] = Told(r)
        <4>1. PICK j \in 2..Len(queue) : queue[j] = Told(r) BY <3>3
        <4>2. DOMAIN queue' = 1..Len(queue') BY <2>1, <1>0 DEF QueueType
        <4>3. Told(r) \in Range(queue') BY <3>1, <4>1, <4>2 DEF Range
        <4> QED BY <4>3 DEF Excused, Told
      <3> QED BY <2>2, <3>2, <3>3 DEF Excused
    <2>6. CASE f.kind = "resolved" /\ f.of = r
      <3>1. r \notin view'.pending BY <2>1, <2>6, <1>0, AppliedTyped DEF ViewType
      <3>2. reg.pc = "send" => r \in overtaken' BY <2>2, <2>6
      <3> QED BY <3>1, <3>2 DEF Excused
    <2>7. CASE f.kind = "rules" \/ f.of # r
      <3>1. f # Told(r) BY <2>7, FramesApart
      <3>2. r \in view'.pending => r \in view.pending
        BY <2>1, <2>4, <2>7, <1>0, AppliedTyped DEF ViewType
      <3> QED BY <2>3, <3>1, <3>2 DEF Leaving
    <2> QED BY <2>4, <2>5, <2>6, <2>7
  <1>8. CASE SendHold
    <2>1. PICK s \in reg.todo : Shows(Ask(s)) /\ reg' = [reg EXCEPT !.todo = @ \ {s}]
      BY <1>8 DEF SendHold
    <2>2. s \in Requests /\ reg.pc = "send" BY <2>1, <1>8, <1>0 DEF SendHold, RegAt, RegType
    <2>3. reg'.pc = "send" /\ reg'.todo = reg.todo \ {s} BY <2>1, <2>2, <1>0 DEF RegType
    <2>4. view' = IF view.ws = Own THEN [view EXCEPT !.pending = @ \cup {s}] ELSE view
      BY <2>1, <2>2, <1>0, FramesTyped, FramesApart, AppliedTyped DEF Shows
    <2>5. UNCHANGED <<stage, queue, lost, silent, overtaken>>
      BY <1>8 DEF SendHold, Daemon, holds, NoPublish, ghosts
    <2>6. view'.pending \subseteq view.pending \cup {s} BY <2>4, <1>0 DEF ViewType
    <2> QED BY <2>1, <2>2, <2>3, <2>5, <2>6 DEF Leaving, Excused, Connected, Told
  <1>9. CASE SnapshotHeld
    <2>1. UNCHANGED <<stage, queue, view, lost, silent, overtaken>>
      BY <1>9, RegistrationFrames DEF Registration, holds, SnapshotHeld, Reading
    <2>2. reg.pc = "filter" /\ reg'.todo \subseteq Held BY <1>9, <1>0 DEF SnapshotHeld, RegAt, RegType
    <2> QED BY <2>1, <2>2 DEF Leaving, Excused, Connected, Held, Told
  <1>10. CASE RegMode \/ RegActive \/ SendRules \/ SnapshotRows \/ Registered
    <2>1. UNCHANGED <<stage, queue, lost, silent, overtaken>>
      BY <1>10, RegistrationFrames DEF Registration, holds
    <2>2. reg'.pc # "send" /\ Connected
      <3>1. CASE SendRules BY <3>1 DEF SendRules, IdleReg, RegAt, Connected
      <3>2. CASE RegMode \/ RegActive \/ SnapshotRows \/ Registered
        BY <3>2, <1>0 DEF RegMode, RegActive, SnapshotRows, Registered, RegAt, RegTo,
           Connected, RegType
      <3> QED BY <1>10, <3>1, <3>2
    <2>3. view'.pending = view.pending
      <3>1. CASE SendRules
        <4>1. Rules(reg.facts) \in Frames /\ Rules(reg.facts).kind = "rules"
          BY <1>0, FramesTyped, FramesApart DEF RegType
        <4>2. view' = Applied(Rules(reg.facts)) BY <3>1 DEF SendRules, Shows
        <4> QED BY <4>1, <4>2, <1>0, AppliedTyped
      <3>2. CASE RegMode \/ RegActive \/ SnapshotRows \/ Registered
        BY <3>2 DEF RegMode, RegActive, SnapshotRows, Registered, Reading
      <3> QED BY <1>10, <3>1, <3>2
    <2> QED BY <2>1, <2>2, <2>3 DEF Leaving, Excused, Told
  <1>11. CASE UNCHANGED vars \/ Lapse
    BY <1>1, <1>11 DEF vars, holds, screen, ghosts, Lapse, NoPublish
  <1> QED BY <1>2, <1>3, <1>4, <1>5, <1>6, <1>7, <1>8, <1>9, <1>10, <1>11 DEF Next, Registration

\* The client knows its workspace, or has yet to learn it.
Open == view.ws = Own \/ ~view.ruled

\* What is shown keeps what was told, and adds the rules it carries.
LEMMA ShowsTells ==
  ASSUME view \in ViewType, NEW f \in Frames, Shows(f), Open'
  PROVE  /\ Open
         /\ told /\ view.ws = Own => told' /\ view'.ws = Own
         /\ f = Rules(facts) => told' /\ view'.ws = Own
  <1>1. view' = Applied(f) /\ (told' <=> told \/ (f = Rules(facts) /\ view'.ws = Own))
    BY DEF Shows
  <1>2. Open BY <1>1, AppliedTyped DEF Open
  <1>3. view.ws = Own => view'.ws = Own
    BY <1>1, AppliedTyped DEF Open
  <1>4. f = Rules(facts) => view'.ws = Own
    <2>1. SUFFICES ASSUME f = Rules(facts) PROVE view'.ws = Own
      OBVIOUS
    <2>2. f.kind = "rules" /\ f.ws = Own BY <2>1, FramesApart
    <2> QED BY <2>2, <1>1, <1>2, AppliedTyped DEF Open
  <1> QED BY <1>1, <1>2, <1>3, <1>4

\* A change is owed by whoever made it until its broadcast has read both halves,
\* then by the queue; or by a registration that has yet to read them.
LEMMA RulesCoveredStep ==
  ASSUME TypeOK, RulesCovered, [Next]_vars
  PROVE  RulesCovered'
  <1>0. QueueType /\ view \in ViewType /\ reg \in RegType /\ facts \in Facts
        /\ cast \in [Actors -> CastType]
    BY DEF TypeOK, QueueType
  <1> SUFFICES ASSUME Connected', ~lost', ~untold', Open'
               PROVE  \/ (told /\ view.ws = Own)'
                      \/ (Rules(facts) \in Range(queue))'
                      \/ RegWillTell'
                      \/ \E a \in Actors : WillTell(a)'
    BY DEF RulesCovered, Open
  <1> DEFINE Owed == \/ told /\ view.ws = Own
                     \/ Rules(facts) \in Range(queue)
                     \/ RegWillTell
                     \/ \E a \in Actors : WillTell(a)
  <1>a. Connected /\ ~lost /\ ~untold /\ Open => Owed BY DEF RulesCovered, Open
  <1>b. ASSUME UNCHANGED <<facts, told, view, reg>>,
               Connected /\ ~lost' => Range(queue) \subseteq Range(queue'),
               \A a \in Actors : WillTell(a) => WillTell(a)' \/ Rules(facts) \in Range(queue'),
               lost => lost', untold => untold'
        PROVE  Owed'
    <2>1. Owed BY <1>b, <1>a DEF Connected, Open
    <2> QED BY <2>1, <1>b DEF RegWillTell, Connected, Rules
  <1>1. ASSUME NEW r \in Requests, Hold(r) PROVE Owed'
    <2>0. r \in Actors BY DEF Actors
    <2>1. UNCHANGED <<reg, view>> /\ stage' = [stage EXCEPT ![r] = stage'[r]]
          /\ (lost => lost') /\ (Connected /\ ~lost' => Range(queue) \subseteq Range(queue'))
      BY <1>1, HoldSteps DEF Queued
    <2>2. \A s \in Requests : s # r => stage'[s] = stage[s] BY <2>1 DEF TypeOK
    <2>3. CASE DecideWrite(r)
      <3>1. stage'[r] = "decided" BY <2>3 DEF DecideWrite, Move, TypeOK
      <3> QED BY <2>0, <3>1 DEF WillTell
    <2>4. CASE DecideTell(r)
      <3>1. cast'[r].pc = "mode" BY <2>4, <2>0, <1>0 DEF DecideTell, BeginCast, CastType
      <3> QED BY <2>0, <3>1 DEF WillTell
    <2>5. CASE DecideCancelled(r)
      <3>1. stage[r] # "decided" /\ UNCHANGED <<facts, cast, told, untold>>
        BY <2>5 DEF DecideCancelled, rules, TypeOK
      <3>2. \A a \in Actors : WillTell(a) => WillTell(a)' BY <2>2, <3>1 DEF WillTell
      <3> QED BY <1>b, <2>1, <3>1, <3>2
    <2>6. CASE Store(r) \/ Register(r) \/ Abandon(r) \/ DecidePop(r) \/ DecideRefused(r)
               \/ ExpirePop(r) \/ ExpireTell(r)
      <3>1. UNCHANGED <<facts, cast, told, untold>>
        BY <2>6 DEF Store, Register, Abandon, DecidePop, DecideRefused, ExpirePop, ExpireTell, Plain,
           rules
      <3>2. stage[r] = "decided" => stage'[r] = "decided"
        BY <2>6 DEF Store, Register, Abandon, DecidePop, DecideRefused, ExpirePop, ExpireTell, Move,
           TypeOK, Plain
      <3>3. \A a \in Actors : WillTell(a) => WillTell(a)'
        BY <2>2, <3>1, <3>2 DEF WillTell
      <3> QED BY <1>b, <2>1, <3>1, <3>3
    <2> QED BY <1>1, <2>3, <2>4, <2>5, <2>6 DEF Hold
  <1>2. ASSUME NEW a \in Actors, Change(a) PROVE Owed'
    <2>1. UNCHANGED <<stage, reg, view>> BY <1>0, <1>2, ChangeFrames DEF holds, screen
    <2>2. CASE Revoke(a) \/ SwitchApplied(a)
      <3>1. cast'[a].pc = "mode" BY <2>2, <1>0 DEF Revoke, SwitchApplied, BeginCast, CastType
      <3> QED BY <3>1 DEF WillTell
    <2>3. CASE SwitchWrite(a)
      <3>1. cast'[a].pc = "swap" BY <2>3, <1>0 DEF SwitchWrite, CastType
      <3> QED BY <3>1 DEF WillTell
    <2>4. CASE SwitchFails(a) \/ CastCut(a) BY <2>4 DEF SwitchFails, CastCut
    <2>5. CASE CastMode(a)
      <3>1. cast'[a].pc = "active" /\ cast'[a].facts.mode = facts'.mode
        BY <2>5, <1>0 DEF CastMode
      <3> QED BY <3>1 DEF WillTell
    <2>6. CASE CastActive(a)
      <3> DEFINE new == [cast[a].facts EXCEPT !.active = facts.active]
      <3>1. Queued(Rules(new)) BY <1>0, <1>2, <2>6, ChangeFrames
      <3>2. UNCHANGED <<facts, told, untold>> BY <2>6 DEF CastActive
      <3>3. cast[a].facts \in Facts BY <1>0 DEF CastType
      <3>4. cast[a].pc = "active" /\ cast' = [cast EXCEPT ![a] = [pc |-> "done", facts |-> NoFacts]]
        BY <2>6 DEF CastActive
      <3>5. cast[a].facts.mode = facts.mode => new = facts BY <1>0, <3>3 DEF Facts
      <3>6. (lost => lost') /\ (Connected /\ ~lost' => Range(queue') = Range(queue) \cup {Rules(new)})
        BY <3>1 DEF Queued
      <3>7. Connected BY <2>1 DEF Connected
      <3>8. \A b \in Actors : b # a => cast'[b] = cast[b] BY <3>4, <1>0
      <3>9. \A b \in Actors : WillTell(b) => WillTell(b)' \/ Rules(facts) \in Range(queue')
        <4> SUFFICES ASSUME NEW b \in Actors, WillTell(b)
                     PROVE  WillTell(b)' \/ Rules(facts) \in Range(queue')
          OBVIOUS
        <4>1. CASE b # a BY <4>1, <2>1, <3>2, <3>8 DEF WillTell
        <4>2. CASE b \in Requests /\ stage[b] = "decided" BY <4>2, <2>1 DEF WillTell
        <4>3. CASE b = a /\ cast[a].facts.mode = facts.mode BY <4>3, <3>5, <3>6, <3>7
        <4> QED BY <3>4, <4>1, <4>2, <4>3 DEF WillTell
      <3> QED BY <1>b, <2>1, <3>2, <3>6, <3>9
    <2> QED BY <1>2, <2>2, <2>3, <2>4, <2>5, <2>6 DEF Change
  <1>3. CASE Foreign
    <2>1. UNCHANGED <<stage, facts, cast, told, view, reg, untold>>
      BY <1>0, <1>3, ForeignFrames DEF holds, rules, screen
    <2>2. (lost => lost') /\ (Connected /\ ~lost' => Range(queue) \subseteq Range(queue'))
      BY <1>0, <1>3, ForeignFrames DEF Queued
    <2>3. \A a \in Actors : WillTell(a) => WillTell(a)' BY <2>1 DEF WillTell
    <2> QED BY <1>b, <2>1, <2>2, <2>3
  <1>4. CASE Connect
    <2>1. reg'.pc = "mode" BY <1>4 DEF Connect, Dial, IdleReg
    <2> QED BY <2>1 DEF RegWillTell
  <1>5. CASE Disconnect
    <2>1. ~Connected' BY <1>5 DEF Disconnect, IdleReg, Connected
    <2> QED BY <2>1
  <1>6. CASE Relay
    <2> DEFINE f == Head(queue)
    <2>1. f \in Frames /\ Range(queue) = {f} \cup Range(queue') /\ lost' = lost /\ Connected
      BY <1>6, <1>0, RelayTakes
    <2>2. Shows(f) /\ UNCHANGED <<stage, facts, cast, untold, reg>>
      BY <1>6 DEF Relay, Daemon, holds, rules
    <2>3. /\ Open
          /\ told /\ view.ws = Own => told' /\ view'.ws = Own
          /\ f = Rules(facts) => told' /\ view'.ws = Own
      BY <2>1, <2>2, <1>0, ShowsTells
    <2>4. Owed BY <1>a, <2>1, <2>2, <2>3
    <2>5. CASE Rules(facts) \in Range(queue) BY <2>1, <2>2, <2>3, <2>5 DEF Rules
    <2>6. CASE RegWillTell BY <2>2, <2>6 DEF RegWillTell
    <2>7. CASE \E a \in Actors : WillTell(a) BY <2>2, <2>7 DEF WillTell
    <2> QED BY <2>3, <2>4, <2>5, <2>6, <2>7
  <1>7. CASE Registration
    <2>1. UNCHANGED <<stage, facts, cast, untold, queue, lost>>
      BY <1>7, RegistrationFrames DEF holds, rules
    <2>2. Connected
      BY <1>7 DEF Registration, RegMode, RegActive, SendRules, SnapshotRows, SnapshotHeld, SendHold,
         Registered, RegAt, Connected
    <2>3. /\ Open
          /\ told /\ view.ws = Own => told' /\ view'.ws = Own
          /\ SendRules /\ reg.facts = facts => told' /\ view'.ws = Own
      <3>1. CASE SendRules
        <4>1. Rules(reg.facts) \in Frames /\ Shows(Rules(reg.facts))
          BY <3>1, <1>0, FramesTyped DEF SendRules, RegType
        <4> QED BY <4>1, <1>0, ShowsTells
      <3>2. CASE SendHold
        <4>1. PICK r \in Requests : Shows(Ask(r)) BY <3>2, <1>0 DEF SendHold, RegType
        <4>2. reg.pc # "rules" BY <3>2 DEF SendHold, RegAt
        <4> QED BY <4>1, <4>2, <1>0, FramesTyped, ShowsTells DEF SendRules, RegAt
      <3>3. CASE UNCHANGED <<view, told>> /\ ~SendRules BY <3>3 DEF Open
      <3> QED BY <1>7, <3>1, <3>2, <3>3, RegistrationFrames
    <2>4. Owed BY <1>a, <2>1, <2>2, <2>3
    <2>5. CASE Rules(facts) \in Range(queue) BY <2>1, <2>5 DEF Rules
    <2>6. CASE \E a \in Actors : WillTell(a) BY <2>1, <2>6 DEF WillTell
    <2>7. CASE RegWillTell
      <3>1. CASE RegMode
        <4>1. reg'.pc = "active" /\ reg'.facts.mode = facts.mode
          BY <3>1, <1>0 DEF RegMode, RegType, Facts
        <4> QED BY <2>1, <4>1 DEF RegWillTell
      <3>2. CASE RegActive
        <4>1. reg.pc = "active" /\ reg.facts.mode = facts.mode
          BY <2>7, <3>2 DEF RegActive, RegAt, RegWillTell
        <4>2. reg'.pc = "rules" /\ reg'.facts = [reg.facts EXCEPT !.active = facts.active]
          BY <3>2, <1>0 DEF RegActive, RegType, Facts
        <4>3. reg'.facts = facts BY <4>1, <4>2, <1>0 DEF RegType, Facts
        <4> QED BY <2>1, <4>2, <4>3 DEF RegWillTell
      <3>3. CASE SendRules
        <4>1. reg.facts = facts BY <2>7, <3>3 DEF SendRules, RegAt, RegWillTell
        <4> QED BY <2>3, <3>3, <4>1
      <3>4. CASE SnapshotRows \/ SnapshotHeld \/ SendHold \/ Registered
        BY <2>7, <3>4 DEF SnapshotRows, SnapshotHeld, SendHold, Registered, RegAt, RegWillTell
      <3> QED BY <1>7, <3>1, <3>2, <3>3, <3>4 DEF Registration
    <2> QED BY <2>3, <2>4, <2>5, <2>6, <2>7
  <1>8. CASE UNCHANGED vars
    <2>1. UNCHANGED <<stage, facts, cast, told, view, reg, untold, queue, lost>>
      BY <1>8 DEF vars, holds, rules, screen
    <2>2. \A a \in Actors : WillTell(a) => WillTell(a)' BY <2>1 DEF WillTell
    <2> QED BY <1>b, <2>1, <2>2
  <1>9. CASE Lapse BY <1>9 DEF Lapse
  <1> QED BY <1>1, <1>2, <1>3, <1>4, <1>5, <1>6, <1>7, <1>8, <1>9 DEF Next

-------------------------------------------------------------------------------
\* Nothing is connected at first.
LEMMA InitHolds == Init => IInv
  <1> SUFFICES ASSUME Init PROVE IInv
    OBVIOUS
  <1>1. reg = [pc |-> "down", facts |-> NoFacts, todo |-> {}] /\ queue = <<>> /\ Range(queue) = {}
    BY DEF Init, IdleReg, Range
  <1>2. TypeOK
    <2>1. NoFacts \in Facts BY FramesTyped
    <2>2. view \in ViewType BY DEF Init, ViewType
    <2>3. cast \in [Actors -> CastType] /\ reg \in RegType
      BY <1>1, <2>1 DEF Init, CastType, RegType
    <2>4. queue \in Seq(Frames) /\ Len(queue) <= QueueMax BY <1>1, ViewAssumption
    <2>5. stage \in [Requests ->
            {"new", "stored", "held", "deciding", "decided", "refused", "expiring", "closed"}]
      BY DEF Init
    <2>6. waiting \subseteq Requests /\ facts \in Facts BY <2>1 DEF Init
    <2>7. connects \in 0..MaxConnects /\ outside \in 0..MaxOutside
      BY ViewAssumption DEF Init
    <2>8. overtaken \subseteq Requests \cup {Stray} /\ silent \subseteq Requests BY DEF Init
    <2>9. told \in BOOLEAN /\ untold \in BOOLEAN /\ lost \in BOOLEAN BY DEF Init
    <2> QED BY <2>2, <2>3, <2>4, <2>5, <2>6, <2>7, <2>8, <2>9 DEF TypeOK
  <1>3. OneSwap BY DEF Init, OneSwap
  <1> QED BY <1>1, <1>2, <1>3
       DEF IInv, RuledFirst, ToldClosed, Covered, Leaving, RulesCovered, Connected

\* The parts together are inductive.
LEMMA StepHolds == IInv /\ [Next]_vars => IInv'
  <1> SUFFICES ASSUME IInv, [Next]_vars PROVE IInv'
    OBVIOUS
  <1>1. TypeOK' /\ OneSwap' BY TypeStep, OneSwapStep DEF IInv
  <1>2. RuledFirst' /\ ToldClosed' BY RuledFirstStep, ToldClosedStep DEF IInv
  <1>3. \A r \in Requests : Covered(r)' BY CoveredStep DEF IInv
  <1>4. (Connected /\ ~lost => Followed)' BY FollowedStep DEF IInv
  <1>5. \A r \in Requests : Leaving(r)' BY LeavingStep DEF IInv
  <1>6. RulesCovered' BY RulesCoveredStep DEF IInv
  <1> QED BY <1>1, <1>2, <1>3, <1>4, <1>5, <1>6 DEF IInv

\* In every reachable state.
LEMMA Always == Spec => []IInv
  BY InitHolds, StepHolds, PTL DEF Spec

\* The types of the daemon, the hub's queue and the client, for any holds and changes.
THEOREM TypeCorrect == Spec => []TypeOK
  <1>1. IInv => TypeOK BY DEF IInv
  <1> QED BY <1>1, Always, PTL

\* A hold that stands is on every sound client's screen or on its way there.
THEOREM HoldsAreShown == Spec => []HoldsShown
  <1>1. IInv => HoldsShown BY DEF IInv, HoldsShown, Covered, Sound, RegAt, Held
  <1> QED BY <1>1, Always, PTL

\* What is on the screen stands, is about to leave, or is one of the exceptions.
THEOREM ScreensClear == Spec => []GhostsLeave
  <1>1. IInv => GhostsLeave BY DEF IInv, GhostsLeave, Leaving, Excused
  <1> QED BY <1>1, Always, PTL

\* No change of the rules goes untold to a sound client.
THEOREM ChangesAreTold == Spec => []RulesTold
  <1>1. IInv => RulesTold
    BY DEF IInv, RulesTold, RulesCovered, RegWillTell, Sound, RegAt, Connected
  <1> QED BY <1>1, Always, PTL

=================================================================================
