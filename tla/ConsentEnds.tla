------------------------------- MODULE ConsentEnds -------------------------------
(***************************************************************************)
(* How a request ends, for any workspaces, flows, decide requests, faults  *)
(* and restarts: deciders hear of it once and truthfully, its row is       *)
(* closed by somebody and alone at its destination, and its packet does    *)
(* not outlive the queue that held it.                                     *)
(*                                                                         *)
(* Each of these needs a strengthening of its own, which rests on the      *)
(* invariant of ConsentProofs: who may still speak of a request            *)
(* (FrameInv), who moves its row (RowInv), and where a workspace may stand *)
(* while a flow of it is alive (QueueInv).                                 *)
(***************************************************************************)
EXTENDS ConsentProofs, FiniteSetTheorems

(***************************************************************************)
(* Frames.                                                                 *)
(***************************************************************************)

\* A resolve that has popped f and has not published its frame.
Speaks(d, f) ==
  res[d].req = f /\ res[d].pc \in {"decide", "decided", "gone", "expire"}

\* Nothing was said of a request that is open or registered.
Unsaid ==
  \A f \in Flows : fut[f] \in {"none", "open"} \/ f \in holds => told[f] = <<>>

\* One resolve at most speaks of a request, and it speaks first.
OneSpeaker ==
  \A f \in Flows : \A d \in Resolvers : Speaks(d, f) =>
    /\ told[f] = <<>> /\ f \notin holds /\ fut[f] # "none"
    /\ \A e \in Resolvers : Speaks(e, f) => e = d

\* A resolve expires, cancels and ends only after the answer.
AnsweredFirst ==
  \A d \in Resolvers :
    res[d].pc \in {"expire", "tail", "abort"} =>
      fut[res[d].req] \notin {"none", "open"}

\* Whoever will say "expired" found no verdict.
Undecided ==
  \A f \in Flows :
    \/ f \in holds \/ TimerOwes(f)
    \/ \E t \in Teardowns : TeardownHas(t, f)
    \/ \E d \in Resolvers :
         res[d].req = f /\ res[d].pc \in {"decide", "gone", "expire"}
    => ruled[f] = "none"

\* A frame that was published agrees with the row.
Truthful ==
  \A f \in Flows :
    /\ told[f] = <<>> \/ \E label \in Labels : told[f] = <<label>>
    /\ \A v \in Verdicts : told[f] = <<v>> => ruled[f] = v

FrameInv ==
  Unsaid /\ OneSpeaker /\ AnsweredFirst /\ Undecided /\ Truthful
    /\ ExpiredMeansUnruled
-------------------------------------------------------------------------------

\* What publishes a frame.
LEMMA ToldFootprint ==
  TypeOK /\ [Next]_vars =>
    \/ UNCHANGED told
    \/ \E f \in Flows : TimerClose(f)
    \/ \E d \in Resolvers :
         ResolveFinish(d) \/ ResolveExpire(d) \/ ResolveCancelled(d)
    \/ \E t \in Teardowns : TeardownClose(t)
  BY DEF Next, vars, HoldStep, TimerStep, ResolveStep, TeardownStep,
    SwitchStep, Teardowns, Arrive, HoldMode, HoldRecord, HoldGate,
    HoldPending, HoldCap, HoldCreate, HoldFails, HoldRegister, Answered, GoTo,
    TimerPop, TimerExpire, RevokeFlip, RevokeForget, ResolvePop,
    ResolveDecide, ResolveGone, ResolveTail, ResolveAbort, TeardownPop,
    TeardownExpire, TeardownForget, TeardownClear, TeardownClearFails,
    Detached, EngineStopped, StopEngine, Detach, StopDetached, Attach,
    SwitchRetire, SwitchCommit, SwitchFails, SwitchReplay, SwitchUnattached,
    SwitchWrite, DeleteRows, DeleteWorkspace, Restart

\* A step that moves no task of a request says nothing and commits nothing.
LEMMA Silent ==
  ASSUME TypeOK, [Next]_vars,
         UNCHANGED <<timer, res, td>> \/ \E t \in Teardowns : Housekeeping(t)
  PROVE  UNCHANGED <<told, ruled>>
<1>type. /\ timer \in [Flows -> {"none", "armed", "expire", "close", "ended"}]
         /\ res \in [Resolvers -> ResolveType]
         /\ td \in [Teardowns -> TeardownType]
  BY DEF TypeOK
<1>1. UNCHANGED <<timer, res>>
  BY DEF Housekeeping
<1>2. ASSUME NEW d \in Resolvers,
             \/ ResolveDecide(d) \/ ResolveFinish(d) \/ ResolveExpire(d)
             \/ ResolveCancelled(d)
      PROVE  FALSE
  BY <1>1, <1>2, <1>type DEF ResolveDecide, ResolveFinish, ResolveExpire,
    ResolveCancelled, ResolveType
<1>3. ASSUME NEW f \in Flows, TimerClose(f) PROVE FALSE
  BY <1>1, <1>3, <1>type DEF TimerClose
<1>4. ASSUME NEW t \in Teardowns, TeardownClose(t) PROVE FALSE
  <2>1. td[t].pc = "close" /\ td'[t].pc = "loop"
    BY <1>4, <1>type DEF TeardownClose, TeardownType
  <2> QED
    BY <2>1 DEF Housekeeping
<1> QED
  BY <1>2, <1>3, <1>4, ToldFootprint, RuledFootprint

\* A first frame is the whole of what was said.
LEMMA FirstFrame ==
  /\ \A x : Append(<<>>, x) = <<x>>
  /\ \A x, y : <<x>> = <<y>> => x = y
  /\ \A x : <<x>> # <<>>
  OBVIOUS

\* The first frame of a request.
Said(f, label) == [told EXCEPT ![f] = <<label>>]

\* What one publication does to the frames of every request.
LEMMA Publishes ==
  ASSUME TypeOK, NEW f \in Flows, told[f] = <<>>
  PROVE  \A label : Published(f, label) = Said(f, label)
<1>1. told \in [Flows -> Seq(Labels)]
  BY DEF TypeOK
<1>2. \A label : Append(told[f], label) = <<label>>
  BY FirstFrame
<1> QED
  BY <1>1, <1>2 DEF Published, Said

\* A failed-closed hold is answered and said to have expired, or was answered
\* before.
LEMMA FailCloses ==
  ASSUME TypeOK, Unsaid, NEW f \in Flows, FailCloseHold(f)
  PROVE  \/ fut[f] = "open" /\ fut' = [fut EXCEPT ![f] = "deny"]
                            /\ told[f] = <<>> /\ told' = Said(f, "expired")
         \/ fut[f] # "open" /\ UNCHANGED <<fut, told>>
<1>1. CASE fut[f] = "open"
  BY <1>1, Publishes DEF FailCloseHold, Settled, Unsaid
<1>2. CASE fut[f] # "open"
  BY <1>2 DEF FailCloseHold, Settled
<1> QED
  BY <1>1, <1>2

\* Every frame is published by the one who still speaks of the request, or
\* together with the answer of an open hold.
LEMMA FrameStep ==
  TypeInv /\ Fresh /\ HoldInv /\ Committed /\ FrameInv /\ [Next]_vars
    => FrameInv'
<1> SUFFICES ASSUME TypeInv, Fresh, HoldInv, Committed, FrameInv, [Next]_vars
             PROVE  FrameInv'
  OBVIOUS
<1>type. /\ fut \in [Flows -> {"none", "open", "allow", "deny", "cancelled"}]
         /\ timer \in [Flows -> {"none", "armed", "expire", "close", "ended"}]
         /\ res \in [Resolvers -> ResolveType]
         /\ td \in [Teardowns -> TeardownType]
         /\ ruled \in [Flows -> Verdicts \cup {"none"}]
         /\ told \in [Flows -> Seq(Labels)]
         /\ holds \subseteq Flows
         /\ TypeOK
  BY DEF TypeInv, TypeOK
<1>inv. /\ Unheld /\ Exclusive /\ Owned
        /\ Unsaid /\ OneSpeaker /\ AnsweredFirst /\ Undecided /\ Truthful
        /\ ExpiredMeansUnruled
  BY DEF HoldInv, FrameInv
<1> USE DEF FrameInv
<1>1. CASE UNCHANGED <<holds, fut, timer, res, td>>
  <2>1. UNCHANGED <<told, ruled>>
    BY <1>1, <1>type, Silent
  <2> QED
    BY <1>1, <1>inv, <2>1 DEF Unsaid, OneSpeaker, AnsweredFirst, Undecided,
      Truthful, ExpiredMeansUnruled, Speaks, TimerOwes, TeardownHas
<1>2. ASSUME NEW f \in Flows, HoldRegister(f) PROVE FrameInv'
  <2>1. fut[f] = "none" /\ ruled[f] = "none" /\ told[f] = <<>>
    BY <1>2, <1>inv DEF HoldRegister, Fresh, Unsaid
  <2>2. /\ holds' = holds \cup {f}
        /\ fut' = [fut EXCEPT ![f] = "open"]
        /\ timer' = [timer EXCEPT ![f] = "armed"]
        /\ UNCHANGED <<res, td, told, ruled>>
    BY <1>2 DEF HoldRegister, GoTo, rowVars
  <2>3. /\ \A d \in Resolvers : ~Speaks(d, f)
        /\ \A d \in Resolvers : res[d].req = f =>
             res[d].pc \notin {"expire", "tail", "abort"}
    BY <1>inv, <2>1 DEF OneSpeaker, AnsweredFirst
  <2>4. Unsaid' /\ OneSpeaker' /\ AnsweredFirst'
    BY <1>type, <1>inv, <2>1, <2>2, <2>3
    DEF Unsaid, OneSpeaker, AnsweredFirst, Speaks
  <2>5. Undecided'
    BY <1>type, <1>inv, <2>1, <2>2 DEF Undecided, TimerOwes, TeardownHas
  <2>6. Truthful' /\ ExpiredMeansUnruled'
    BY <1>inv, <2>2 DEF Truthful, ExpiredMeansUnruled
  <2> QED
    BY <2>4, <2>5, <2>6
<1>3. ASSUME NEW f \in Flows, TimerPop(f) PROVE FrameInv'
  <2>1. /\ timer[f] = "armed"
        /\ timer' = [timer EXCEPT ![f] =
                       IF f \in holds THEN "expire" ELSE "ended"]
        /\ holds' = holds \ {f}
        /\ UNCHANGED <<fut, res, td, told, ruled>>
    BY <1>3 DEF TimerPop, taskVars, rowVars
  <2>2. Unsaid' /\ OneSpeaker' /\ AnsweredFirst'
    BY <1>inv, <2>1 DEF Unsaid, OneSpeaker, AnsweredFirst, Speaks
  <2>3. Undecided'
    BY <1>type, <1>inv, <2>1 DEF Undecided, TimerOwes, TeardownHas
  <2>4. Truthful' /\ ExpiredMeansUnruled'
    BY <1>inv, <2>1 DEF Truthful, ExpiredMeansUnruled
  <2> QED
    BY <2>2, <2>3, <2>4
<1>4. ASSUME NEW f \in Flows, TimerExpire(f) PROVE FrameInv'
  <2>1. /\ timer[f] = "expire"
        /\ timer' = [timer EXCEPT ![f] = "close"]
        /\ UNCHANGED <<holds, fut, res, td, told, ruled>>
    BY <1>4 DEF TimerExpire, TryExpire, taskVars
  <2>2. Unsaid' /\ OneSpeaker' /\ AnsweredFirst'
    BY <1>inv, <2>1 DEF Unsaid, OneSpeaker, AnsweredFirst, Speaks
  <2>3. Undecided'
    BY <1>type, <1>inv, <2>1 DEF Undecided, TimerOwes, TeardownHas
  <2>4. Truthful' /\ ExpiredMeansUnruled'
    BY <1>inv, <2>1 DEF Truthful, ExpiredMeansUnruled
  <2> QED
    BY <2>2, <2>3, <2>4
<1>close. ASSUME NEW f \in Flows, FailCloseHold(f), UNCHANGED <<holds, ruled>>,
                 f \notin holds,
                 \A d \in Resolvers, g \in Flows : Speaks(d, g)' => Speaks(d, g),
                 fut[f] = "open" => \A d \in Resolvers : ~Speaks(d, f)',
                 fut[f] = "open" /\ ~CancelRequests => ruled[f] = "none"
          PROVE  Unsaid' /\ OneSpeaker' /\ Truthful' /\ ExpiredMeansUnruled'
  <2>1. CASE fut[f] # "open" /\ UNCHANGED <<fut, told>>
    <3>1. Unsaid' /\ Truthful' /\ ExpiredMeansUnruled'
      BY <1>close, <1>inv, <2>1 DEF Unsaid, Truthful, ExpiredMeansUnruled
    <3>2. OneSpeaker'
      BY <1>close, <1>inv, <2>1 DEF OneSpeaker
    <3> QED
      BY <3>1, <3>2
  <2>2. CASE /\ fut[f] = "open" /\ fut' = [fut EXCEPT ![f] = "deny"]
             /\ told[f] = <<>> /\ told' = Said(f, "expired")
    <3>1. /\ told'[f] = <<"expired">> /\ fut'[f] = "deny"
          /\ \A g \in Flows : g # f => told'[g] = told[g] /\ fut'[g] = fut[g]
      BY <1>type, <2>2 DEF Said
    <3>2. Unsaid'
      BY <1>close, <1>inv, <3>1 DEF Unsaid
    <3>3. OneSpeaker'
      BY <1>close, <1>inv, <2>2, <3>1 DEF OneSpeaker
    <3>4. Truthful'
      <4>1. "expired" \in Labels /\ "expired" \notin Verdicts
        BY DEF Labels, Verdicts
      <4> QED
        BY <1>close, <1>inv, <3>1, <4>1, FirstFrame DEF Truthful
    <3>5. ExpiredMeansUnruled'
      BY <1>close, <1>inv, <2>2, <3>1 DEF ExpiredMeansUnruled
    <3> QED
      BY <3>2, <3>3, <3>4, <3>5
  <2> QED
    BY <1>close, <1>type, <1>inv, <2>1, <2>2, FailCloses
<1>5. ASSUME NEW f \in Flows, TimerClose(f) PROVE FrameInv'
  <2>1. /\ timer[f] = "close"
        /\ timer' = [timer EXCEPT ![f] = "ended"]
        /\ FailCloseHold(f)
        /\ UNCHANGED <<holds, res, td, ruled>>
    BY <1>5 DEF TimerClose, taskVars, rowVars
  <2>2. f \notin holds /\ ruled[f] = "none" /\ TimerOwes(f)
    BY <1>inv, <2>1 DEF Exclusive, Undecided, TimerOwes
  <2>3. \A d, g : Speaks(d, g)' <=> Speaks(d, g)
    BY <2>1 DEF Speaks
  <2>4. fut[f] = "open" => \A d \in Resolvers : ~Speaks(d, f)
    BY <1>inv, <2>2 DEF Exclusive, AnsweredFirst, Speaks, ResolverHas
  <2>5. Unsaid' /\ OneSpeaker' /\ Truthful' /\ ExpiredMeansUnruled'
    BY <1>close, <2>1, <2>2, <2>3, <2>4
  <2>6. AnsweredFirst'
    BY <1>type, <1>inv, <2>1 DEF AnsweredFirst, FailCloseHold, Settled
  <2>7. Undecided'
    BY <1>type, <1>inv, <2>1 DEF Undecided, TimerOwes, TeardownHas
  <2> QED
    BY <2>5, <2>6, <2>7
<1>6. ASSUME NEW d \in Resolvers, ResolvePop(d) PROVE FrameInv'
  <2>1. PICK f \in holds, verdict \in Verdicts, duration \in Offered :
          /\ holds' = holds \ {f}
          /\ timer' = Cancelled(f)
          /\ res' = [res EXCEPT ![d] = [pc |-> "decide", req |-> f,
                       verdict |-> verdict, duration |-> duration]]
    BY <1>6 DEF ResolvePop
  <2>2. UNCHANGED <<fut, td, told, ruled>> /\ res[d].pc = "idle" /\ f \in Flows
    BY <1>6, <1>type DEF ResolvePop, rowVars
  <2>3. timer[f] = "armed" /\ timer' = [timer EXCEPT ![f] = "ended"]
    BY <1>inv, <2>1, <2>2 DEF Exclusive, Cancelled
  <2>4. \A e \in Resolvers, g \in Flows :
          Speaks(e, g)' <=> IF e = d THEN g = f ELSE Speaks(e, g)
    BY <1>type, <2>1 DEF Speaks
  <2>5. fut[f] # "none" /\ told[f] = <<>> /\ ruled[f] = "none"
    BY <1>inv, <2>1, <2>2 DEF Unheld, Unsaid, Undecided
  <2>6. Unsaid' /\ Truthful' /\ ExpiredMeansUnruled'
    BY <1>inv, <2>1, <2>2 DEF Unsaid, Truthful, ExpiredMeansUnruled
  <2>7. OneSpeaker'
    BY <1>inv, <2>1, <2>2, <2>4, <2>5 DEF OneSpeaker
  <2>8. AnsweredFirst'
    BY <1>type, <1>inv, <2>1, <2>2 DEF AnsweredFirst
  <2>9. Undecided'
    <3>1. \A e \in Resolvers : e # d => res'[e] = res[e]
      BY <1>type, <2>1
    <3>2. res'[d].req = f
      BY <1>type, <2>1
    <3>3. \A t, g : TeardownHas(t, g)' <=> TeardownHas(t, g)
      BY <2>2 DEF TeardownHas
    <3> QED
      BY <1>type, <1>inv, <2>1, <2>2, <2>3, <2>5, <3>1, <3>2, <3>3
      DEF Undecided, TimerOwes
  <2> QED
    BY <2>6, <2>7, <2>8, <2>9
<1>7. ASSUME NEW d \in Resolvers, ResolveDecide(d) PROVE FrameInv'
  <2> DEFINE f == res[d].req
  <2>1. /\ res[d].pc = "decide"
        /\ UNCHANGED <<holds, fut, timer, td, told>>
        /\ \/ /\ ruled' = [ruled EXCEPT ![f] = res[d].verdict]
              /\ res' = [res EXCEPT ![d].pc = "decided"]
           \/ ruled' = ruled /\ res' = [res EXCEPT ![d].pc = "gone"]
    BY <1>7 DEF ResolveDecide, memVars
  <2>2. f \in Flows
    BY <2>1 DEF TypeInv, TasksName
  <2>3. \A e \in Resolvers : /\ e # d => res'[e] = res[e]
                             /\ res'[e].req = res[e].req
    BY <1>type, <2>1 DEF ResolveType
  <2>4. res'[d].pc \in {"decided", "gone"}
    BY <1>type, <2>1 DEF ResolveType
  <2>5. Speaks(d, f) /\ ResolverHas(d, f)
    BY <2>1 DEF Speaks, ResolverHas
  <2>6. /\ told[f] = <<>> /\ f \notin holds /\ ruled[f] = "none"
        /\ \A e \in Resolvers : Speaks(e, f) => e = d
        /\ ~TimerOwes(f) /\ \A t \in Teardowns : ~TeardownHas(t, f)
    BY <1>inv, <2>1, <2>2, <2>5 DEF OneSpeaker, Exclusive, Undecided
  <2>7. \A e \in Resolvers, g \in Flows : Speaks(e, g)' <=> Speaks(e, g)
    BY <2>1, <2>3, <2>4 DEF Speaks
  <2>8. \A t, g : TeardownHas(t, g)' <=> TeardownHas(t, g)
    BY <2>1 DEF TeardownHas
  <2>9. \A g \in Flows : ruled'[g] = ruled[g] \/ g = f
    BY <1>type, <2>1
  <2>10. Unsaid' /\ OneSpeaker'
    BY <1>inv, <2>1, <2>7 DEF Unsaid, OneSpeaker
  <2>11. AnsweredFirst'
    BY <1>inv, <2>1, <2>3, <2>4 DEF AnsweredFirst
  <2>12. Undecided'
    <3> SUFFICES ASSUME NEW g \in Flows,
                   \/ g \in holds' \/ TimerOwes(g)'
                   \/ \E t \in Teardowns : TeardownHas(t, g)'
                   \/ \E e \in Resolvers :
                        res'[e].req = g /\ res'[e].pc \in {"decide", "gone", "expire"}
                 PROVE  ruled'[g] = "none"
      BY DEF Undecided
    <3>1. CASE g # f
      <4>1. ruled'[g] = ruled[g]
        BY <2>9, <3>1
      <4>2. TimerOwes(g)' <=> TimerOwes(g)
        BY <2>1 DEF TimerOwes
      <4>3. \A e \in Resolvers :
              res'[e].req = g => res'[e] = res[e]
        BY <2>3, <3>1
      <4> QED
        BY <1>inv, <2>1, <2>8, <4>1, <4>2, <4>3 DEF Undecided
    <3>2. CASE g = f
      <4>1. PICK e \in Resolvers :
              res'[e].req = g /\ res'[e].pc \in {"decide", "gone", "expire"}
        BY <2>1, <2>6, <2>8, <3>2 DEF TimerOwes
      <4>2. e = d
        BY <2>3, <2>4, <2>6, <3>2, <4>1 DEF Speaks
      <4>3. ruled' = ruled
        BY <1>type, <2>1, <4>1, <4>2 DEF ResolveType
      <4> QED
        BY <2>6, <3>2, <4>3
    <3> QED
      BY <3>1, <3>2
  <2>13. Truthful'
    BY <1>inv, <2>1, <2>6, <2>9, FirstFrame DEF Truthful
  <2>14. ExpiredMeansUnruled'
    BY <1>inv, <2>1, <2>6, <2>9, FirstFrame DEF ExpiredMeansUnruled
  <2> QED
    BY <2>10, <2>11, <2>12, <2>13, <2>14
<1>8. ASSUME NEW d \in Resolvers, ResolveFinish(d) PROVE FrameInv'
  <2> DEFINE f == res[d].req
             ruling == res[d].verdict
             answer == IF ruling = "allowed" THEN "allow" ELSE "deny"
  <2>1. /\ res[d].pc = "decided"
        /\ res' = [res EXCEPT ![d].pc = "tail"]
        /\ fut' = Settled(f, answer)
        /\ told' = Published(f, ruling)
        /\ UNCHANGED <<holds, timer, td, ruled>>
    BY <1>8 DEF ResolveFinish, Finish, rowVars
  <2>2. f \in Flows /\ ruling \in Verdicts
    BY <2>1 DEF TypeInv, TasksName
  <2>3. /\ Speaks(d, f) /\ ResolverHas(d, f)
        /\ told[f] = <<>> /\ f \notin holds /\ fut[f] # "none"
        /\ \A e \in Resolvers : Speaks(e, f) => e = d
        /\ ruled[f] = ruling
    BY <1>inv, <2>1, <2>2 DEF OneSpeaker, Committed, Speaks, ResolverHas
  <2>4. \A e \in Resolvers : /\ e # d => res'[e] = res[e]
                             /\ res'[e].req = res[e].req
    BY <1>type, <2>1 DEF ResolveType
  <2>5. res'[d].pc = "tail"
    BY <1>type, <2>1 DEF ResolveType
  <2>6. \A e \in Resolvers, g \in Flows :
          Speaks(e, g)' <=> e # d /\ Speaks(e, g)
    BY <2>1, <2>3, <2>4, <2>5 DEF Speaks
  <2>7. /\ told' = Said(f, ruling) /\ told'[f] = <<ruling>>
        /\ \A g \in Flows : g # f => told'[g] = told[g]
    <3>1. told' = Said(f, ruling)
      BY <1>type, <2>1, <2>2, <2>3, Publishes
    <3> HIDE DEF f, ruling
    <3> QED
      BY <1>type, <2>2, <3>1 DEF Said
  <2>8. /\ fut'[f] \notin {"none", "open"}
        /\ \A g \in Flows : g # f => fut'[g] = fut[g]
    <3>1. answer \in {"allow", "deny"}
      OBVIOUS
    <3> HIDE DEF f, answer
    <3> QED
      BY <1>type, <2>1, <2>2, <2>3, <3>1 DEF Settled
  <2> HIDE DEF f, ruling, answer
  <2>9. Unsaid'
    BY <1>inv, <2>1, <2>3, <2>7, <2>8 DEF Unsaid
  <2>10. OneSpeaker'
    BY <1>inv, <2>1, <2>3, <2>6, <2>7, <2>8 DEF OneSpeaker
  <2>11. AnsweredFirst'
    <3>1. \A e \in Resolvers : res'[e].pc \in {"expire", "tail", "abort"} =>
            res[e].req \in Flows
      BY <2>4, <2>1 DEF TypeInv, TasksName
    <3>2. ASSUME NEW e \in Resolvers,
                 res'[e].pc \in {"expire", "tail", "abort"}
          PROVE  fut'[res'[e].req] \notin {"none", "open"}
      <4>1. CASE e = d
        BY <2>4, <2>8, <4>1 DEF f
      <4>2. CASE e # d
        <5>1. fut[res[e].req] \notin {"none", "open"} /\ res'[e] = res[e]
          BY <1>inv, <2>4, <3>2, <4>2 DEF AnsweredFirst
        <5> QED
          BY <2>8, <3>1, <3>2, <5>1
      <4> QED
        BY <4>1, <4>2
    <3> QED
      BY <3>2 DEF AnsweredFirst
  <2>12. Undecided'
    <3>1. \A g \in Flows : TimerOwes(g)' <=> TimerOwes(g)
      BY <2>1 DEF TimerOwes
    <3>2. \A t, g : TeardownHas(t, g)' <=> TeardownHas(t, g)
      BY <2>1 DEF TeardownHas
    <3>3. \A e \in Resolvers : res'[e].pc \in {"decide", "gone", "expire"} =>
            res'[e] = res[e]
      BY <2>4, <2>5
    <3> QED
      BY <1>inv, <2>1, <3>1, <3>2, <3>3 DEF Undecided
  <2>13. Truthful'
    BY <1>inv, <2>1, <2>2, <2>3, <2>7, FirstFrame DEF Truthful, Labels
  <2>14. ExpiredMeansUnruled'
    <3>1. ruling # "expired"
      BY <2>2 DEF Verdicts
    <3> QED
      BY <1>inv, <2>1, <2>7, <3>1, FirstFrame DEF ExpiredMeansUnruled
  <2> QED
    BY <2>9, <2>10, <2>11, <2>12, <2>13, <2>14
<1>9. ASSUME NEW d \in Resolvers, ResolveGone(d) PROVE FrameInv'
  <2> DEFINE f == res[d].req
  <2>1. /\ res[d].pc = "gone"
        /\ res' = [res EXCEPT ![d].pc = "expire"]
        /\ fut' = Settled(f, "deny")
        /\ UNCHANGED <<holds, timer, td, ruled, told>>
    BY <1>9 DEF ResolveGone, Finish, rowVars
  <2>2. f \in Flows
    BY <2>1 DEF TypeInv, TasksName
  <2>3. Speaks(d, f) /\ fut[f] # "none"
    BY <1>inv, <2>1, <2>2 DEF OneSpeaker, Speaks
  <2>4. \A e \in Resolvers : /\ e # d => res'[e] = res[e]
                             /\ res'[e].req = res[e].req
    BY <1>type, <2>1 DEF ResolveType
  <2>5. res'[d].pc = "expire"
    BY <1>type, <2>1 DEF ResolveType
  <2>6. \A e \in Resolvers, g \in Flows : Speaks(e, g)' <=> Speaks(e, g)
    BY <2>1, <2>4, <2>5 DEF Speaks
  <2>7. /\ fut'[f] \notin {"none", "open"}
        /\ \A g \in Flows : g # f => fut'[g] = fut[g]
    BY <1>type, <2>1, <2>2, <2>3 DEF Settled
  <2> HIDE DEF f
  <2>8. Unsaid' /\ OneSpeaker'
    BY <1>inv, <2>1, <2>2, <2>6, <2>7 DEF Unsaid, OneSpeaker
  <2>9. AnsweredFirst'
    <3>1. \A e \in Resolvers : res'[e].pc \in {"expire", "tail", "abort"} =>
            res[e].req \in Flows
      BY <2>4, <2>1 DEF TypeInv, TasksName
    <3> QED
      BY <1>inv, <2>4, <2>5, <2>7, <3>1 DEF AnsweredFirst, f
  <2>10. Undecided'
    <3>1. \A g \in Flows : TimerOwes(g)' <=> TimerOwes(g)
      BY <2>1 DEF TimerOwes
    <3>2. \A t, g : TeardownHas(t, g)' <=> TeardownHas(t, g)
      BY <2>1 DEF TeardownHas
    <3>3. \A e \in Resolvers :
            res'[e].pc \in {"decide", "gone", "expire"} =>
              res[e].pc \in {"decide", "gone", "expire"}
      BY <2>1, <2>4
    <3> QED
      BY <1>inv, <2>1, <2>4, <3>1, <3>2, <3>3 DEF Undecided
  <2>11. Truthful' /\ ExpiredMeansUnruled'
    BY <1>inv, <2>1 DEF Truthful, ExpiredMeansUnruled
  <2> QED
    BY <2>8, <2>9, <2>10, <2>11
<1>10. ASSUME NEW d \in Resolvers, ResolveExpire(d) PROVE FrameInv'
  <2> DEFINE f == res[d].req
  <2>1. /\ res[d].pc = "expire"
        /\ res' = [res EXCEPT ![d].pc = "tail"]
        /\ told' = Published(f, "expired")
        /\ UNCHANGED <<holds, fut, timer, td, ruled>>
    BY <1>10 DEF ResolveExpire, TryExpire, memVars
  <2>2. f \in Flows
    BY <2>1 DEF TypeInv, TasksName
  <2>3. /\ Speaks(d, f) /\ told[f] = <<>> /\ f \notin holds
        /\ fut[f] \notin {"none", "open"} /\ ruled[f] = "none"
        /\ \A e \in Resolvers : Speaks(e, f) => e = d
    BY <1>inv, <2>1, <2>2
    DEF OneSpeaker, AnsweredFirst, Undecided, Speaks
  <2>4. \A e \in Resolvers : /\ e # d => res'[e] = res[e]
                             /\ res'[e].req = res[e].req
    BY <1>type, <2>1 DEF ResolveType
  <2>5. res'[d].pc = "tail"
    BY <1>type, <2>1 DEF ResolveType
  <2>6. \A e \in Resolvers, g \in Flows :
          Speaks(e, g)' <=> e # d /\ Speaks(e, g)
    BY <2>1, <2>3, <2>4, <2>5 DEF Speaks
  <2>7. /\ told'[f] = <<"expired">>
        /\ \A g \in Flows : g # f => told'[g] = told[g]
    BY <1>type, <2>1, <2>2, <2>3, Publishes DEF Said
  <2>8. AnsweredFirst'
    BY <1>inv, <2>1, <2>4, <2>5 DEF AnsweredFirst
  <2> HIDE DEF f
  <2>9. Unsaid' /\ OneSpeaker'
    BY <1>inv, <2>1, <2>3, <2>6, <2>7 DEF Unsaid, OneSpeaker
  <2>10. Undecided'
    <3>1. \A g \in Flows : TimerOwes(g)' <=> TimerOwes(g)
      BY <2>1 DEF TimerOwes
    <3>2. \A t, g : TeardownHas(t, g)' <=> TeardownHas(t, g)
      BY <2>1 DEF TeardownHas
    <3>3. \A e \in Resolvers : res'[e].pc \in {"decide", "gone", "expire"} =>
            res'[e] = res[e]
      BY <2>4, <2>5
    <3> QED
      BY <1>inv, <2>1, <3>1, <3>2, <3>3 DEF Undecided
  <2>11. Truthful'
    <3>1. "expired" \in Labels /\ "expired" \notin Verdicts
      BY DEF Labels, Verdicts
    <3> QED
      BY <1>inv, <2>1, <2>7, <3>1, FirstFrame DEF Truthful
  <2>12. ExpiredMeansUnruled'
    BY <1>inv, <2>1, <2>3, <2>7 DEF ExpiredMeansUnruled
  <2> QED
    BY <2>8, <2>9, <2>10, <2>11, <2>12
<1>11. ASSUME NEW d \in Resolvers, ResolveTail(d) \/ ResolveAbort(d)
       PROVE  FrameInv'
  <2>1. /\ res[d].pc \in {"tail", "abort"}
        /\ res' = [res EXCEPT ![d] = IdleResolve]
        /\ UNCHANGED <<holds, fut, timer, td, ruled, told>>
    BY <1>11 DEF ResolveTail, ResolveAbort, TryExpire, memVars, rowVars
  <2>2. \A e \in Resolvers : e # d => res'[e] = res[e]
    BY <1>type, <2>1
  <2>3. res'[d].pc = "idle"
    BY <1>type, <2>1 DEF IdleResolve
  <2>4. \A e \in Resolvers, g \in Flows : Speaks(e, g)' <=> Speaks(e, g)
    BY <2>1, <2>2, <2>3 DEF Speaks
  <2>5. Unsaid' /\ OneSpeaker' /\ AnsweredFirst'
    BY <1>inv, <2>1, <2>2, <2>3, <2>4 DEF Unsaid, OneSpeaker, AnsweredFirst
  <2>6. Undecided'
    <3>1. \A g \in Flows : TimerOwes(g)' <=> TimerOwes(g)
      BY <2>1 DEF TimerOwes
    <3>2. \A t, g : TeardownHas(t, g)' <=> TeardownHas(t, g)
      BY <2>1 DEF TeardownHas
    <3> QED
      BY <1>inv, <2>1, <2>2, <2>3, <3>1, <3>2 DEF Undecided
  <2>7. Truthful' /\ ExpiredMeansUnruled'
    BY <1>inv, <2>1 DEF Truthful, ExpiredMeansUnruled
  <2> QED
    BY <2>5, <2>6, <2>7
<1>12. ASSUME NEW d \in Resolvers, ResolveCancelled(d) PROVE FrameInv'
  <2> DEFINE f == res[d].req
  <2>1. /\ CancelRequests
        /\ res[d].pc \in {"decide", "decided", "gone", "expire", "tail"}
        /\ FailCloseHold(f)
        /\ res' = [res EXCEPT ![d].pc = "abort"]
        /\ UNCHANGED <<holds, timer, td, ruled>>
    BY <1>12 DEF ResolveCancelled, rowVars
  <2>2. f \in Flows
    BY <2>1 DEF TypeInv, TasksName
  <2>3. \A e \in Resolvers : /\ e # d => res'[e] = res[e]
                             /\ res'[e].req = res[e].req
    BY <1>type, <2>1 DEF ResolveType
  <2>4. res'[d].pc = "abort"
    BY <1>type, <2>1 DEF ResolveType
  <2>5. \A e \in Resolvers, g \in Flows :
          Speaks(e, g)' <=> e # d /\ Speaks(e, g)
    BY <2>1, <2>3, <2>4 DEF Speaks
  <2>6. fut[f] # "none"
    BY <1>inv, <2>1, <2>2 DEF OneSpeaker, AnsweredFirst, Speaks
  <2>7. ASSUME fut[f] = "open"
        PROVE  Unsaid' /\ OneSpeaker' /\ Truthful' /\ ExpiredMeansUnruled'
    <3>1. Speaks(d, f)
      BY <1>inv, <2>1, <2>7 DEF AnsweredFirst, Speaks
    <3>2. f \notin holds /\ \A e \in Resolvers : Speaks(e, f) => e = d
      BY <1>inv, <2>2, <3>1 DEF OneSpeaker
    <3> QED
      BY <1>close, <2>1, <2>2, <2>5, <3>1, <3>2
  <2>8. ASSUME fut[f] # "open"
        PROVE  Unsaid' /\ OneSpeaker' /\ Truthful' /\ ExpiredMeansUnruled'
    <3>1. UNCHANGED <<fut, told>>
      BY <1>type, <1>inv, <2>1, <2>2, <2>8, FailCloses
    <3> QED
      BY <1>inv, <2>1, <2>5, <3>1
      DEF Unsaid, OneSpeaker, Truthful, ExpiredMeansUnruled
  <2>9. /\ fut'[f] \notin {"none", "open"}
        /\ \A g \in Flows : g # f => fut'[g] = fut[g]
    BY <1>type, <2>1, <2>2, <2>6 DEF FailCloseHold, Settled
  <2>10. AnsweredFirst'
    <3>1. \A e \in Resolvers : res'[e].pc \in {"expire", "tail", "abort"} =>
            res[e].req \in Flows
      BY <2>3, <2>1 DEF TypeInv, TasksName
    <3> QED
      BY <1>inv, <2>3, <2>4, <2>9, <3>1 DEF AnsweredFirst
  <2>11. Undecided'
    <3>1. \A g \in Flows : TimerOwes(g)' <=> TimerOwes(g)
      BY <2>1 DEF TimerOwes
    <3>2. \A t, g : TeardownHas(t, g)' <=> TeardownHas(t, g)
      BY <2>1 DEF TeardownHas
    <3>3. \A e \in Resolvers : res'[e].pc \in {"decide", "gone", "expire"} =>
            res'[e] = res[e]
      BY <2>3, <2>4
    <3> QED
      BY <1>inv, <2>1, <3>1, <3>2, <3>3 DEF Undecided
  <2>12. Unsaid' /\ OneSpeaker' /\ Truthful' /\ ExpiredMeansUnruled'
    BY <2>7, <2>8
  <2> QED
    BY <2>10, <2>11, <2>12
<1>13. ASSUME NEW t \in Teardowns, TeardownPop(t) PROVE FrameInv'
  <2>1. PICK f \in td[t].todo \cap holds :
          /\ holds' = holds \ {f}
          /\ td' = [td EXCEPT ![t].pc = "expire", ![t].cur = f,
                              ![t].todo = @ \ {f}]
    BY <1>13 DEF TeardownPop
  <2>2. /\ UNCHANGED <<fut, timer, res, told, ruled>>
        /\ td[t].pc = "loop" /\ f \in Flows
    BY <1>13, <1>type DEF TeardownPop, rowVars
  <2>3. \A u \in Teardowns, g \in Flows :
          TeardownHas(u, g)' <=> IF u = t THEN g = f ELSE TeardownHas(u, g)
    BY <1>type, <2>1 DEF TeardownHas, TeardownType
  <2>4. Unsaid' /\ OneSpeaker' /\ AnsweredFirst'
    BY <1>inv, <2>1, <2>2 DEF Unsaid, OneSpeaker, AnsweredFirst, Speaks
  <2>5. Undecided'
    BY <1>inv, <2>1, <2>2, <2>3 DEF Undecided, TimerOwes
  <2>6. Truthful' /\ ExpiredMeansUnruled'
    BY <1>inv, <2>2 DEF Truthful, ExpiredMeansUnruled
  <2> QED
    BY <2>4, <2>5, <2>6
<1>14. ASSUME NEW t \in Teardowns, TeardownExpire(t) PROVE FrameInv'
  <2>1. /\ td[t].pc = "expire"
        /\ td' = [td EXCEPT ![t].pc = "close"]
        /\ UNCHANGED <<holds, fut, timer, res, told, ruled>>
    BY <1>14 DEF TeardownExpire, TryExpire, memVars
  <2>2. \A u \in Teardowns, g \in Flows : TeardownHas(u, g)' <=> TeardownHas(u, g)
    BY <1>type, <2>1 DEF TeardownHas, TeardownType
  <2> QED
    BY <1>inv, <2>1, <2>2 DEF Unsaid, OneSpeaker, AnsweredFirst, Undecided,
      Truthful, ExpiredMeansUnruled, Speaks, TimerOwes
<1>15. ASSUME NEW t \in Teardowns, TeardownClose(t) PROVE FrameInv'
  <2> DEFINE f == td[t].cur
  <2>1. /\ td[t].pc = "close"
        /\ td' = [td EXCEPT ![t].pc = "loop", ![t].cur = NoFlow]
        /\ FailCloseHold(f)
        /\ timer' = Cancelled(f)
        /\ UNCHANGED <<holds, res, ruled>>
    BY <1>15 DEF TeardownClose, rowVars
  <2>2. f \in Flows
    BY <2>1 DEF TypeInv, TasksName
  <2>3. TeardownHas(t, f) /\ f \notin holds /\ ruled[f] = "none"
    BY <1>inv, <2>1, <2>2 DEF TeardownHas, Exclusive, Undecided
  <2>4. \A d, g : Speaks(d, g)' <=> Speaks(d, g)
    BY <2>1 DEF Speaks
  <2>5. fut[f] = "open" => \A d \in Resolvers : ~Speaks(d, f)
    BY <1>inv, <2>2, <2>3 DEF Exclusive, AnsweredFirst, Speaks, ResolverHas
  <2>6. Unsaid' /\ OneSpeaker' /\ Truthful' /\ ExpiredMeansUnruled'
    BY <1>close, <2>1, <2>2, <2>3, <2>4, <2>5
  <2>7. AnsweredFirst'
    <3>1. \A e \in Resolvers : res[e].pc \in {"expire", "tail", "abort"} =>
            res[e].req \in Flows
      BY DEF TypeInv, TasksName
    <3>2. \A g \in Flows : fut[g] \notin {"none", "open"} => fut'[g] = fut[g]
      BY <1>type, <2>1, <2>2 DEF FailCloseHold, Settled
    <3> QED
      BY <1>inv, <2>1, <3>1, <3>2 DEF AnsweredFirst
  <2>8. Undecided'
    <3>1. \A u \in Teardowns, g \in Flows : TeardownHas(u, g)' => TeardownHas(u, g)
      BY <1>type, <2>1 DEF TeardownHas, TeardownType
    <3>2. \A g \in Flows : TimerOwes(g)' => TimerOwes(g)
      BY <1>type, <2>1, <2>2 DEF TimerOwes, Cancelled
    <3> QED
      BY <1>inv, <2>1, <3>1, <3>2 DEF Undecided
  <2> QED
    BY <2>6, <2>7, <2>8
<1>16. ASSUME NEW t \in Teardowns, Housekeeping(t) PROVE FrameInv'
  <2>1. UNCHANGED <<holds, timer, res, told, ruled>>
    BY <1>16, <1>type, Silent DEF Housekeeping
  <2>2. \A u \in Teardowns, g \in Flows : TeardownHas(u, g)' <=> TeardownHas(u, g)
    BY <1>16 DEF Housekeeping, TeardownHas
  <2>3. \A g \in Flows : fut'[g] # fut[g] =>
          fut[g] = "open" /\ fut'[g] = "cancelled"
    BY <1>16, <1>type DEF Housekeeping, CutOff
  <2>4. \A e \in Resolvers : res[e].pc \in {"expire", "tail", "abort"} =>
          res[e].req \in Flows
    BY DEF TypeInv, TasksName
  <2>5. Unsaid' /\ OneSpeaker'
    BY <1>inv, <2>1, <2>3 DEF Unsaid, OneSpeaker, Speaks
  <2>6. AnsweredFirst'
    BY <1>inv, <2>1, <2>3, <2>4 DEF AnsweredFirst
  <2>7. Undecided' /\ Truthful' /\ ExpiredMeansUnruled'
    BY <1>inv, <2>1, <2>2 DEF Undecided, Truthful, ExpiredMeansUnruled,
      TimerOwes
  <2> QED
    BY <2>5, <2>6, <2>7
<1>17. CASE Restart
  <2>1. /\ \A d \in Resolvers, g \in Flows : ~Speaks(d, g)'
        /\ \A d \in Resolvers : res'[d].pc = "idle"
        /\ \A t \in Teardowns, g \in Flows : ~TeardownHas(t, g)'
    BY <1>17 DEF Restart, Speaks, TeardownHas, IdleResolve, IdleTeardown
  <2>2. /\ holds' = {} /\ UNCHANGED <<told, ruled>>
        /\ \A g \in Flows : /\ timer'[g] = "none" /\ fut'[g] # "open"
                            /\ fut'[g] = "none" => fut[g] = "none"
    BY <1>17 DEF Restart
  <2>3. Unsaid' /\ OneSpeaker' /\ AnsweredFirst'
    BY <1>inv, <2>1, <2>2 DEF Unsaid, OneSpeaker, AnsweredFirst
  <2>4. Undecided' /\ Truthful' /\ ExpiredMeansUnruled'
    BY <1>inv, <2>1, <2>2 DEF Undecided, Truthful, ExpiredMeansUnruled,
      TimerOwes
  <2> QED
    BY <2>3, <2>4
<1> QED
  BY HoldFootprint, <1>type, <1>1, <1>2, <1>3, <1>4, <1>5, <1>6, <1>7, <1>8,
    <1>9, <1>10, <1>11, <1>12, <1>13, <1>14, <1>15, <1>16, <1>17
  DEF TimerStep, ResolveStep

\* Nothing was said before the first request.
LEMMA FrameInit == Init => FrameInv
  BY DEF Init, FrameInv, Unsaid, OneSpeaker, AnsweredFirst, Undecided,
    Truthful, ExpiredMeansUnruled, Speaks, TimerOwes, TeardownHas, IdleResolve,
    IdleTeardown

\* At most one frame, and a truthful one, was published.
LEMMA FrameOneTruthful == TypeInv /\ FrameInv => OneTruthfulFrame
<1> SUFFICES ASSUME TypeInv, FrameInv, NEW f \in Flows
             PROVE  /\ Len(told[f]) <= 1
                    /\ told[f] \in {<<"allowed">>, <<"denied">>} =>
                         told[f] = <<ruled[f]>>
  BY DEF OneTruthfulFrame
<1>1. Truthful
  BY DEF FrameInv
<1>2. Len(told[f]) <= 1
  <2>1. CASE told[f] = <<>>
    BY <2>1
  <2>2. ASSUME NEW label \in Labels, told[f] = <<label>>
        PROVE  Len(told[f]) <= 1
    BY <2>2
  <2> QED
    BY <1>1, <2>1, <2>2 DEF Truthful
<1>3. ASSUME told[f] \in {<<"allowed">>, <<"denied">>}
      PROVE  told[f] = <<ruled[f]>>
  BY <1>1, <1>3 DEF Truthful, Verdicts
<1> QED
  BY <1>2, <1>3

-------------------------------------------------------------------------------
(***************************************************************************)
(* Rows.                                                                   *)
(***************************************************************************)

\* A row stands for its own flow.
RowsNamed ==
  \A f \in Flows : rows[f].ws = WsOf[f] /\ rows[f].dest = DestOf[f]

\* A destination's pending row is one flow's.
OneRow ==
  \A f, g \in Flows :
    /\ IsPending(rows[f]) /\ IsPending(rows[g])
    /\ WsOf[f] = WsOf[g] /\ DestOf[f] = DestOf[g]
    => f = g

\* While nothing failed, a pending row has somebody who will move it.
RowsOwned ==
  \A f \in Flows :
    IsPending(rows[f]) /\ faults = 0 /\ flow[f] # "cut" => WillClose(f)

RowInv == RowsNamed /\ OneRow /\ RowsOwned
-------------------------------------------------------------------------------

\* A row keeps the workspace and the destination of its flow.
LEMMA RowsNamedStep == TypeOK /\ RowsNamed /\ [Next]_vars => RowsNamed'
<1> SUFFICES ASSUME TypeOK, RowsNamed, [Next]_vars PROVE RowsNamed'
  OBVIOUS
<1>type. rows \in [Flows -> RowType(Workspaces, Dests)]
  BY DEF TypeOK
<1> USE DEF RowsNamed
<1>1. ASSUME NEW f \in Flows, HoldCreate(f) PROVE RowsNamed'
  BY <1>1, <1>type DEF HoldCreate, Created
<1>2. ASSUME NEW f \in Flows, RevokeFlip(f) PROVE RowsNamed'
  BY <1>2, <1>type DEF RevokeFlip, Revoked, RowType
<1>3. ASSUME NEW d \in Resolvers, ResolveDecide(d) PROVE RowsNamed'
  BY <1>3, <1>type DEF ResolveDecide, Decided, RowType
<1>4. ASSUME NEW f, rows' = Expired(rows, f) PROVE RowsNamed'
  BY <1>4, <1>type DEF Expired, RowType
<1>5. ASSUME NEW gone, rows' = Deleted(rows, gone) PROVE RowsNamed'
  BY <1>5, <1>type DEF Deleted, RowType
<1>6. CASE rows' = AllExpired(rows)
  BY <1>6, <1>type DEF AllExpired, RowType
<1>7. CASE UNCHANGED rows
  BY <1>7
<1> QED
  BY RowsFootprint, <1>1, <1>2, <1>3, <1>4, <1>5, <1>6, <1>7

\* Only the INSERT makes a row pending, and the index keeps it alone.
LEMMA OneRowStep ==
  TypeInv /\ Fresh /\ RowsNamed /\ OneRow /\ [Next]_vars => OneRow'
<1> SUFFICES ASSUME TypeInv, Fresh, RowsNamed, OneRow, [Next]_vars
             PROVE  OneRow'
  OBVIOUS
<1>type. rows \in [Flows -> RowType(Workspaces, Dests)] /\ TypeOK
  BY DEF TypeInv, TypeOK
<1>1. ASSUME \A f \in Flows : IsPending(rows'[f]) => IsPending(rows[f])
      PROVE  OneRow'
  BY <1>1 DEF OneRow
<1>2. ASSUME NEW f \in Flows, HoldCreate(f) PROVE OneRow'
  <2>1. CASE UNCHANGED rows
    BY <1>1, <2>1
  <2>2. CASE /\ CanCreate(rows, WsOf[f], DestOf[f])
             /\ rows' = Created(rows, f, WsOf[f], DestOf[f])
    <3>1. \A g \in Flows : WsOf[g] = WsOf[f] /\ DestOf[g] = DestOf[f] =>
            ~IsPending(rows[g])
      BY <1>type, <2>2 DEF CanCreate, PendingFor, RowsNamed
    <3>2. \A g \in Flows : g # f => rows'[g] = rows[g]
      BY <1>type, <2>2 DEF Created
    <3> QED
      BY <3>1, <3>2 DEF OneRow
  <2> QED
    BY <1>2, <2>1, <2>2 DEF HoldCreate
<1>3. ASSUME ~\E f \in Flows : HoldCreate(f) PROVE OneRow'
  <2>1. CASE UNCHANGED rows
    BY <1>1, <2>1
  <2>2. ASSUME NEW f \in Flows, RevokeFlip(f) PROVE OneRow'
    BY <1>1, <2>2, <1>type DEF RevokeFlip, Revoked, RowType, IsPending
  <2>3. ASSUME NEW d \in Resolvers, ResolveDecide(d) PROVE OneRow'
    <3>1. res[d].verdict \in Verdicts
      BY <2>3 DEF ResolveDecide, TypeInv, TasksName
    <3> QED
      BY <1>1, <2>3, <1>type, <3>1 DEF ResolveDecide, Decided, RowType,
        IsPending, Verdicts
  <2>4. ASSUME NEW f, rows' = Expired(rows, f) PROVE OneRow'
    BY <1>1, <2>4, <1>type DEF Expired, RowType, IsPending
  <2>5. ASSUME NEW gone, rows' = Deleted(rows, gone) PROVE OneRow'
    BY <1>1, <2>5, <1>type DEF Deleted, RowType, IsPending
  <2>6. CASE rows' = AllExpired(rows)
    BY <1>1, <2>6, <1>type DEF AllExpired, RowType, IsPending
  <2> QED
    BY <1>type, <1>3, RowsFootprint, <2>1, <2>2, <2>3, <2>4, <2>5, <2>6
<1> QED
  BY <1>2, <1>3

\* A destination's pending rows are one row at most, counted.
LEMMA AtMostOnePending ==
  TypeOK /\ RowsNamed /\ OneRow => OnePendingPerDest
<1> SUFFICES ASSUME TypeOK, RowsNamed, OneRow,
                    NEW w \in Workspaces, NEW d \in Dests
             PROVE  Cardinality(PendingFor(rows, w, d)) <= 1
  BY DEF OnePendingPerDest
<1>1. DOMAIN rows = Flows
  BY DEF TypeOK
<1>2. \A f, g \in PendingFor(rows, w, d) : f = g
  BY <1>1 DEF PendingFor, RowsNamed, OneRow
<1>3. CASE PendingFor(rows, w, d) = {}
  BY <1>3, FS_EmptySet
<1>4. ASSUME NEW f \in PendingFor(rows, w, d)
      PROVE  Cardinality(PendingFor(rows, w, d)) <= 1
  <2>1. PendingFor(rows, w, d) = {f}
    BY <1>2
  <2> QED
    BY <2>1, FS_Singleton
<1> QED
  BY <1>3, <1>4

\* A request cut off stays so, and one being registered is registered next.
LEMMA CutAndRegister ==
  ASSUME TypeInv, [Next]_vars, NEW f \in Flows
  PROVE  /\ flow[f] = "cut" => flow'[f] = "cut"
         /\ flow[f] = "register" =>
              flow'[f] \in {"register", "cut"} \/ HoldRegister(f)
<1> DEFINE Moves(g) ==
      /\ flow[g] = "cut" => flow'[g] = "cut"
      /\ flow[g] = "register" =>
           flow'[g] \in {"register", "cut"} \/ HoldRegister(g)
<1>type. /\ flow \in [Flows -> {"idle"} \cup Active \cup Ended]
         /\ TypeOK
  BY DEF TypeInv, TypeOK
<1>1. ASSUME NEW g \in Flows, Arrive(g) \/ HoldStep(g) PROVE Moves(f)
  <2>1. PICK pc : flow' = [flow EXCEPT ![g] = pc]
    BY <1>1 DEF Arrive, HoldStep, HoldMode, HoldRecord, HoldGate, HoldPending,
      HoldCap, HoldCreate, HoldFails, HoldRegister, Answered, GoTo
  <2>2. flow[g] # "cut"
    BY <1>1 DEF Arrive, HoldStep, HoldMode, HoldRecord, HoldGate, HoldPending,
      HoldCap, HoldCreate, HoldFails, HoldRegister, Answered, Active, Gating,
      Recording
  <2>3. flow[g] = "register" => HoldRegister(g)
    BY <1>1 DEF Arrive, HoldStep, HoldMode, HoldRecord, HoldGate, HoldPending,
      HoldCap, HoldCreate, HoldFails, Answered, Active, Gating, Recording
  <2> QED
    BY <1>type, <2>1, <2>2, <2>3
<1>2. ASSUME NEW w \in Workspaces, CutOff(w) PROVE Moves(f)
  BY <1>2, <1>type DEF CutOff
<1>3. CASE Restart
  BY <1>3, <1>type DEF Restart
<1>4. CASE UNCHANGED flow
  BY <1>4
<1> QED
  BY <1>type, FlowFootprint, <1>1, <1>2, <1>3, <1>4

\* A step fails at most once.
LEMMA FaultsFootprint == [Next]_vars => faults' \in {faults, faults + 1}
  BY DEF Next, vars, HoldStep, TimerStep, ResolveStep, TeardownStep,
    SwitchStep, Teardowns, Arrive, HoldMode, HoldRecord, HoldGate,
    HoldPending, HoldCap, HoldCreate, HoldFails, HoldRegister, Answered,
    TimerPop, TimerExpire, TimerClose, RevokeFlip, RevokeForget, ResolvePop,
    ResolveDecide, ResolveFinish, ResolveGone, ResolveExpire, ResolveTail,
    ResolveAbort, ResolveCancelled, TeardownPop, TeardownExpire,
    TeardownClose, TeardownForget, TeardownClear, TeardownClearFails,
    Detached, EngineStopped, StopEngine, Detach, StopDetached, Attach,
    SwitchRetire, SwitchCommit, SwitchFails, SwitchReplay, PutBack,
    SwitchUnattached, SwitchWrite, DeleteRows, DeleteWorkspace, Restart,
    TryExpire, Fault, NoFault

\* While nothing fails, who was to move a pending row hands it on or moves it.
LEMMA OwnerMoves ==
  ASSUME TypeInv, HoldInv, [Next]_vars, faults' = 0,
         NEW f \in Flows, flow[f] # "register", IsPending(rows[f]), WillClose(f)
  PROVE  WillClose(f)' \/ ~IsPending(rows'[f])
<1> DEFINE Goal == WillClose(f)' \/ ~IsPending(rows'[f])
<1>type. /\ timer \in [Flows -> {"none", "armed", "expire", "close", "ended"}]
         /\ res \in [Resolvers -> ResolveType]
         /\ td \in [Teardowns -> TeardownType]
         /\ rows \in [Flows -> RowType(Workspaces, Dests)]
         /\ faults \in Nat
         /\ TypeOK
  BY BoundsAssumption DEF TypeInv, TypeOK
<1>inv. Exclusive
  BY DEF HoldInv
<1>expired. ASSUME TryExpire(f) PROVE Goal
  BY <1>expired, <1>type DEF TryExpire, Fault, Expired, IsPending, RowType
<1>same. ASSUME NEW d \in Resolvers, res'[d] = res[d], res[d].req = f,
                res[d].pc \in {"decide", "gone", "expire", "abort"}
         PROVE  Goal
  BY <1>same DEF WillClose
<1>kept. ASSUME NEW t \in Teardowns, td'[t] = td[t], td[t].cur = f,
                td[t].pc = "expire"
         PROVE  Goal
  BY <1>kept DEF WillClose
<1>1. CASE UNCHANGED <<holds, fut, timer, res, td>>
  BY <1>1 DEF WillClose
<1>2. ASSUME NEW g \in Flows, HoldRegister(g) PROVE Goal
  <2>1. holds' = holds \cup {g} /\ timer' = [timer EXCEPT ![g] = "armed"]
        /\ UNCHANGED <<res, td>>
    BY <1>2 DEF HoldRegister, GoTo
  <2> QED
    BY <1>type, <2>1 DEF WillClose
<1>3. ASSUME NEW g \in Flows, TimerPop(g) PROVE Goal
  <2>1. /\ timer[g] = "armed"
        /\ timer' = [timer EXCEPT ![g] =
                       IF g \in holds THEN "expire" ELSE "ended"]
        /\ holds' = holds \ {g}
        /\ UNCHANGED <<res, td>>
    BY <1>3 DEF TimerPop, taskVars
  <2> QED
    BY <1>type, <2>1 DEF WillClose
<1>4. ASSUME NEW g \in Flows, TimerExpire(g) PROVE Goal
  <2>1. /\ timer' = [timer EXCEPT ![g] = "close"]
        /\ TryExpire(g)
        /\ UNCHANGED <<holds, res, td>>
    BY <1>4 DEF TimerExpire, taskVars
  <2>2. CASE g = f
    BY <1>expired, <2>1, <2>2
  <2>3. CASE g # f
    BY <1>type, <2>1, <2>3 DEF WillClose
  <2> QED
    BY <2>2, <2>3
<1>5. ASSUME NEW g \in Flows, TimerClose(g) PROVE Goal
  <2>1. /\ timer[g] = "close" /\ timer' = [timer EXCEPT ![g] = "ended"]
        /\ UNCHANGED <<holds, res, td>>
    BY <1>5 DEF TimerClose, taskVars
  <2> QED
    BY <1>type, <2>1 DEF WillClose
<1>6. ASSUME NEW d \in Resolvers, ResolvePop(d) PROVE Goal
  <2>1. PICK g \in holds, verdict \in Verdicts, duration \in Offered :
          /\ holds' = holds \ {g}
          /\ timer' = Cancelled(g)
          /\ res' = [res EXCEPT ![d] = [pc |-> "decide", req |-> g,
                       verdict |-> verdict, duration |-> duration]]
    BY <1>6 DEF ResolvePop
  <2>2. td' = td /\ res[d].pc = "idle"
    BY <1>6 DEF ResolvePop
  <2>3. CASE f \in holds
    <3>1. CASE g = f
      <4>1. res'[d].req = f /\ res'[d].pc = "decide"
        BY <1>type, <2>1, <3>1
      <4> QED
        BY <4>1 DEF WillClose
    <3>2. CASE g # f
      BY <2>1, <2>3, <3>2 DEF WillClose
    <3> QED
      BY <3>1, <3>2
  <2>4. CASE timer[f] = "expire"
    <3>1. timer'[f] = "expire"
      BY <1>type, <2>1, <2>4 DEF Cancelled
    <3> QED
      BY <3>1 DEF WillClose
  <2>5. ASSUME NEW e \in Resolvers, res[e].req = f,
               res[e].pc \in {"decide", "gone", "expire", "abort"}
        PROVE  Goal
    <3>1. res'[e] = res[e]
      BY <1>type, <2>1, <2>2, <2>5
    <3> QED
      BY <1>same, <2>5, <3>1
  <2> QED
    BY <1>kept, <2>2, <2>3, <2>4, <2>5 DEF WillClose
<1>still. ASSUME UNCHANGED <<holds, timer, td>>,
                 \A d \in Resolvers :
                   /\ res[d].req = f
                   /\ res[d].pc \in {"decide", "gone", "expire", "abort"}
                   => Goal
          PROVE  Goal
  BY <1>still DEF WillClose
<1>7. ASSUME NEW d \in Resolvers, ResolveStep(d) \/ ResolveCancelled(d)
      PROVE  Goal
  <2>1. UNCHANGED <<holds, timer, td>>
    BY <1>7 DEF ResolveStep, ResolveDecide, ResolveFinish, ResolveGone,
      ResolveExpire, ResolveTail, ResolveAbort, ResolveCancelled, memVars
  <2>2. \A e \in Resolvers : e # d => res'[e] = res[e]
    BY <1>7, <1>type DEF ResolveStep, ResolveDecide, ResolveFinish,
      ResolveGone, ResolveExpire, ResolveTail, ResolveAbort, ResolveCancelled
  <2>3. ASSUME res[d].req = f, ResolveDecide(d) PROVE Goal
    <3>1. CASE CanDecide(rows, f) /\ rows' = Decided(rows, f, res[d].verdict,
                                                     res[d].duration)
      <4>1. res[d].verdict \in Verdicts
        BY <2>3 DEF ResolveDecide, TypeInv, TasksName
      <4> QED
        BY <1>type, <3>1, <4>1 DEF Decided, IsPending, RowType, Verdicts
    <3>2. CASE ~CanDecide(rows, f)
      BY <3>2 DEF CanDecide
    <3>3. CASE Fault
      BY <3>3, <1>type DEF Fault
    <3> QED
      BY <2>3, <3>1, <3>2, <3>3 DEF ResolveDecide
  <2>4. ASSUME res[d].req = f,
               \/ ResolveGone(d) \/ ResolveCancelled(d)
        PROVE  Goal
    <3>1. \E pc \in {"expire", "abort"} : res' = [res EXCEPT ![d].pc = pc]
      BY <2>4 DEF ResolveGone, ResolveCancelled
    <3>2. res'[d].req = f /\ res'[d].pc \in {"expire", "abort"}
      BY <1>type, <2>4, <3>1 DEF ResolveType
    <3> QED
      BY <3>2 DEF WillClose
  <2>5. ASSUME res[d].req = f, ResolveExpire(d) \/ ResolveAbort(d)
        PROVE  Goal
    BY <2>5, <1>expired DEF ResolveExpire, ResolveAbort
  <2>6. ASSUME ResolveFinish(d) \/ ResolveTail(d)
        PROVE  res[d].pc \in {"decided", "tail"}
    BY <2>6 DEF ResolveFinish, ResolveTail
  <2>7. ASSUME NEW e \in Resolvers, res[e].req = f,
               res[e].pc \in {"decide", "gone", "expire", "abort"}
        PROVE  Goal
    <3>1. CASE e # d
      BY <1>same, <2>2, <2>7, <3>1
    <3>2. CASE e = d
      BY <1>7, <2>3, <2>4, <2>5, <2>6, <2>7, <3>2 DEF ResolveStep
    <3> QED
      BY <3>1, <3>2
  <2> QED
    BY <1>still, <2>1, <2>7
<1>8. ASSUME NEW t \in Teardowns, TeardownPop(t) PROVE Goal
  <2>1. PICK g \in td[t].todo \cap holds :
          /\ holds' = holds \ {g}
          /\ td' = [td EXCEPT ![t].pc = "expire", ![t].cur = g,
                              ![t].todo = @ \ {g}]
    BY <1>8 DEF TeardownPop
  <2>2. UNCHANGED <<timer, res>> /\ td[t].pc = "loop"
    BY <1>8 DEF TeardownPop
  <2>3. CASE f \in holds /\ g = f
    <3>1. td'[t].cur = f /\ td'[t].pc = "expire"
      BY <1>type, <2>1, <2>3 DEF TeardownType
    <3> QED
      BY <3>1 DEF WillClose
  <2>4. CASE f \in holds /\ g # f
    BY <2>1, <2>4 DEF WillClose
  <2>5. ASSUME NEW u \in Teardowns, td[u].cur = f, td[u].pc = "expire"
        PROVE  Goal
    <3>1. td'[u] = td[u]
      BY <1>type, <2>1, <2>2, <2>5
    <3> QED
      BY <1>kept, <2>5, <3>1
  <2>6. CASE f \notin holds
    BY <2>2, <2>5, <2>6 DEF WillClose
  <2> QED
    BY <2>3, <2>4, <2>6
<1>9. ASSUME NEW t \in Teardowns, TeardownExpire(t) \/ TeardownClose(t)
      PROVE  Goal
  <2>1. UNCHANGED <<holds, res>> /\ \A u \in Teardowns : u # t => td'[u] = td[u]
    BY <1>9, <1>type DEF TeardownExpire, TeardownClose, memVars
  <2>2. ASSUME NEW u \in Teardowns, td[u].cur = f, td[u].pc = "expire"
        PROVE  Goal
    <3>1. CASE u # t
      BY <1>kept, <2>1, <2>2, <3>1
    <3>2. CASE u = t
      BY <1>9, <1>expired, <2>2, <3>2 DEF TeardownExpire, TeardownClose
    <3> QED
      BY <3>1, <3>2
  <2>3. timer[f] = "expire" => timer'[f] = "expire"
    BY <1>9, <1>type DEF TeardownExpire, TeardownClose, memVars, Cancelled
  <2> QED
    BY <2>1, <2>2, <2>3 DEF WillClose
<1>10. ASSUME NEW t \in Teardowns, Housekeeping(t) PROVE Goal
  <2>1. \A u \in Teardowns : td[u].pc = "expire" => td'[u] = td[u]
    BY <1>10 DEF Housekeeping
  <2>2. UNCHANGED <<holds, timer, res>>
    BY <1>10 DEF Housekeeping
  <2> QED
    BY <1>kept, <2>1, <2>2 DEF WillClose
<1>11. CASE Restart
  BY <1>11, <1>type DEF Restart, AllExpired, IsPending, RowType
<1> QED
  BY <1>type, HoldFootprint, <1>1, <1>2, <1>3, <1>4, <1>5, <1>6, <1>7, <1>8,
    <1>9, <1>10, <1>11 DEF TimerStep

\* Every step keeps a pending row owned, or accounts for the orphan.
LEMMA RowsOwnedStep ==
  TypeInv /\ Fresh /\ HoldInv /\ RowsOwned /\ [Next]_vars => RowsOwned'
<1> SUFFICES ASSUME TypeInv, Fresh, HoldInv, RowsOwned, [Next]_vars,
                    NEW f \in Flows,
                    IsPending(rows'[f]), faults' = 0, flow'[f] # "cut"
             PROVE  WillClose(f)'
  BY DEF RowsOwned
<1>1. faults = 0
  <2>1. faults \in Nat /\ (faults' = faults \/ faults' = faults + 1)
    BY FaultsFootprint, BoundsAssumption DEF TypeInv, TypeOK
  <2> QED
    BY <2>1
<1>2. CASE ~IsPending(rows[f])
  <2>1. flow'[f] = "register"
    BY <1>2, RowMoves DEF RowMove, IsPending, Verdicts
  <2> QED
    BY <2>1 DEF WillClose
<1>3. CASE IsPending(rows[f]) /\ flow[f] = "register"
  <2>1. CASE flow'[f] = "register"
    BY <2>1 DEF WillClose
  <2>2. CASE HoldRegister(f)
    BY <2>2 DEF HoldRegister, WillClose
  <2> QED
    BY <1>3, <2>1, <2>2, CutAndRegister
<1>4. CASE IsPending(rows[f]) /\ flow[f] # "register"
  <2>1. WillClose(f)
    BY <1>1, <1>4, CutAndRegister DEF RowsOwned
  <2> QED
    BY <1>4, <2>1, OwnerMoves
<1> QED
  BY <1>2, <1>3, <1>4

\* The table starts with no row.
LEMMA RowInit == Init => RowInv
  BY DEF Init, RowInv, RowsNamed, OneRow, RowsOwned, IsPending

\* The three facts about rows are kept together.
LEMMA RowStep ==
  TypeInv /\ Fresh /\ HoldInv /\ RowInv /\ [Next]_vars => RowInv'
  BY RowsNamedStep, OneRowStep, RowsOwnedStep DEF RowInv, TypeInv

-------------------------------------------------------------------------------
(***************************************************************************)
(* Queues.                                                                 *)
(***************************************************************************)

\* Where a workspace may stand while a connection of it is alive: served by
\* its queue, or left over by a detach that failed half-way, from which no
\* boot of this daemon leads back.
Holding(w) ==
  \/ vm[w] = "attached" /\ posture[w] = "interactive"
  \/ vm[w] \in {"wedged", "deleting"}
  \/ vm[w] = "down" /\ mode[w] = "missing"
  \/ vm[w] = "detached" /\ ~Serving

QueuesHold == \A f \in Flows : flow[f] \in Active => Holding(WsOf[f])

\* The detach that a shutdown asks for comes after the engine's own stop.
KindsKnown ==
  \A w \in Workspaces :
    /\ td[w].kind = "shutdown" => td[Daemon].pc = "stopped"
    /\ td[w].pc = "clear" => td[w].kind \in {"stop", "shutdown"}

QueueInv == QueuesHold /\ KindsKnown
-------------------------------------------------------------------------------

\* A shutdown that began lasts until the next start.
LEMMA ShutdownLasts ==
  ASSUME TypeOK, [Next]_vars
  PROVE  \/ Restart
         \/ /\ ~Serving => ~Serving'
            /\ td[Daemon].pc = "stopped" => td'[Daemon].pc = "stopped"
<1> DEFINE Lasts == /\ ~Serving => ~Serving'
                    /\ td[Daemon].pc = "stopped" => td'[Daemon].pc = "stopped"
<1>td. td \in [Teardowns -> TeardownType] /\ Daemon \in Teardowns
  BY DEF TypeOK, Teardowns
<1>1. CASE UNCHANGED <<res, td>>
  BY <1>1 DEF Serving
<1>2. ASSUME NEW d \in Resolvers,
             ResolvePop(d) \/ ResolveStep(d) \/ ResolveCancelled(d)
      PROVE  Lasts
  <2>1. td' = td
    BY <1>2 DEF ResolvePop, ResolveStep, ResolveDecide, ResolveFinish,
      ResolveGone, ResolveExpire, ResolveTail, ResolveAbort, ResolveCancelled
  <2> QED
    BY <2>1 DEF Serving
<1>3. ASSUME NEW w \in Workspaces,
             \/ TeardownForget(w) \/ TeardownClear(w) \/ TeardownClearFails(w)
             \/ Detached(w) \/ Detach(w) \/ SwitchStep(w)
      PROVE  Lasts
  <2>1. w # Daemon
    BY WorkspacesAssumption
  <2>2. td'[Daemon] = td[Daemon]
    BY <1>3, <1>td, <2>1 DEF TeardownForget, TeardownClear,
      TeardownClearFails, Detached, Detach, StartTeardown, SwitchStep,
      SwitchRetire, SwitchCommit, SwitchFails, SwitchReplay, SwitchUnattached,
      SwitchOver, taskVars
  <2> QED
    BY <2>2 DEF Serving
<1>4. ASSUME NEW t \in Teardowns,
             TeardownPop(t) \/ TeardownExpire(t) \/ TeardownClose(t)
      PROVE  Lasts
  <2>1. td[t].pc # "idle" /\ td[t].pc # "stopped"
    BY <1>4 DEF TeardownPop, TeardownExpire, TeardownClose
  <2>2. CASE t = Daemon
    <3>1. td'[t].pc # "idle"
      <4>1. CASE TeardownPop(t)
        <5>1. PICK f \in td[t].todo :
                td' = [td EXCEPT ![t].pc = "expire", ![t].cur = f,
                                 ![t].todo = @ \ {f}]
          BY <4>1 DEF TeardownPop
        <5> QED
          BY <1>td, <5>1 DEF TeardownType
      <4>2. CASE TeardownExpire(t)
        BY <1>td, <4>2 DEF TeardownExpire, TeardownType
      <4>3. CASE TeardownClose(t)
        BY <1>td, <4>3 DEF TeardownClose, TeardownType
      <4> QED
        BY <1>4, <4>1, <4>2, <4>3
    <3> QED
      BY <2>1, <2>2, <3>1 DEF Serving
  <2>3. CASE t # Daemon
    <3>1. td'[Daemon] = td[Daemon]
      BY <1>4, <1>td, <2>3 DEF TeardownPop, TeardownExpire, TeardownClose
    <3> QED
      BY <3>1 DEF Serving
  <2> QED
    BY <2>2, <2>3
<1>5. CASE EngineStopped \/ StopEngine
  BY <1>5, <1>td DEF EngineStopped, StopEngine, StartTeardown, LoopOver,
    Serving, TeardownType
<1> QED
  BY TaskFootprint, <1>1, <1>2, <1>3, <1>4, <1>5 DEF TeardownStep, Teardowns

\* A shutdown detach runs only behind a stopped engine.
LEMMA KindsStep == TypeOK /\ KindsKnown /\ [Next]_vars => KindsKnown'
<1> SUFFICES ASSUME TypeOK, KindsKnown, [Next]_vars,
                    NEW w \in Workspaces
             PROVE  /\ td'[w].kind = "shutdown" => td'[Daemon].pc = "stopped"
                    /\ td'[w].pc = "clear" => td'[w].kind \in {"stop", "shutdown"}
  BY DEF KindsKnown
<1> DEFINE Same == /\ td'[w].kind = td[w].kind
                   /\ td'[w].pc = "clear" => td[w].pc = "clear"
           Goal == /\ td'[w].kind = "shutdown" => td'[Daemon].pc = "stopped"
                   /\ td'[w].pc = "clear" => td'[w].kind \in {"stop", "shutdown"}
<1>td. /\ td \in [Teardowns -> TeardownType] /\ Daemon \in Teardowns
       /\ w \in Teardowns /\ w # Daemon
  BY WorkspacesAssumption DEF TypeOK, Teardowns
<1>1. CASE Restart
  BY <1>1 DEF Restart, IdleTeardown, Teardowns
<1>last. ASSUME ~Restart, td[w].kind = "shutdown"
         PROVE  td'[Daemon].pc = "stopped"
  BY <1>last, ShutdownLasts DEF KindsKnown
<1>2. ASSUME ~Restart, Same PROVE Goal
  BY <1>2, <1>last DEF KindsKnown
<1>3. CASE UNCHANGED <<res, td>>
  BY <1>1, <1>2, <1>3
<1>4. ASSUME NEW d \in Resolvers,
             ResolvePop(d) \/ ResolveStep(d) \/ ResolveCancelled(d)
      PROVE  Goal
  <2>1. td' = td
    BY <1>4 DEF ResolvePop, ResolveStep, ResolveDecide, ResolveFinish,
      ResolveGone, ResolveExpire, ResolveTail, ResolveAbort, ResolveCancelled
  <2> QED
    BY <1>1, <1>2, <2>1
<1>5. ASSUME NEW t \in Teardowns,
             TeardownPop(t) \/ TeardownExpire(t) \/ TeardownClose(t)
      PROVE  Goal
  <2>1. Same
    <3>1. CASE t # w
      <4>1. td'[w] = td[w]
        BY <1>5, <1>td, <3>1 DEF TeardownPop, TeardownExpire, TeardownClose
      <4> QED
        BY <4>1
    <3>2. CASE t = w /\ TeardownPop(t)
      <4>1. PICK f \in td[t].todo :
              td' = [td EXCEPT ![t].pc = "expire", ![t].cur = f,
                               ![t].todo = @ \ {f}]
        BY <3>2 DEF TeardownPop
      <4> QED
        BY <1>td, <3>2, <4>1 DEF TeardownType
    <3>3. CASE t = w /\ TeardownExpire(t)
      BY <1>td, <3>3 DEF TeardownExpire, TeardownType
    <3>4. CASE t = w /\ TeardownClose(t)
      BY <1>td, <3>4 DEF TeardownClose, TeardownType
    <3> QED
      BY <1>5, <3>1, <3>2, <3>3, <3>4
  <2> QED
    BY <1>1, <1>2, <2>1
<1>6. CASE EngineStopped \/ StopEngine
  <2>1. Same
    BY <1>6, <1>td DEF EngineStopped, StopEngine, StartTeardown
  <2> QED
    BY <1>1, <1>2, <2>1
<1>7. ASSUME NEW v \in Workspaces,
             \/ TeardownForget(v) \/ TeardownClear(v) \/ TeardownClearFails(v)
             \/ Detached(v) \/ Detach(v) \/ SwitchStep(v)
      PROVE  Goal
  <2>1. CASE v # w
    <3>1. td'[w] = td[w]
      BY <1>7, <1>td, <2>1 DEF TeardownForget, TeardownClear,
        TeardownClearFails, Detached, Detach, StartTeardown, SwitchStep,
        SwitchRetire, SwitchCommit, SwitchFails, SwitchReplay,
        SwitchUnattached, SwitchOver, taskVars
    <3> QED
      BY <1>1, <1>2, <3>1
  <2>2. CASE v = w /\ TeardownForget(v)
    <3>1. /\ td'[w].kind = td[w].kind
          /\ td[w].kind \in {"stop", "shutdown"}
      BY <1>td, <2>2 DEF TeardownForget, TeardownType
    <3> QED
      BY <1>1, <1>last, <3>1 DEF KindsKnown
  <2>3. CASE v = w /\ (TeardownClear(v) \/ SwitchRetire(v))
    <3>1. td'[w].kind \in {td[w].kind, "switch"} /\ td'[w].pc # "clear"
      BY <1>td, <2>3 DEF TeardownClear, SwitchRetire, StartTeardown,
        TeardownType
    <3> QED
      BY <1>1, <1>last, <3>1 DEF KindsKnown
  <2>4. CASE v = w /\ Detach(v)
    <3>1. td'[w].pc = "loop" /\ td'[Daemon] = td[Daemon]
          /\ (td'[w].kind = "shutdown" => td[Daemon].pc = "stopped")
      BY <1>td, <2>4 DEF Detach, StartTeardown
    <3> QED
      BY <3>1
  <2>5. CASE v = w /\ (td' = [td EXCEPT ![w] = IdleTeardown] \/ td' = td
                       \/ td' = [td EXCEPT ![w].pc = "replay"])
    <3>1. /\ td'[w].kind \in {td[w].kind, "none"}
          /\ td'[w].pc = "clear" => td'[w] = td[w]
      BY <1>td, <2>5 DEF IdleTeardown, TeardownType
    <3> QED
      BY <1>1, <1>last, <3>1 DEF KindsKnown
  <2> QED
    BY <1>7, <2>1, <2>2, <2>3, <2>4, <2>5 DEF TeardownClearFails, Detached,
      SwitchStep, SwitchCommit, SwitchFails, SwitchReplay, SwitchUnattached,
      SwitchOver, taskVars
<1> QED
  BY TaskFootprint, <1>1, <1>3, <1>4, <1>5, <1>6, <1>7
  DEF TeardownStep, Teardowns

\* A connection comes alive only at a bound queue.
LEMMA ComesAlive ==
  ASSUME TypeInv, [Next]_vars, NEW f \in Flows, flow'[f] \in Active
  PROVE  flow[f] \in Active \/ (Bound(WsOf[f]) /\ UNCHANGED envVars)
<1> DEFINE Goal == flow[f] \in Active \/ (Bound(WsOf[f]) /\ UNCHANGED envVars)
<1>type. flow \in [Flows -> {"idle"} \cup Active \cup Ended] /\ TypeOK
  BY DEF TypeInv, TypeOK
<1>1. ASSUME NEW g \in Flows, Arrive(g) PROVE Goal
  BY <1>1, <1>type DEF Arrive
<1>2. ASSUME NEW g \in Flows, HoldStep(g) PROVE Goal
  <2>1. flow[g] \in Active /\ \E pc : flow' = [flow EXCEPT ![g] = pc]
    BY <1>2 DEF HoldStep, HoldMode, HoldRecord, HoldGate, HoldPending,
      HoldCap, HoldCreate, HoldFails, HoldRegister, Answered, GoTo, Active,
      Gating, Recording
  <2> QED
    BY <1>type, <2>1
<1>3. ASSUME NEW w \in Workspaces, CutOff(w) PROVE Goal
  BY <1>3, <1>type DEF CutOff
<1>4. CASE Restart
  BY <1>4, <1>type DEF Restart
<1>5. CASE UNCHANGED flow
  BY <1>5
<1> QED
  BY <1>type, FlowFootprint, <1>1, <1>2, <1>3, <1>4, <1>5

\* A queue that is stopped leaves no connection of its workspace alive, and a
\* restart none at all.
LEMMA NoneLeft ==
  ASSUME NEW f \in Flows
  PROVE  /\ CutOff(WsOf[f]) => flow'[f] \notin Active
         /\ Restart => flow'[f] \notin Active
<1>1. "cut" \notin Active
  BY DEF Active, Gating, Recording
<1>2. CutOff(WsOf[f]) => flow'[f] \notin Active
  BY <1>1 DEF CutOff
<1>3. Restart => flow'[f] \notin Active
  BY <1>1 DEF Restart
<1> QED
  BY <1>2, <1>3

\* What changes a workspace's row, its posture or its VM.
LEMMA EnvFootprint ==
  [Next]_vars =>
    \/ UNCHANGED <<mode, posture, vm>>
    \/ \E w \in Workspaces :
         \/ TeardownClearFails(w) \/ Detached(w) \/ StopDetached(w) \/ Attach(w)
         \/ SwitchCommit(w) \/ SwitchFails(w) \/ SwitchReplay(w)
         \/ DeleteRows(w) \/ DeleteWorkspace(w)
         \/ \E m \in SwitchModes : SwitchWrite(w, m)
    \/ Restart
  BY DEF Next, vars, envVars, HoldStep, TimerStep, ResolveStep, TeardownStep,
    SwitchStep, Teardowns, Arrive, HoldMode, HoldRecord, HoldGate,
    HoldPending, HoldCap, HoldCreate, HoldFails, HoldRegister, Answered, GoTo,
    TimerPop, TimerExpire, TimerClose, RevokeFlip, RevokeForget, ResolvePop,
    ResolveDecide, ResolveFinish, ResolveGone, ResolveExpire, ResolveTail,
    ResolveAbort, ResolveCancelled, TeardownPop, TeardownExpire,
    TeardownClose, TeardownForget, TeardownClear, EngineStopped, StopEngine,
    Detach, SwitchRetire, SwitchUnattached

\* While a connection of a workspace is alive, its VM does not boot, nor does
\* its table change under the queue.
LEMMA QueuesStep == TypeInv /\ QueueInv /\ [Next]_vars => QueuesHold'
<1> SUFFICES ASSUME TypeInv, QueueInv, [Next]_vars,
                    NEW f \in Flows, flow'[f] \in Active,
                    NEW w \in Workspaces, w = WsOf[f]
             PROVE  Holding(w)'
  BY FlowsAssumption DEF QueuesHold, Holding, Serving
<1>type. /\ mode \in [Workspaces -> Modes \cup {"missing"}]
         /\ prior \in [Workspaces -> Modes \cup {"none"}]
         /\ posture \in [Workspaces -> Modes]
         /\ vm \in [Workspaces -> {"down", "attached", "detached", "wedged",
                                   "deleting"}]
         /\ td \in [Teardowns -> TeardownType]
         /\ w # Daemon /\ TypeOK
  BY WorkspacesAssumption DEF TypeInv, TypeOK
<1>live. ~Restart /\ ~CutOff(w)
  BY NoneLeft
<1>last. ~Serving => ~Serving'
  BY <1>type, <1>live, ShutdownLasts
<1>was. CASE flow[f] \in Active
  <2>1. Holding(w)
    BY <1>was DEF QueueInv, QueuesHold
  <2>2. CASE vm'[w] = vm[w] /\ posture'[w] = posture[w] /\ mode'[w] = mode[w]
    BY <1>last, <2>1, <2>2 DEF Holding
  <2>3. CASE UNCHANGED <<mode, posture, vm>>
    BY <2>2, <2>3
  <2>4. ASSUME NEW v \in Workspaces, v # w,
               \/ TeardownClearFails(v) \/ Detached(v) \/ StopDetached(v)
               \/ Attach(v) \/ SwitchCommit(v) \/ SwitchFails(v)
               \/ SwitchReplay(v) \/ DeleteRows(v) \/ DeleteWorkspace(v)
               \/ \E m \in SwitchModes : SwitchWrite(v, m)
        PROVE  Holding(w)'
    <3>1. vm'[w] = vm[w]
      BY <1>type, <2>4 DEF TeardownClearFails, Detached, StopDetached, Attach,
        SwitchCommit, SwitchFails, SwitchReplay, DeleteRows, DeleteWorkspace,
        SwitchWrite
    <3>2. posture'[w] = posture[w]
      BY <1>type, <2>4 DEF TeardownClearFails, Detached, StopDetached, Attach,
        SwitchCommit, SwitchFails, SwitchReplay, DeleteRows, DeleteWorkspace,
        SwitchWrite
    <3>3. mode'[w] = mode[w]
      BY <1>type, <2>4 DEF TeardownClearFails, Detached, StopDetached, Attach,
        SwitchCommit, SwitchFails, SwitchReplay, PutBack, DeleteRows,
        DeleteWorkspace, SwitchWrite
    <3> QED
      BY <2>2, <3>1, <3>2, <3>3
  <2>5. ASSUME TeardownClearFails(w) PROVE Holding(w)'
    <3>1. /\ td[w].kind \in {"stop", "shutdown"}
          /\ td[w].kind = "shutdown" => ~Serving
      BY <1>type, <2>5 DEF TeardownClearFails, QueueInv, KindsKnown, Serving
    <3>2. vm'[w] = IF td[w].kind = "stop" THEN "wedged" ELSE "detached"
      BY <1>type, <2>5 DEF TeardownClearFails
    <3> QED
      BY <1>last, <3>1, <3>2 DEF Holding
  <2>6. ASSUME Detached(w) PROVE FALSE
    BY <2>6, <1>live DEF Detached
  <2>7. ASSUME StopDetached(w) PROVE FALSE
    BY <2>1, <2>7 DEF StopDetached, Holding
  <2>8. ASSUME Attach(w) PROVE FALSE
    BY <2>1, <2>8 DEF Attach, Holding
  <2>9. ASSUME SwitchCommit(w) PROVE Holding(w)'
    <3>1. posture[w] = "interactive" /\ mode[w] = "interactive"
      BY <1>live, <2>1, <2>9 DEF SwitchCommit, AtInstall, Leaves, Holding
    <3>2. vm[w] = "attached" /\ vm' = vm /\ posture'[w] = mode[w]
      BY <1>type, <2>9 DEF SwitchCommit, AtInstall
    <3> QED
      BY <3>1, <3>2 DEF Holding
  <2>10. ASSUME SwitchFails(w) \/ SwitchReplay(w) PROVE Holding(w)'
    <3>1. UNCHANGED <<vm, posture>> /\ Switching(w)
      BY <2>10 DEF SwitchFails, SwitchReplay, AtInstall
    <3>2. mode[w] # "missing"
      BY <1>type, <3>1 DEF TypeInv, SwitchesLive
    <3> QED
      BY <1>last, <2>1, <3>1, <3>2 DEF Holding
  <2>11. ASSUME DeleteRows(w) PROVE Holding(w)'
    BY <1>type, <2>11 DEF DeleteRows, Holding
  <2>12. ASSUME DeleteWorkspace(w) PROVE Holding(w)'
    BY <1>type, <2>12 DEF DeleteWorkspace, Holding
  <2>13. ASSUME NEW m \in SwitchModes, SwitchWrite(w, m) PROVE Holding(w)'
    BY <1>last, <2>1, <2>13 DEF SwitchWrite, Holding
  <2> QED
    BY <1>live, EnvFootprint, <2>3, <2>4, <2>5, <2>6, <2>7, <2>8, <2>9, <2>10,
      <2>11, <2>12, <2>13
<1>new. CASE Bound(w) /\ UNCHANGED envVars
  BY <1>new DEF Bound, Holding, envVars
<1> QED
  BY <1>was, <1>new, ComesAlive

\* No connection is alive at the start.
LEMMA QueueInit == Init => QueueInv
  BY DEF Init, QueueInv, QueuesHold, KindsKnown, IdleTeardown, Active, Gating,
    Recording, Teardowns

\* A workspace with a live connection runs its queue or nothing.
LEMMA NoneUngated == QueueInv => NoneHeldUngated
  BY DEF QueueInv, QueuesHold, NoneHeldUngated, Holding

-------------------------------------------------------------------------------
(***************************************************************************)
(* Postures.                                                               *)
(***************************************************************************)

\* A row that disagrees with the table of an attached workspace, no switch
\* being under way and no transaction having failed, says "allow": an operator
\* who reads a gate in the row has that gate.  A switch whose replay fails puts
\* an "allow" row back over the gated table it has committed, never the
\* contrary.
GatedRowsEnforced ==
  \A w \in Workspaces :
    vm[w] = "attached" /\ ~Switching(w) /\ faults = 0 /\ mode[w] # posture[w] =>
      mode[w] = "allow"

\* The row's mode of before the switch under way, if there is one.
RowBefore(w) == IF Switching(w) THEN prior[w] ELSE mode[w]

PostureHolds(w) ==
  /\ td[w].pc = "replay" => Switching(w)
  /\ vm[w] = "attached" /\ faults = 0 =>
       IF td[w].pc = "replay"
         THEN posture[w] = mode[w] /\ prior[w] = "allow"
         ELSE posture[w] = RowBefore(w) \/ RowBefore(w) = "allow"

PostureInv == \A w \in Workspaces : PostureHolds(w)
-------------------------------------------------------------------------------

\* Only a switch begins and ends a replay.
LEMMA ReplayFootprint ==
  ASSUME TypeOK, [Next]_vars, NEW w \in Workspaces
  PROVE  \/ Restart \/ SwitchCommit(w) \/ SwitchReplay(w)
         \/ td'[w].pc = "replay" <=> td[w].pc = "replay"
<1> DEFINE Same == td'[w].pc = "replay" <=> td[w].pc = "replay"
<1>td. /\ td \in [Teardowns -> TeardownType] /\ Daemon \in Teardowns
       /\ w \in Teardowns /\ w # Daemon
  BY WorkspacesAssumption DEF TypeOK, Teardowns
<1>1. CASE UNCHANGED <<res, td>>
  BY <1>1
<1>2. ASSUME NEW d \in Resolvers,
             ResolvePop(d) \/ ResolveStep(d) \/ ResolveCancelled(d)
      PROVE  Same
  <2>1. td' = td
    BY <1>2 DEF ResolvePop, ResolveStep, ResolveDecide, ResolveFinish,
      ResolveGone, ResolveExpire, ResolveTail, ResolveAbort, ResolveCancelled
  <2> QED
    BY <2>1
<1>3. ASSUME NEW t \in Teardowns,
             TeardownPop(t) \/ TeardownExpire(t) \/ TeardownClose(t)
      PROVE  Same
  <2>1. CASE TeardownPop(t)
    <3>1. PICK f \in td[t].todo :
            td' = [td EXCEPT ![t].pc = "expire", ![t].cur = f,
                             ![t].todo = @ \ {f}]
      BY <2>1 DEF TeardownPop
    <3> QED
      BY <1>td, <2>1, <3>1 DEF TeardownPop, TeardownType
  <2>2. CASE TeardownExpire(t) \/ TeardownClose(t)
    BY <1>td, <2>2 DEF TeardownExpire, TeardownClose, TeardownType
  <2> QED
    BY <1>3, <2>1, <2>2
<1>4. CASE EngineStopped \/ StopEngine
  BY <1>4, <1>td DEF EngineStopped, StopEngine, StartTeardown
<1>5. ASSUME NEW v \in Workspaces,
             \/ TeardownForget(v) \/ TeardownClear(v) \/ TeardownClearFails(v)
             \/ Detached(v) \/ Detach(v)
      PROVE  Same
  BY <1>5, <1>td DEF TeardownForget, TeardownClear, TeardownClearFails,
    Detached, Detach, StartTeardown, LoopOver, IdleTeardown, TeardownType
<1>6. ASSUME NEW v \in Workspaces, SwitchStep(v)
      PROVE  SwitchCommit(w) \/ SwitchReplay(w) \/ Same
  <2>1. CASE v # w
    BY <1>6, <1>td, <2>1 DEF SwitchStep, SwitchRetire, SwitchCommit,
      SwitchFails, SwitchReplay, SwitchUnattached, SwitchOver, StartTeardown,
      taskVars
  <2>2. CASE v = w /\ (SwitchRetire(v) \/ SwitchFails(v) \/ SwitchUnattached(v))
    BY <1>td, <2>2 DEF SwitchRetire, SwitchFails, SwitchUnattached, SwitchOver,
      AtInstall, LoopOver, StartTeardown, IdleTeardown, TeardownType, taskVars
  <2> QED
    BY <1>6, <2>1, <2>2 DEF SwitchStep
<1>7. CASE Restart
  BY <1>7
<1> QED
  BY TaskFootprint, <1>1, <1>2, <1>3, <1>4, <1>5, <1>6, <1>7
  DEF TeardownStep, Teardowns

\* What begins and ends a switch.
LEMMA PriorFootprint ==
  [Next]_vars =>
    \/ UNCHANGED prior
    \/ \E w \in Workspaces :
         \/ SwitchCommit(w) \/ SwitchFails(w) \/ SwitchReplay(w)
         \/ SwitchUnattached(w)
         \/ \E m \in SwitchModes : SwitchWrite(w, m)
    \/ Restart
  BY DEF Next, vars, envVars, HoldStep, TimerStep, ResolveStep, TeardownStep,
    SwitchStep, Teardowns, Arrive, HoldMode, HoldRecord, HoldGate,
    HoldPending, HoldCap, HoldCreate, HoldFails, HoldRegister, Answered, GoTo,
    TimerPop, TimerExpire, TimerClose, RevokeFlip, RevokeForget, ResolvePop,
    ResolveDecide, ResolveFinish, ResolveGone, ResolveExpire, ResolveTail,
    ResolveAbort, ResolveCancelled, TeardownPop, TeardownExpire,
    TeardownClose, TeardownForget, TeardownClear, TeardownClearFails, Detached,
    EngineStopped, StopEngine, Detach, StopDetached, Attach, SwitchRetire,
    DeleteRows, DeleteWorkspace

\* A switch ends with the table its row names, or with the row it found.
LEMMA PostureStep == TypeOK /\ PostureInv /\ [Next]_vars => PostureInv'
<1> SUFFICES ASSUME TypeOK, PostureInv, [Next]_vars, NEW w \in Workspaces
             PROVE  PostureHolds(w)'
  BY DEF PostureInv
<1>type. /\ mode \in [Workspaces -> Modes \cup {"missing"}]
         /\ prior \in [Workspaces -> Modes \cup {"none"}]
         /\ posture \in [Workspaces -> Modes]
         /\ vm \in [Workspaces -> {"down", "attached", "detached", "wedged",
                                   "deleting"}]
         /\ td \in [Teardowns -> TeardownType] /\ w \in Teardowns
         /\ faults \in Nat
  BY BoundsAssumption DEF TypeOK, Teardowns
<1>was. PostureHolds(w)
  BY DEF PostureInv
<1>faults. faults' = 0 => faults = 0
  BY <1>type, FaultsFootprint
<1>1. CASE Restart
  BY <1>1, <1>type DEF Restart, PostureHolds, IdleTeardown
<1>2. CASE /\ UNCHANGED <<mode[w], prior[w], posture[w]>>
           /\ vm'[w] = "attached" => vm[w] = "attached"
           /\ td'[w].pc = "replay" <=> td[w].pc = "replay"
  BY <1>2, <1>was, <1>faults DEF PostureHolds, RowBefore, Switching
<1>3. CASE SwitchCommit(w)
  <2>1. /\ Switching(w) /\ posture'[w] = mode[w] /\ UNCHANGED <<mode, vm>>
        /\ vm[w] = "attached" /\ td[w].pc # "replay"
    BY <1>3, <1>type DEF SwitchCommit, AtInstall, LoopOver
  <2>2. CASE SwitchOver(w)
    BY <2>1, <2>2, <1>type DEF SwitchOver, PostureHolds, RowBefore, Switching,
      IdleTeardown
  <2>3. CASE Replays(w) /\ td' = [td EXCEPT ![w].pc = "replay"] /\ UNCHANGED prior
    <3>1. td'[w].pc = "replay"
      BY <2>3, <1>type DEF TeardownType
    <3>2. faults = 0 => prior[w] = "allow"
      BY <2>1, <2>3, <1>was DEF PostureHolds, RowBefore, Replays
    <3> QED
      BY <2>1, <2>3, <3>1, <3>2, <1>faults DEF PostureHolds, Switching
  <2> QED
    BY <1>3, <2>2, <2>3 DEF SwitchCommit
<1>4. CASE SwitchFails(w) \/ SwitchReplay(w)
  <2>1. /\ Switching(w) /\ UNCHANGED <<posture, vm>>
        /\ prior'[w] = "none" /\ td'[w].pc = "idle"
    BY <1>4, <1>type DEF SwitchFails, SwitchReplay, AtInstall, SwitchOver,
      IdleTeardown
  <2>2. CASE mode'[w] = prior[w]
    BY <2>1, <2>2, <1>was, <1>faults DEF PostureHolds, RowBefore, Switching
  <2>3. CASE UNCHANGED mode /\ td[w].pc = "replay"
    BY <2>1, <2>3, <1>was, <1>faults DEF PostureHolds, RowBefore, Switching
  <2>4. CASE Fault
    BY <2>1, <2>4, <1>type DEF Fault, PostureHolds
  <2> QED
    BY <1>4, <1>type, <2>2, <2>3, <2>4 DEF SwitchFails, SwitchReplay, PutBack
<1>5. ASSUME NEW m \in SwitchModes, SwitchWrite(w, m) PROVE PostureHolds(w)'
  <2>1. /\ ~Switching(w) /\ prior'[w] = mode[w] /\ mode[w] # "none"
        /\ UNCHANGED <<posture, vm, td>> /\ td[w].pc # "replay"
    BY <1>5, <1>was, <1>type
    DEF SwitchWrite, Switching, taskVars, PostureHolds, Modes
  <2> QED
    BY <2>1, <1>was, <1>faults DEF PostureHolds, RowBefore, Switching
<1>6. CASE SwitchUnattached(w)
  BY <1>6, <1>type DEF SwitchUnattached, PostureHolds, taskVars
<1>7. CASE Attach(w)
  BY <1>7, <1>type DEF Attach, PostureHolds, RowBefore, Switching, taskVars
<1>8. CASE DeleteWorkspace(w) \/ DeleteRows(w) \/ Detached(w)
            \/ TeardownClearFails(w) \/ StopDetached(w)
  <2>1. vm'[w] # "attached" /\ UNCHANGED prior
    BY <1>8, <1>type DEF DeleteWorkspace, DeleteRows, Detached,
      TeardownClearFails, StopDetached
  <2>2. td'[w].pc = "replay" => td[w].pc = "replay"
    BY <1>8, <1>type DEF DeleteWorkspace, DeleteRows, Detached,
      TeardownClearFails, StopDetached, IdleTeardown, taskVars
  <2> QED
    BY <2>1, <2>2, <1>was DEF PostureHolds, Switching
<1>9. ASSUME ~Restart, ~SwitchCommit(w), ~SwitchFails(w), ~SwitchReplay(w),
             ~\E m \in SwitchModes : SwitchWrite(w, m), ~SwitchUnattached(w),
             ~Attach(w), ~DeleteWorkspace(w), ~DeleteRows(w), ~Detached(w),
             ~TeardownClearFails(w), ~StopDetached(w)
      PROVE  PostureHolds(w)'
  <2>1. UNCHANGED <<mode[w], posture[w], vm[w]>>
    <3>1. CASE UNCHANGED <<mode, posture, vm>>
      BY <3>1
    <3>2. ASSUME NEW v \in Workspaces, v # w,
                 \/ TeardownClearFails(v) \/ Detached(v) \/ StopDetached(v)
                 \/ Attach(v) \/ SwitchCommit(v) \/ SwitchFails(v)
                 \/ SwitchReplay(v) \/ DeleteRows(v) \/ DeleteWorkspace(v)
                 \/ \E m \in SwitchModes : SwitchWrite(v, m)
          PROVE  UNCHANGED <<mode[w], posture[w], vm[w]>>
      <4>1. UNCHANGED <<posture[w], vm[w]>>
        BY <1>type, <3>2 DEF TeardownClearFails, Detached, StopDetached, Attach,
          SwitchCommit, SwitchFails, SwitchReplay, DeleteRows, DeleteWorkspace,
          SwitchWrite
      <4>2. UNCHANGED mode[w]
        BY <1>type, <3>2 DEF TeardownClearFails, Detached, StopDetached, Attach,
          SwitchCommit, SwitchFails, SwitchReplay, PutBack, DeleteRows,
          DeleteWorkspace, SwitchWrite
      <4> QED
        BY <4>1, <4>2
    <3> QED
      BY <1>9, <3>1, <3>2, EnvFootprint
  <2>2. UNCHANGED prior[w]
    <3>1. ASSUME NEW v \in Workspaces, v # w,
                 \/ SwitchCommit(v) \/ SwitchFails(v) \/ SwitchReplay(v)
                 \/ SwitchUnattached(v)
                 \/ \E m \in SwitchModes : SwitchWrite(v, m)
          PROVE  UNCHANGED prior[w]
      BY <1>type, <3>1 DEF SwitchCommit, SwitchFails, SwitchReplay,
        SwitchUnattached, SwitchWrite, SwitchOver
    <3> QED
      BY <1>9, <3>1, PriorFootprint
  <2> QED
    BY <1>2, <1>9, <2>1, <2>2, ReplayFootprint
<1> QED
  BY <1>1, <1>3, <1>4, <1>5, <1>6, <1>7, <1>8, <1>9

LEMMA PostureInit == Init => PostureInv
  BY DEF Init, PostureInv, PostureHolds, IdleTeardown, Teardowns

-------------------------------------------------------------------------------

\* All that is invariant of the consent engine.
EndInv == IInv /\ FrameInv /\ RowInv /\ QueueInv /\ PostureInv

\* The invariant is inductive, whatever the workspaces, flows, decide
\* requests, faults and restarts.
THEOREM EndInvariant == Spec => []EndInv
<1>1. Init => EndInv
  BY InvInit, FrameInit, RowInit, QueueInit, PostureInit DEF EndInv
<1>2. EndInv /\ [Next]_vars => EndInv'
  BY InvStep, FrameStep, RowStep, KindsStep, QueuesStep, PostureStep
  DEF EndInv, IInv, TypeInv, QueueInv
<1> QED
  BY <1>1, <1>2, PTL DEF Spec

\* Deciders hear of a request's end at most once, and of a verdict only when
\* it was committed: a cancel in the tail of a resolve, a timeout or a
\* teardown behind it publishes nothing.
THEOREM OneFrame == Spec => []OneTruthfulFrame
<1>1. EndInv => OneTruthfulFrame
  BY FrameOneTruthful DEF EndInv, IInv
<1> QED
  BY EndInvariant, <1>1, PTL

\* While decide requests run to their end, nobody is told "expired" of a
\* verdict in force.
THEOREM ExpiredIsUnruled == Spec => []ExpiredMeansUnruled
<1>1. EndInv => ExpiredMeansUnruled
  BY DEF EndInv, FrameInv
<1> QED
  BY EndInvariant, <1>1, PTL

\* One destination has one pending row at most, however many connections
\* race to it.
THEOREM OnePrompt == Spec => []OnePendingPerDest
<1>1. EndInv => OnePendingPerDest
  BY AtMostOnePending DEF EndInv, IInv, TypeInv, RowInv
<1> QED
  BY EndInvariant, <1>1, PTL

\* A pending row is somebody's to close, but for a failed transaction or a
\* consumer stopped while its flow awaited the INSERT.
THEOREM PendingIsOwned == Spec => []PendingRowsAreOwned
<1>1. EndInv => PendingRowsAreOwned
  <2> SUFFICES ASSUME TypeOK, RowsOwned, NEW f \in Flows, IsPending(rows[f])
               PROVE  WillClose(f) \/ faults > 0 \/ flow[f] = "cut"
    BY DEF EndInv, IInv, TypeInv, RowInv, PendingRowsAreOwned
  <2>1. faults \in Nat
    BY BoundsAssumption DEF TypeOK
  <2> QED
    BY <2>1 DEF RowsOwned
<1> QED
  BY EndInvariant, <1>1, PTL

\* No packet is still held once its workspace enforces a posture without a
\* queue.
THEOREM NothingHeldUngated == Spec => []NoneHeldUngated
<1>1. EndInv => NoneHeldUngated
  BY NoneUngated DEF EndInv
<1> QED
  BY EndInvariant, <1>1, PTL

\* A gate that the row of an attached workspace shows is the gate its table
\* enforces, whatever switches installed, failed or were undone, short of a
\* failed transaction.
THEOREM GatedPostures == Spec => []GatedRowsEnforced
<1>1. EndInv => GatedRowsEnforced
  BY DEF EndInv, PostureInv, PostureHolds, RowBefore, GatedRowsEnforced
<1> QED
  BY EndInvariant, <1>1, PTL
===============================================================================
