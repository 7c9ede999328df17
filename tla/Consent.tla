-------------------------------- MODULE Consent --------------------------------
(***************************************************************************)
(* The consent engine (consent/coordinator.py): the holds of new flows,    *)
(* the three ways a hold ends (a decider's verdict, its timeout, a         *)
(* teardown), the session memory, and the consent rows underneath.         *)
(*                                                                         *)
(* The daemon is one event loop: code between two awaits is one action,    *)
(* and every await (a database transaction, a sleep, another task) is a    *)
(* point where the other tasks run.  A transaction and the code that       *)
(* resumes after it are therefore two actions.                             *)
(*                                                                         *)
(* A flow is one new connection whose first packet reaches the workspace's *)
(* queue (net/nfq.py).  A hold mints at most one row, so the row's id is   *)
(* the flow's name.                                                        *)
(***************************************************************************)
EXTENDS Naturals, Sequences, EgressRows

CONSTANTS
  Workspaces,     \* the workspaces the daemon serves
  Dests,          \* destinations: a host and a port
  Flows,          \* the connections guests open, once each
  WsOf,           \* WsOf[f]: the workspace a flow comes from
  DestOf,         \* DestOf[f]: where a flow goes
  HostOf,         \* HostOf[d]: the host of a destination
  Resolvers,      \* decide requests that may run at once
  Offered,        \* the durations deciders choose from
  RateLimit,      \* MSKSD_EGRESS_CONSENT_RATE_LIMIT, 0 for no cap
  Daemon,         \* the teardown that closes every workspace's holds
  NoFlow,         \* no flow
  StartModes,     \* bound: the postures workspaces are created with
  SwitchModes,    \* bound: the postures operators switch to
  MaxFaults,      \* bound: database transactions that fail
  MaxRestarts,    \* bound: daemon restarts
  CancelRequests  \* whether a decide request may be cancelled

Modes == {"allow", "static", "interactive"}

ASSUME WorkspacesAssumption == Daemon \notin Workspaces
ASSUME FlowsAssumption ==
  /\ NoFlow \notin Flows
  /\ WsOf \in [Flows -> Workspaces]
  /\ DestOf \in [Flows -> Dests]
  /\ Dests \subseteq DOMAIN HostOf
ASSUME BoundsAssumption ==
  /\ RateLimit \in Nat
  /\ Offered \subseteq Durations
  /\ StartModes \subseteq Modes
  /\ SwitchModes \subseteq Modes
  /\ MaxFaults \in Nat
  /\ MaxRestarts \in Nat
  /\ CancelRequests \in BOOLEAN

Teardowns == Workspaces \cup {Daemon}

VARIABLES
  rows,      \* the consent table, one row per flow that was ever held
  mode,      \* the egress_mode column; "missing" once the row is deleted
  prior,     \* set_egress_policy in flight: the mode it replaced, else "none"
  posture,   \* services.policy: the mode the attached table enforces
  vm,        \* "down", "attached", "detached" (runs unattached), "wedged"
             \* (down, its teardown failed half-way), "deleting"
  holds,     \* ConsentEngine._holds
  fut,       \* each hold's future
  timer,     \* each hold's timeout task
  session,   \* SessionMemory: <<workspace, dest, verdict>>
  flow,      \* where each flow's decide task stands, then how it ended
  res,       \* decide requests in flight (resolve)
  td,        \* teardowns in flight (fail_close_workspace, stop)
  undo,      \* flows whose revoke flipped the row and has not yet resumed
  ruled,     \* history: the verdict a transaction ever committed for a row
  told,      \* history: the egress.resolved labels published for a row
  faults, restarts

rowVars  == <<rows, ruled>>
memVars  == <<holds, fut, timer, session>>
taskVars == <<flow, res, td, undo>>
envVars  == <<mode, prior, posture, vm>>
vars == <<rowVars, memVars, taskVars, envVars, told, faults, restarts>>

IdleResolve ==
  [pc |-> "idle", req |-> NoFlow, verdict |-> "none", duration |-> "none"]
IdleTeardown ==
  [pc |-> "idle", kind |-> "none", todo |-> {}, cur |-> NoFlow]

\* A flow's task runs: it has neither an answer nor been cut off.
Gating    == {"mode", "gate", "pending", "cap", "create", "register", "wait"}
Recording == {"record-allow", "record-deny"}
Active    == Gating \cup Recording
Ended     == {"allow", "deny", "cut"}

\* A transaction that fails leaves the table as it was.
Fault == faults < MaxFaults /\ faults' = faults + 1
NoFault == UNCHANGED faults

\* No request is taken once the daemon's shutdown has begun.
Serving == td[Daemon].pc = "idle"

-------------------------------------------------------------------------------
(***************************************************************************)
(* The hold gate: route_packet, then hold / mode_verdict / fast_refusal /  *)
(* interactive_hold, one action per stretch between awaits.                *)
(***************************************************************************)

\* The consumer that takes the packet exists while the workspace is
\* attached in the interactive posture.
Bound(w) == vm[w] = "attached" /\ posture[w] = "interactive"

\* route_packet: the session memory answers at once, allow before deny;
\* else the flow's decide task starts.
Arrive(f) ==
  LET w == WsOf[f]
      Remembers(v) == <<w, DestOf[f], v>> \in session
  IN /\ flow[f] = "idle"
     /\ Bound(w)
     /\ \E step \in {"allow", "deny", "mode"} :
          /\ step = "allow" <=> Remembers("allowed")
          /\ step = "deny" <=> ~Remembers("allowed") /\ Remembers("denied")
          /\ flow' = [flow EXCEPT ![f] = step]
     /\ UNCHANGED <<rowVars, memVars, res, td, undo, envVars, told, faults,
                    restarts>>

GoTo(f, pc) ==
  /\ flow' = [flow EXCEPT ![f] = pc]
  /\ UNCHANGED <<res, td, undo, envVars, told, restarts>>

\* hold reads the workspace's row: no row denies, as does any failure.
HoldMode(f) ==
  /\ flow[f] = "mode"
  /\ \/ mode[WsOf[f]] = "missing" /\ GoTo(f, "deny")
     \/ mode[WsOf[f]] = "allow" /\ GoTo(f, "record-allow")
     \/ mode[WsOf[f]] = "static" /\ GoTo(f, "record-deny")
     \/ mode[WsOf[f]] = "interactive" /\ GoTo(f, "gate")
  /\ NoFault
  /\ UNCHANGED <<rowVars, memVars>>

\* The answers no human gave, once record_policy wrote their audit row; the
\* engine reads no such row, so the table here leaves them out.
HoldRecord(f) ==
  /\ flow[f] \in Recording
  /\ GoTo(f, IF flow[f] = "record-allow" THEN "allow" ELSE "deny")
  /\ NoFault
  /\ UNCHANGED <<rowVars, memVars>>

\* fast_refusal: has_decider.  Deciders' sockets open and close as they
\* please, so either answer may be read: no live decider, nobody to ask.
HoldGate(f) ==
  /\ flow[f] = "gate"
  /\ GoTo(f, "pending") \/ GoTo(f, "record-deny")
  /\ NoFault
  /\ UNCHANGED <<rowVars, memVars>>

\* fast_refusal: has_pending, the duplicate before the cap.
HoldPending(f) ==
  /\ flow[f] = "pending"
  /\ \/ PendingFor(rows, WsOf[f], DestOf[f]) # {} /\ GoTo(f, "deny")
     \/ /\ PendingFor(rows, WsOf[f], DestOf[f]) = {}
        /\ GoTo(f, IF RateLimit > 0 THEN "cap" ELSE "create")
  /\ NoFault
  /\ UNCHANGED <<rowVars, memVars>>

\* fast_refusal: count_pending against the cap.
HoldCap(f) ==
  /\ flow[f] = "cap"
  /\ GoTo(f, IF Cardinality(PendingOf(rows, WsOf[f])) >= RateLimit
             THEN "deny" ELSE "create")
  /\ NoFault
  /\ UNCHANGED <<rowVars, memVars>>

\* interactive_hold: the INSERT, refused by a racing insert's row.
HoldCreate(f) ==
  /\ flow[f] = "create"
  /\ \/ /\ CanCreate(rows, WsOf[f], DestOf[f])
        /\ rows' = Created(rows, f, WsOf[f], DestOf[f])
        /\ GoTo(f, "register")
     \/ /\ ~CanCreate(rows, WsOf[f], DestOf[f])
        /\ GoTo(f, "deny")
        /\ UNCHANGED rows
  /\ NoFault
  /\ UNCHANGED <<ruled, memVars>>

\* hold's except arm: a transaction that fails answers deny.
HoldFails(f) ==
  /\ flow[f] \in Active \ {"gate", "register", "wait"}
  /\ GoTo(f, "deny")
  /\ Fault
  /\ UNCHANGED <<rowVars, memVars>>

\* register_hold, when the INSERT's caller resumes.
HoldRegister(f) ==
  /\ flow[f] = "register"
  /\ holds' = holds \cup {f}
  /\ fut' = [fut EXCEPT ![f] = "open"]
  /\ timer' = [timer EXCEPT ![f] = "armed"]
  /\ GoTo(f, "wait")
  /\ NoFault
  /\ UNCHANGED <<rowVars, session>>

\* decide resumes with the future's verdict and applies it.
Answered(f) ==
  /\ flow[f] = "wait"
  /\ fut[f] \in {"allow", "deny"}
  /\ GoTo(f, fut[f])
  /\ NoFault
  /\ UNCHANGED <<rowVars, memVars>>

HoldStep(f) ==
  \/ HoldMode(f) \/ HoldRecord(f) \/ HoldGate(f) \/ HoldPending(f)
  \/ HoldCap(f) \/ HoldCreate(f) \/ HoldFails(f) \/ HoldRegister(f)
  \/ Answered(f)

-------------------------------------------------------------------------------
(***************************************************************************)
(* Popped holds.  finish and fail_close_hold answer an open future and     *)
(* leave a settled one alone.                                              *)
(***************************************************************************)

\* A faulty variant: no done check.
SettledAgain(f, answer) == [fut EXCEPT ![f] = answer]

Settled(f, answer) ==
  IF fut[f] = "open" THEN [fut EXCEPT ![f] = answer] ELSE fut

Finish(f, answer) == fut' = Settled(f, answer)

\* publish: the resolved frame, to every open decider.
Labels == Verdicts \cup {"expired"}
Published(f, label) == [told EXCEPT ![f] = Append(@, label)]

\* A faulty variant: the frame goes out for a settled future too.
FailCloseHoldAgain(f) ==
  /\ fut' = Settled(f, "deny")
  /\ told' = Published(f, "expired")

\* The deny and its frame go out together, or not at all.
FailCloseHold(f) ==
  /\ fut' = Settled(f, "deny")
  /\ told' = IF fut[f] = "open"
             THEN Published(f, "expired") ELSE told

\* task.cancel() ends a task that still sleeps.
Cancelled(f) ==
  IF timer[f] = "armed" THEN [timer EXCEPT ![f] = "ended"] ELSE timer

\* expire_pending with its failure swallowed.
TryExpire(f) ==
  /\ \/ rows' = Expired(rows, f) /\ NoFault
     \/ UNCHANGED rows /\ Fault
  /\ UNCHANGED ruled

-------------------------------------------------------------------------------
(***************************************************************************)
(* resolve: a decider's verdict.                                           *)
(***************************************************************************)

\* A faulty variant: resolve reads the hold and leaves it registered.
ResolvePeek(d) ==
  /\ Serving
  /\ res[d].pc = "idle"
  /\ \E f \in holds, verdict \in Verdicts, duration \in Offered :
       /\ timer' = Cancelled(f)
       /\ res' = [res EXCEPT ![d] = [pc |-> "decide", req |-> f,
                    verdict |-> verdict, duration |-> duration]]
  /\ UNCHANGED <<rowVars, holds, fut, session, flow, td, undo, envVars, told,
                 faults, restarts>>

\* The pop is synchronous and takes the timeout task with it.
ResolvePop(d) ==
  /\ Serving
  /\ res[d].pc = "idle"
  /\ \E f \in holds, verdict \in Verdicts, duration \in Offered :
       /\ holds' = holds \ {f}
       /\ timer' = Cancelled(f)
       /\ res' = [res EXCEPT ![d] = [pc |-> "decide", req |-> f,
                    verdict |-> verdict, duration |-> duration]]
  /\ UNCHANGED <<rowVars, fut, session, flow, td, undo, envVars, told, faults,
                 restarts>>

\* decide_or_none: the conditional UPDATE; no pending row, or a failed
\* write, and the resolver goes on without a row.
ResolveDecide(d) ==
  LET f == res[d].req
      Go(pc) == res' = [res EXCEPT ![d].pc = pc]
  IN /\ res[d].pc = "decide"
     /\ \/ /\ CanDecide(rows, f)
           /\ rows' = Decided(rows, f, res[d].verdict, res[d].duration)
           /\ ruled' = [ruled EXCEPT ![f] = res[d].verdict]
           /\ Go("decided")
           /\ NoFault
        \/ /\ ~CanDecide(rows, f)
           /\ Go("gone")
           /\ UNCHANGED <<rows, ruled, faults>>
        \/ /\ Go("gone")
           /\ Fault
           /\ UNCHANGED <<rows, ruled>>
     /\ UNCHANGED <<memVars, flow, td, undo, envVars, told, restarts>>

\* remember_verdict: a once verdict is remembered by nobody.
Remembered(f, verdict, duration) ==
  IF duration = "once" THEN session
  ELSE session \cup {<<WsOf[f], DestOf[f], verdict>>}

\* A committed verdict: the future, the session memory and the frame, with
\* no await between them.  The rules frame is the cancellable tail.
ResolveFinish(d) ==
  LET f == res[d].req IN
  /\ res[d].pc = "decided"
  /\ Finish(f, IF res[d].verdict = "allowed" THEN "allow" ELSE "deny")
  /\ session' = Remembered(f, res[d].verdict, res[d].duration)
  /\ told' = Published(f, res[d].verdict)
  /\ res' = [res EXCEPT ![d].pc = "tail"]
  /\ UNCHANGED <<rowVars, holds, timer, flow, td, undo, envVars, faults,
                 restarts>>

\* A faulty variant: the verdict asked for, whether or not it was written.
ResolveGoneAsAsked(d) ==
  /\ res[d].pc = "gone"
  /\ Finish(res[d].req, IF res[d].verdict = "allowed" THEN "allow" ELSE "deny")
  /\ res' = [res EXCEPT ![d].pc = "expire"]
  /\ UNCHANGED <<rowVars, holds, timer, session, flow, td, undo, envVars, told,
                 faults, restarts>>

\* No committed verdict: deny, then expire what may still be pending.
ResolveGone(d) ==
  /\ res[d].pc = "gone"
  /\ Finish(res[d].req, "deny")
  /\ res' = [res EXCEPT ![d].pc = "expire"]
  /\ UNCHANGED <<rowVars, holds, timer, session, flow, td, undo, envVars, told,
                 faults, restarts>>

ResolveExpire(d) ==
  LET f == res[d].req IN
  /\ res[d].pc = "expire"
  /\ TryExpire(f)
  /\ told' = Published(f, "expired")
  /\ res' = [res EXCEPT ![d].pc = "tail"]
  /\ UNCHANGED <<memVars, flow, td, undo, envVars, restarts>>

\* broadcast_rules changes nothing; it is the last await of a resolve.
ResolveTail(d) ==
  /\ res[d].pc = "tail"
  /\ res' = [res EXCEPT ![d] = IdleResolve]
  /\ UNCHANGED <<rowVars, memVars, flow, td, undo, envVars, told, faults,
                 restarts>>

\* The request's task is cancelled at any of its awaits: fail-close, then
\* expire best-effort.
ResolveCancelled(d) ==
  /\ CancelRequests
  /\ res[d].pc \in {"decide", "decided", "gone", "expire", "tail"}
  /\ FailCloseHold(res[d].req)
  /\ res' = [res EXCEPT ![d].pc = "abort"]
  /\ UNCHANGED <<rowVars, holds, timer, session, flow, td, undo, envVars,
                 faults, restarts>>

ResolveAbort(d) ==
  /\ res[d].pc = "abort"
  /\ TryExpire(res[d].req)
  /\ res' = [res EXCEPT ![d] = IdleResolve]
  /\ UNCHANGED <<memVars, flow, td, undo, envVars, told, restarts>>

ResolveStep(d) ==
  \/ ResolveDecide(d) \/ ResolveFinish(d) \/ ResolveGone(d)
  \/ ResolveExpire(d) \/ ResolveTail(d) \/ ResolveAbort(d)

-------------------------------------------------------------------------------
(***************************************************************************)
(* timeout_hold: fail_close on wake.  The pop comes first, so a resolve or *)
(* a teardown that already popped the hold makes the wake a no-op.         *)
(***************************************************************************)

TimerPop(f) ==
  /\ timer[f] = "armed"
  /\ timer' = [timer EXCEPT ![f] = IF f \in holds THEN "expire" ELSE "ended"]
  /\ holds' = holds \ {f}
  /\ UNCHANGED <<rowVars, fut, session, taskVars, envVars, told, faults,
                 restarts>>

\* A faulty variant: the hold is answered, its row left pending.
TimerExpireForgets(f) ==
  /\ timer[f] = "expire"
  /\ timer' = [timer EXCEPT ![f] = "close"]
  /\ UNCHANGED <<rowVars, holds, fut, session, taskVars, envVars, told, faults,
                 restarts>>

\* A faulty variant: a failed write ends the timeout task.
TimerExpireRaises(f) ==
  /\ timer[f] = "expire"
  /\ TryExpire(f)
  /\ timer' = [timer EXCEPT ![f] = IF faults' = faults THEN "close" ELSE "ended"]
  /\ UNCHANGED <<holds, fut, session, taskVars, envVars, told, restarts>>

TimerExpire(f) ==
  /\ timer[f] = "expire"
  /\ TryExpire(f)
  /\ timer' = [timer EXCEPT ![f] = "close"]
  /\ UNCHANGED <<holds, fut, session, taskVars, envVars, told, restarts>>

TimerClose(f) ==
  /\ timer[f] = "close"
  /\ FailCloseHold(f)
  /\ timer' = [timer EXCEPT ![f] = "ended"]
  /\ UNCHANGED <<rowVars, holds, session, taskVars, envVars, faults, restarts>>

TimerStep(f) == TimerPop(f) \/ TimerExpire(f) \/ TimerClose(f)

-------------------------------------------------------------------------------
(***************************************************************************)
(* Teardowns: fail_close_workspace under on_workspace_stop (a stop, or the *)
(* daemon's own detach) and under a mode switch; stop, the daemon's.  The  *)
(* ids are listed once, each hold is popped in turn, its row expired, its  *)
(* future answered, its timeout task reaped.                               *)
(***************************************************************************)

\* A workspace's guard keeps its teardowns apart; the daemon's runs alone.
Scope(t) == IF t = Daemon THEN Flows ELSE {f \in Flows : WsOf[f] = t}

StartTeardown(t, kind) ==
  /\ td[t].pc = "idle"
  /\ td' = [td EXCEPT ![t] = [pc |-> "loop", kind |-> kind,
                              todo |-> holds \cap Scope(t), cur |-> NoFlow]]

\* detach of an attached workspace: for a stop, or from NetManager.stop,
\* which follows the engine's own stop at daemon shutdown.
Detach(w) ==
  /\ vm[w] = "attached"
  /\ \/ Serving /\ StartTeardown(w, "stop")
     \/ td[Daemon].pc = "stopped" /\ StartTeardown(w, "shutdown")
  /\ UNCHANGED <<rowVars, memVars, flow, res, undo, envVars, told, faults,
                 restarts>>

\* detach of a workspace this daemon never attached: an early return.
StopDetached(w) ==
  /\ Serving
  /\ vm[w] = "detached"
  /\ vm' = [vm EXCEPT ![w] = "down"]
  /\ UNCHANGED <<rowVars, memVars, taskVars, mode, prior, posture,
                 told, faults, restarts>>

\* ConsentEngine.stop at daemon shutdown.
StopEngine ==
  /\ restarts < MaxRestarts
  /\ StartTeardown(Daemon, "engine")
  /\ UNCHANGED <<rowVars, memVars, flow, res, undo, envVars, told, faults,
                 restarts>>

\* A faulty variant: the timeout task of a hold that vanished is cancelled
\* too, wherever it stands.
TeardownPopReapsVanished(t) ==
  /\ td[t].pc = "loop"
  /\ \E f \in td[t].todo :
       /\ td' = [td EXCEPT ![t].pc = IF f \in holds THEN "expire" ELSE "loop",
                           ![t].cur = IF f \in holds THEN f ELSE NoFlow,
                           ![t].todo = @ \ {f}]
       /\ timer' = IF f \in holds THEN timer ELSE [timer EXCEPT ![f] = "ended"]
       /\ holds' = holds \ {f}
  /\ UNCHANGED <<rowVars, fut, session, flow, res, undo, envVars, told, faults,
                 restarts>>

TeardownPop(t) ==
  /\ td[t].pc = "loop"
  /\ \E f \in td[t].todo \cap holds :
       /\ holds' = holds \ {f}
       /\ td' = [td EXCEPT ![t].pc = "expire", ![t].cur = f,
                           ![t].todo = @ \ {f}]
  /\ UNCHANGED <<rowVars, fut, timer, session, flow, res, undo, envVars, told,
                 faults, restarts>>

TeardownExpire(t) ==
  /\ td[t].pc = "expire"
  /\ TryExpire(td[t].cur)
  /\ td' = [td EXCEPT ![t].pc = "close"]
  /\ UNCHANGED <<memVars, flow, res, undo, envVars, told, restarts>>

TeardownClose(t) ==
  LET f == td[t].cur IN
  /\ td[t].pc = "close"
  /\ FailCloseHold(f)
  /\ timer' = Cancelled(f)
  /\ td' = [td EXCEPT ![t].pc = "loop", ![t].cur = NoFlow]
  /\ UNCHANGED <<rowVars, holds, session, flow, res, undo, envVars, faults,
                 restarts>>

\* The loop is over when every listed hold was popped, here or elsewhere.
LoopOver(t) == td[t].pc = "loop" /\ td[t].todo \cap holds = {}

\* on_workspace_stop then drops the session memory, and awaits the rows'.
TeardownForget(w) ==
  /\ LoopOver(w)
  /\ td[w].kind \in {"stop", "shutdown"}
  /\ session' = {e \in session : e[1] # w}
  /\ td' = [td EXCEPT ![w].pc = "clear"]
  /\ UNCHANGED <<rowVars, holds, fut, timer, flow, res, undo, envVars, told,
                 faults, restarts>>

TeardownClear(w) ==
  /\ td[w].pc = "clear"
  /\ rows' = Deleted(rows, TilrestartOf(rows, w))
  /\ td' = [td EXCEPT ![w].pc = "unbind"]
  /\ UNCHANGED <<ruled, memVars, flow, res, undo, envVars, told, faults,
                 restarts>>

\* FlowConsumer.stop: the queue's tasks are cancelled, with the future one
\* of them awaits; what the kernel still holds is dropped.
CutOff(w) ==
  LET cut == {f \in Flows : WsOf[f] = w /\ flow[f] \in Active} IN
  /\ flow' = [f \in Flows |-> IF f \in cut THEN "cut" ELSE flow[f]]
  /\ fut' = [f \in Flows |->
               IF f \in cut /\ fut[f] = "open" THEN "cancelled" ELSE fut[f]]

Detached(w) ==
  /\ td[w].pc = "unbind"
  /\ CutOff(w)
  /\ vm' = [vm EXCEPT ![w] =
              IF td[w].kind = "stop" THEN "down" ELSE "detached"]
  /\ td' = [td EXCEPT ![w] = IdleTeardown]
  /\ UNCHANGED <<rowVars, holds, timer, session, res, undo, mode, prior,
                 posture, told, faults, restarts>>

EngineStopped ==
  /\ LoopOver(Daemon)
  /\ td' = [td EXCEPT ![Daemon].pc = "stopped"]
  /\ UNCHANGED <<rowVars, memVars, flow, res, undo, envVars, told, faults,
                 restarts>>

\* A failed clear_tilrestart raises out of detach: the record of the
\* attachment is gone, the queue, its tasks and the slice stay behind, and
\* the slice's claim refuses the next boot.
TeardownClearFails(w) ==
  /\ td[w].pc = "clear"
  /\ Fault
  /\ vm' = [vm EXCEPT ![w] =
              IF td[w].kind = "stop" THEN "wedged" ELSE "detached"]
  /\ td' = [td EXCEPT ![w] = IdleTeardown]
  /\ UNCHANGED <<rowVars, memVars, flow, res, undo, mode, prior, posture,
                 told, restarts>>

-------------------------------------------------------------------------------
(***************************************************************************)
(* set_egress_policy and NetManager.apply_policy: the row first, then the  *)
(* live switch under the workspace's guard, the row put back if it fails.  *)
(***************************************************************************)

SwitchWrite(w, m) ==
  /\ Serving
  /\ prior[w] = "none"
  /\ mode[w] # "missing"
  /\ vm[w] # "deleting"
  /\ prior' = [prior EXCEPT ![w] = mode[w]]
  /\ mode' = [mode EXCEPT ![w] = m]
  /\ UNCHANGED <<rowVars, memVars, taskVars, posture, vm, told,
                 faults, restarts>>

Switching(w) == prior[w] # "none"

Leaves(w) == posture[w] = "interactive" /\ mode[w] # "interactive"

\* retire_interactive_holds: only when the swap drops the queue rule.
SwitchRetire(w) ==
  /\ Switching(w)
  /\ vm[w] = "attached"
  /\ Leaves(w)
  /\ StartTeardown(w, "switch")
  /\ UNCHANGED <<rowVars, memVars, flow, res, undo, envVars, told, faults,
                 restarts>>

\* The point where the swapped table installs, or fails to.
AtInstall(w) ==
  /\ Switching(w)
  /\ vm[w] = "attached"
  /\ IF Leaves(w) THEN LoopOver(w) /\ td[w].kind = "switch"
                  ELSE td[w].pc = "idle"

\* A faulty variant: the old consumer is not stopped.
SwitchCommitKeepsQueue(w) ==
  /\ AtInstall(w)
  /\ posture' = [posture EXCEPT ![w] = mode[w]]
  /\ prior' = [prior EXCEPT ![w] = "none"]
  /\ td' = [td EXCEPT ![w] = IdleTeardown]
  /\ UNCHANGED <<rowVars, memVars, flow, res, undo, mode, vm, told, faults,
                 restarts>>

\* Entering a gated posture from allow replays the durable verdicts, which
\* an allow table kept no sets for, into the new table.
Replays(w) == posture[w] = "allow" /\ mode[w] # "allow"

\* The switch leaves the guard, and its request the move lock.
SwitchOver(w) ==
  /\ prior' = [prior EXCEPT ![w] = "none"]
  /\ td' = [td EXCEPT ![w] = IdleTeardown]

\* commit_switch; leaving interactive stops the old consumer.
SwitchCommit(w) ==
  /\ AtInstall(w)
  /\ IF Leaves(w) THEN CutOff(w) ELSE UNCHANGED <<flow, fut>>
  /\ posture' = [posture EXCEPT ![w] = mode[w]]
  /\ \/ ~Replays(w) /\ SwitchOver(w)
     \/ /\ Replays(w)
        /\ td' = [td EXCEPT ![w].pc = "replay"]
        /\ UNCHANGED prior
  /\ UNCHANGED <<rowVars, holds, timer, session, res, undo, mode, vm,
                 told, faults, restarts>>

\* The row's mode goes back, best-effort.
PutBack(w) ==
  \/ mode' = [mode EXCEPT ![w] = prior[w]] /\ NoFault
  \/ UNCHANGED mode /\ Fault

\* The new table did not install: the old one still enforces.
SwitchFails(w) ==
  /\ AtInstall(w)
  /\ PutBack(w)
  /\ SwitchOver(w)
  /\ UNCHANGED <<rowVars, memVars, flow, res, undo, posture, vm,
                 told, restarts>>

Durable(w) ==
  {f \in RowsOf(rows, w) : /\ rows[f].decision \in Verdicts
                           /\ rows[f].duration = "forever"}

\* replay_switch_verdicts, after the commit: an nft run that cannot pin a
\* verdict raises out of the switch, and the request puts the row back.
SwitchReplay(w) ==
  /\ Switching(w)
  /\ td[w].pc = "replay"
  /\ \/ UNCHANGED mode /\ NoFault
     \/ Durable(w) # {} /\ PutBack(w)
  /\ SwitchOver(w)
  /\ UNCHANGED <<rowVars, memVars, flow, res, undo, posture, vm,
                 told, restarts>>

\* switch_live finds no attachment: the row's change is the whole switch.
SwitchUnattached(w) ==
  /\ Switching(w)
  /\ vm[w] # "attached"
  /\ td[w].pc = "idle"
  /\ prior' = [prior EXCEPT ![w] = "none"]
  /\ UNCHANGED <<rowVars, memVars, taskVars, mode, posture, vm,
                 told, faults, restarts>>

SwitchStep(w) ==
  \/ SwitchRetire(w) \/ SwitchCommit(w) \/ SwitchFails(w) \/ SwitchReplay(w)
  \/ SwitchUnattached(w)

TeardownStep(t) ==
  \/ TeardownPop(t) \/ TeardownExpire(t) \/ TeardownClose(t)
  \/ /\ t = Daemon
     /\ EngineStopped
  \/ /\ t # Daemon
     /\ \/ TeardownForget(t) \/ TeardownClear(t) \/ TeardownClearFails(t)
        \/ Detached(t)

-------------------------------------------------------------------------------
(***************************************************************************)
(* revoke: the row, then (resuming) the session memory of its host, every  *)
(* port of it.                                                             *)
(***************************************************************************)

RevokeFlip(f) ==
  /\ Serving
  /\ CanRevoke(rows, f)
  /\ rows' = Revoked(rows, f)
  /\ undo' = undo \cup {f}
  /\ UNCHANGED <<ruled, memVars, flow, res, td, envVars, told, faults,
                 restarts>>

RevokeForget(f) ==
  /\ f \in undo
  /\ session' = {e \in session :
                   e[1] # WsOf[f] \/ HostOf[e[2]] # HostOf[DestOf[f]]}
  /\ undo' = undo \ {f}
  /\ UNCHANGED <<rowVars, holds, fut, timer, flow, res, td, envVars, told,
                 faults, restarts>>

-------------------------------------------------------------------------------
(***************************************************************************)
(* What the engine meets: boots, deciders' sockets, deletes, restarts.     *)
(***************************************************************************)

\* A boot builds the row's mode; the move lock keeps it off a switch.
Attach(w) ==
  /\ Serving
  /\ vm[w] = "down"
  /\ mode[w] # "missing"
  /\ ~Switching(w)
  /\ td[w].pc = "idle"
  /\ vm' = [vm EXCEPT ![w] = "attached"]
  /\ posture' = [posture EXCEPT ![w] = mode[w]]
  /\ UNCHANGED <<rowVars, memVars, taskVars, mode, prior, told,
                 faults, restarts>>

\* delete_workspace, once the VM is down: the consent rows, then the row.
DeleteRows(w) ==
  /\ Serving
  /\ vm[w] \in {"down", "wedged"}
  /\ mode[w] # "missing"
  /\ ~Switching(w)
  /\ td[w].pc = "idle"
  /\ rows' = Deleted(rows, RowsOf(rows, w))
  /\ vm' = [vm EXCEPT ![w] = "deleting"]
  /\ UNCHANGED <<ruled, memVars, taskVars, mode, prior, posture,
                 told, faults, restarts>>

DeleteWorkspace(w) ==
  /\ vm[w] = "deleting"
  /\ mode' = [mode EXCEPT ![w] = "missing"]
  /\ vm' = [vm EXCEPT ![w] = "down"]
  /\ UNCHANGED <<rowVars, memVars, taskVars, prior, posture, told,
                 faults, restarts>>

\* A faulty variant: start expires nothing.
RestartKeepsRows ==
  /\ restarts < MaxRestarts
  /\ restarts' = restarts + 1
  /\ holds' = {} /\ session' = {} /\ undo' = {}
  /\ fut' = [f \in Flows |-> IF fut[f] = "open" THEN "cancelled" ELSE fut[f]]
  /\ timer' = [f \in Flows |-> "none"]
  /\ flow' = [f \in Flows |-> IF flow[f] \in Active THEN "cut" ELSE flow[f]]
  /\ res' = [d \in Resolvers |-> IdleResolve]
  /\ td' = [t \in Teardowns |-> IdleTeardown]
  /\ prior' = [w \in Workspaces |-> "none"]
  /\ vm' = [w \in Workspaces |->
              IF vm[w] \in {"attached", "detached"} THEN "detached" ELSE "down"]
  /\ UNCHANGED <<rows, ruled, mode, posture, told, faults>>

\* The process dies, its memory with it (VMs run on, unattached); start
\* reaps the pending rows before anything is served.
Restart ==
  /\ restarts < MaxRestarts
  /\ restarts' = restarts + 1
  /\ rows' = AllExpired(rows)
  /\ holds' = {} /\ session' = {} /\ undo' = {}
  /\ fut' = [f \in Flows |-> IF fut[f] = "open" THEN "cancelled" ELSE fut[f]]
  /\ timer' = [f \in Flows |-> "none"]
  /\ flow' = [f \in Flows |-> IF flow[f] \in Active THEN "cut" ELSE flow[f]]
  /\ res' = [d \in Resolvers |-> IdleResolve]
  /\ td' = [t \in Teardowns |-> IdleTeardown]
  /\ prior' = [w \in Workspaces |-> "none"]
  /\ vm' = [w \in Workspaces |->
              IF vm[w] \in {"attached", "detached"} THEN "detached" ELSE "down"]
  /\ UNCHANGED <<ruled, mode, posture, told, faults>>

-------------------------------------------------------------------------------

Init ==
  /\ rows = [f \in Flows |-> [decision |-> "absent", ws |-> WsOf[f],
                              dest |-> DestOf[f], duration |-> "none"]]
  /\ holds = {} /\ session = {} /\ undo = {}
  /\ mode \in [Workspaces -> StartModes]
  /\ posture = mode
  /\ prior = [w \in Workspaces |-> "none"]
  /\ vm = [w \in Workspaces |-> "down"]
  /\ fut = [f \in Flows |-> "none"]
  /\ timer = [f \in Flows |-> "none"]
  /\ flow = [f \in Flows |-> "idle"]
  /\ res = [d \in Resolvers |-> IdleResolve]
  /\ td = [t \in Teardowns |-> IdleTeardown]
  /\ ruled = [f \in Flows |-> "none"]
  /\ told = [f \in Flows |-> <<>>]
  /\ faults = 0 /\ restarts = 0

Next ==
  \/ \E f \in Flows : \/ Arrive(f) \/ HoldStep(f) \/ TimerStep(f)
                      \/ RevokeFlip(f) \/ RevokeForget(f)
  \/ \E d \in Resolvers : ResolvePop(d) \/ ResolveStep(d) \/ ResolveCancelled(d)
  \/ \E t \in Teardowns : TeardownStep(t)
  \/ \E w \in Workspaces : \/ Detach(w) \/ StopDetached(w) \/ Attach(w)
                           \/ SwitchStep(w)
                           \/ DeleteRows(w) \/ DeleteWorkspace(w)
                           \/ \E m \in SwitchModes : SwitchWrite(w, m)
  \/ StopEngine
  \/ Restart

Spec == Init /\ [][Next]_vars

\* The event loop runs every ready task; a transaction, a sleep and an nft
\* run end.  Nothing makes guests, deciders or operators act.
Fairness ==
  /\ \A f \in Flows : /\ WF_vars(HoldStep(f))
                      /\ WF_vars(TimerStep(f))
                      /\ WF_vars(RevokeForget(f))
  /\ \A d \in Resolvers : WF_vars(ResolveStep(d))
  /\ \A t \in Teardowns : WF_vars(TeardownStep(t))
  /\ \A w \in Workspaces : WF_vars(SwitchStep(w))

FairSpec == Spec /\ Fairness

-------------------------------------------------------------------------------
(***************************************************************************)
(* Properties.                                                             *)
(***************************************************************************)

ResolvePcs == {"idle", "decide", "decided", "gone", "expire", "abort", "tail"}
TeardownPcs == {"idle", "loop", "expire", "close", "clear", "unbind", "stopped",
                "replay"}

ResolveType ==
  [pc : ResolvePcs, req : Flows \cup {NoFlow},
   verdict : Verdicts \cup {"none"}, duration : Durations \cup {"none"}]
TeardownType ==
  [pc : TeardownPcs, kind : {"none", "stop", "shutdown", "switch", "engine"},
   todo : SUBSET Flows, cur : Flows \cup {NoFlow}]

TypeOK ==
  /\ rows \in [Flows -> RowType(Workspaces, Dests)]
  /\ session \subseteq Workspaces \X Dests \X Verdicts
  /\ mode \in [Workspaces -> Modes \cup {"missing"}]
  /\ prior \in [Workspaces -> Modes \cup {"none"}]
  /\ posture \in [Workspaces -> Modes]
  /\ vm \in [Workspaces -> {"down", "attached", "detached", "wedged", "deleting"}]
  /\ holds \subseteq Flows
  /\ fut \in [Flows -> {"none", "open", "allow", "deny", "cancelled"}]
  /\ timer \in [Flows ->
                 {"none", "armed", "expire", "close", "ended"}]
  /\ flow \in [Flows -> {"idle"} \cup Active \cup Ended]
  /\ res \in [Resolvers -> ResolveType]
  /\ td \in [Teardowns -> TeardownType]
  /\ undo \subseteq Flows
  /\ ruled \in [Flows -> Verdicts \cup {"none"}]
  /\ told \in [Flows -> Seq(Labels)]
  /\ faults \in 0..MaxFaults
  /\ restarts \in 0..MaxRestarts

\* Who has popped the hold of f and still owes its future an answer.
ResolverOwes(f) ==
  {d \in Resolvers : res[d].req = f /\ res[d].pc \in {"decide", "decided", "gone"}}
TeardownOwes(f) ==
  {t \in Teardowns : td[t].cur = f /\ td[t].pc \in {"expire", "close"}}
TimerOwes(f) == timer[f] \in {"expire", "close"}

\* No held packet is stranded and none has two closers: while its future is
\* open, the flow is registered with its timeout armed, or exactly one of a
\* resolve, the timeout and a teardown has popped it and will answer.  Were
\* a timeout task cancelled between its pop and its answer (the order stop's
\* docstring warns of), the future would stay open with nobody left.
OneCloser ==
  \A f \in Flows : fut[f] = "open" =>
    \/ /\ f \in holds
       /\ timer[f] = "armed"
       /\ ResolverOwes(f) = {} /\ TeardownOwes(f) = {}
    \/ /\ f \notin holds
       /\ TimerOwes(f)
       /\ ResolverOwes(f) = {} /\ TeardownOwes(f) = {}
    \/ /\ f \notin holds
       /\ ~TimerOwes(f)
       /\ \/ (\E d \in Resolvers : ResolverOwes(f) = {d}) /\ TeardownOwes(f) = {}
          \/ (\E t \in Teardowns : TeardownOwes(f) = {t}) /\ ResolverOwes(f) = {}

\* A packet is released, and a host remembered, only on a verdict that a
\* transaction committed: not on one whose write failed, found the row
\* expired by the timeout, or found it deleted with its workspace.
AllowsAreRuled ==
  /\ \A f \in Flows : fut[f] = "allow" => ruled[f] = "allowed"
  /\ \A e \in session : \E f \in Flows :
       WsOf[f] = e[1] /\ DestOf[f] = e[2] /\ ruled[f] = e[3]

\* Deciders hear of a request's end at most once, and hear "allowed" or
\* "denied" only of a verdict that was committed: a cancel in the tail of a
\* resolve must not follow its frame with a second one.
OneTruthfulFrame ==
  \A f \in Flows :
    /\ Len(told[f]) <= 1
    /\ told[f] \in {<<"allowed">>, <<"denied">>} => told[f] = <<ruled[f]>>

\* While decide requests run to their end, a co-decider told that a request
\* expired is not told so of a verdict in force: the frame and the row agree
\* whichever of resolve, timeout and teardown came first.
ExpiredMeansUnruled ==
  \A f \in Flows :
    ~CancelRequests /\ told[f] = <<"expired">> => ruled[f] = "none"

\* Two connections racing to one destination prompt once: the reads before
\* the INSERT may all find nothing, the index still admits one pending row.
OnePendingPerDest ==
  \A w \in Workspaces, d \in Dests : Cardinality(PendingFor(rows, w, d)) <= 1

\* Whoever will move the pending row of f.
WillClose(f) ==
  \/ flow[f] = "register"
  \/ f \in holds
  \/ timer[f] = "expire"
  \/ \E d \in Resolvers :
       res[d].req = f /\ res[d].pc \in {"decide", "gone", "expire", "abort"}
  \/ \E t \in Teardowns : td[t].cur = f /\ td[t].pc = "expire"

\* A pending row holds its destination's only slot, so it must not outlive
\* the hold it stands for.  Two things can leave one behind until the next
\* start: a transaction that failed, and a consumer stopped while its flow
\* awaited the INSERT.
PendingRowsAreOwned ==
  \A f \in Flows : IsPending(rows[f]) =>
    WillClose(f) \/ faults > 0 \/ flow[f] = "cut"

\* Past a switch away from the queue no packet of the workspace is still
\* held: neither one listed when the holds were failed closed nor one that
\* registered after.
NoneHeldUngated ==
  \A f \in Flows :
    /\ vm[WsOf[f]] = "attached"
    /\ posture[WsOf[f]] # "interactive"
    => flow[f] \notin Active

\* Consent keeps the promises of Verdict.
Promise == INSTANCE Verdict WITH
  Requests <- Flows,
  ruling   <- [f \in Flows |-> rows[f].decision],
  granted  <- {f \in Flows : ruled[f] = "allowed"},
  answer   <- fut

KeepsPromise == Promise!Spec

\* Every connection that reached the gate gets its answer or is cut off with
\* its queue; the consumer waits on the future with no timeout of its own.
EveryFlowEnds == \A f \in Flows : flow[f] \in Active ~> flow[f] \in Ended

\* No hold and no pending row lasts: the timeout closes what nobody else did, and
\* a restart what the daemon before it left, also the row of a stopped consumer;
\* in one life of the daemon that row, or a failed transaction's, may stay.
EveryRowCloses ==
  \A f \in Flows, life \in 0..MaxRestarts :
    (IsPending(rows[f]) /\ restarts = life) ~>
      (~IsPending(rows[f]) \/ faults > 0 \/ (flow[f] = "cut" /\ restarts = life))

-------------------------------------------------------------------------------
(***************************************************************************)
(* What the code's own words say and its interleavings deny.               *)
(***************************************************************************)

\* "No hold is ever left pending forever" (the module's docstring), and a
\* pending row "wedges the destination's dedup slot until the startup
\* reaper" (resolve): a pending row always has somebody who will close it.
NoOrphanRow == \A f \in Flows : IsPending(rows[f]) => WillClose(f)

\* on_workspace_stop: "session memory and tilrestart verdicts go with" the
\* VM's table.
StopForgets ==
  \A w \in Workspaces :
    vm[w] = "down" /\ td[w].pc = "idle" =>
      /\ \A e \in session : e[1] # w
      /\ TilrestartOf(rows, w) = {}

\* set_egress_policy: after a switch that failed, "the old table still
\* enforces - so the row must not claim a posture the workspace does not run".
RowClaimsPosture ==
  \A w \in Workspaces :
    vm[w] = "attached" /\ ~Switching(w) => posture[w] = mode[w]
===============================================================================
