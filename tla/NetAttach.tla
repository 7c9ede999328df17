-------------------------------- MODULE NetAttach --------------------------------
(***************************************************************************)
(* The network manager's attachments (net/manager.py) and the interceptor  *)
(* that arms over them (interceptor/manager.py): attach, detach, the live  *)
(* posture switch and the placeholder refresh, each a task that may be     *)
(* overtaken at every await.                                               *)
(*                                                                         *)
(* Two kinds of lock order them: a guard per workspace, which its holder   *)
(* may take again, and the interceptor's one lock, which nobody may.       *)
(* Attach, detach and switch take the guard first and the lock inside it;  *)
(* a refresh that a placeholder route or the watcher asks for takes the    *)
(* lock first and the guard inside it.                                     *)
(*                                                                         *)
(* The kernel's tables and taps outlive the daemon.  A failed step is      *)
(* named in faults, by what the code leaves undone after it.               *)
(***************************************************************************)
EXTENDS Naturals, FiniteSets

CONSTANTS
  Workspaces,  \* workspaces that ask for egress
  Tasks,       \* calls that may be in flight at once
  Slices,      \* the /30 slices of the pool
  Nobody,      \* holder of a free lock
  NoSlice,     \* no slice
  Modes,       \* the postures each workspace is given in turn
  Changing,    \* workspaces whose posture and placeholders change
  MaxFaults    \* bound: restarts, and kinds of failure in a daemon's life

AllModes == {"allow", "static", "interactive"}
Gated == {"static", "interactive"}

ASSUME NetAssumption ==
  /\ Nobody \notin Tasks \cup Workspaces /\ NoSlice \notin Slices
  /\ Modes \in [Workspaces -> SUBSET AllModes]
  /\ MaxFaults \in Nat

VARIABLES
  guard,     \* of each workspace: who holds it and how deep
  lock,      \* the interceptor's lock
  attached,  \* the slice of each live attachment
  used,      \* slices the daemon counts as live
  services,  \* the posture of the registered services, "none" without any
  bound,     \* workspaces whose queue some consumer is bound to
  armed,     \* workspaces the interceptor's books hold a listener for
  master,    \* the embedded proxy: "none", "up" or "dead"
  recorded,  \* the slice each workspace's row remembers
  wanted,    \* workspaces that a live placeholder row covers
  table,     \* the kernel's table of each workspace
  taps,      \* workspaces whose tap exists
  task,      \* the calls in flight
  faults,    \* the kinds of failure of this daemon's life
  restarts

locks == <<guard, lock>>
proxy == <<armed, master>>
books == <<attached, services>>
rows == <<recorded, wanted>>
kernel == <<table, taps>>
life == <<faults, restarts>>
vars == <<locks, books, used, bound, proxy, rows, kernel, task, life>>

FreeGuard == [by |-> Nobody, depth |-> 0]
NoTable == [mode |-> "none", redirect |-> FALSE]
IdleTask ==
  [op |-> "none", ws |-> Nobody, pc |-> "idle", mode |-> "none",
   slice |-> NoSlice, goal |-> "none"]

\* A call that has just come in.
CallOf(op, w, m) ==
  [op |-> op, ws |-> w, pc |-> op, mode |-> m, slice |-> NoSlice, goal |-> "none"]

At(t, pc) == task[t].pc = pc
Ws(t) == task[t].ws
GoTo(t, pc) == task' = [task EXCEPT ![t].pc = pc]

\* On to a step with a slice in hand, or towards a goal: "on" (arm), "off"
\* (disarm), "rollback" (undo a failed arm).
Take(t, pc, s) == task' = [task EXCEPT ![t] = [@ EXCEPT !.pc = pc, !.slice = s]]
Aim(t, pc, goal) == task' = [task EXCEPT ![t] = [@ EXCEPT !.pc = pc, !.goal = goal]]

\* A step fails: "early" is unwound, "record" is a claim the row never learned,
\* "upstream" a build with its consumer in nobody's books, "late" a build whose
\* attachment is registered, "teardown" an undoing cut short, "rearm" a change
\* of listener or redirect, "switch" a change of posture, "master" the proxy's end.
Fault(kind) ==
  /\ faults' = faults \cup {kind}
  /\ Cardinality(faults') + restarts <= MaxFaults
  /\ UNCHANGED restarts

(***************************************************************************)
(* The locks.  A guard is re-entrant by task.                              *)
(***************************************************************************)
Enter(t, w) ==
  /\ guard[w].by \in {Nobody, t}
  /\ guard' = [guard EXCEPT ![w] = [by |-> t, depth |-> @.depth + 1]]

\* A faulty variant: only the outermost exit is counted.
ExitOutermost(w) ==
  guard' = [guard EXCEPT ![w] = IF @.depth = 1 THEN FreeGuard ELSE @]

Exit(w) ==
  guard' = [guard EXCEPT ![w] =
              IF @.depth = 1 THEN FreeGuard ELSE [by |-> @.by, depth |-> @.depth - 1]]

\* The call answers or raises: the guard it holds goes back.
Return(t) ==
  /\ guard' = [guard EXCEPT ![Ws(t)] = FreeGuard]
  /\ task' = [task EXCEPT ![t] = IdleTask]

Begin(t, op, w, m) ==
  /\ At(t, "idle")
  /\ task' = [task EXCEPT ![t] = CallOf(op, w, m)]
  /\ UNCHANGED <<locks, books, used, bound, proxy, rows, kernel, life>>

(***************************************************************************)
(* Attach: the slice, the queue, the tap, the table, the services, the     *)
(* attachment, the durable verdicts, and the interceptor last.             *)
(***************************************************************************)
AttachExisting(t) ==
  /\ At(t, "attach") /\ guard[Ws(t)].by = Nobody
  /\ attached[Ws(t)] # NoSlice
  /\ task' = [task EXCEPT ![t] = IdleTask]
  /\ UNCHANGED <<locks, books, used, bound, proxy, rows, kernel, life>>

AttachBuild(t) ==
  /\ At(t, "attach") /\ attached[Ws(t)] = NoSlice
  /\ Enter(t, Ws(t))
  /\ GoTo(t, "claim")
  /\ UNCHANGED <<lock, books, used, bound, proxy, rows, kernel, life>>

\* A faulty variant: the claim of a failed build stays.
UnwindKeepsSlice(t) == UNCHANGED used /\ GoTo(t, "unwind")

\* The build raised: its slice is given up at once, the rest is undone in steps.
Unwind(t) ==
  /\ used' = used \ {task[t].slice}
  /\ GoTo(t, "unwind")

\* An interactive posture binds its queue before anything refers to it.
BuildOn(t, s) ==
  LET w == Ws(t)
      asked == task[t].mode = "interactive" IN
  \/ /\ asked => w \notin bound
     /\ bound' = IF asked THEN bound \cup {w} ELSE bound
     /\ used' = used \cup {s}
     /\ Take(t, "tap", s)
     /\ UNCHANGED life
  \/ /\ asked
     /\ IF w \in bound THEN UNCHANGED life ELSE Fault("early")
     /\ used' = used \ {s}
     /\ Take(t, "unwind", s)
     /\ UNCHANGED bound

\* claim_slice on a row that remembers one.
ClaimRecorded(t) ==
  /\ At(t, "claim") /\ recorded[Ws(t)] \notin used \cup {NoSlice}
  /\ BuildOn(t, recorded[Ws(t)])
  /\ UNCHANGED <<locks, books, proxy, rows, kernel>>

\* A faulty variant: a fresh slice counts as live only when the row is written.
ClaimFreshUnmarked(t) ==
  /\ At(t, "claim") /\ recorded[Ws(t)] = NoSlice
  /\ \E s \in Slices \ used :
       Take(t, "record", s)
  /\ UNCHANGED <<locks, books, used, bound, proxy, rows, kernel, life>>

\* A fresh claim counts as live before the row remembers it.
ClaimFresh(t) ==
  /\ At(t, "claim") /\ recorded[Ws(t)] = NoSlice
  /\ \E s \in Slices \ used :
       /\ used' = used \cup {s}
       /\ Take(t, "record", s)
  /\ UNCHANGED <<locks, books, bound, proxy, rows, kernel, life>>

\* The recorded slice is another's, or the pool is exhausted.
ClaimRefused(t) ==
  /\ At(t, "claim")
  /\ \/ recorded[Ws(t)] \in used
     \/ recorded[Ws(t)] = NoSlice /\ Slices \subseteq used
  /\ Return(t)
  /\ UNCHANGED <<lock, books, used, bound, proxy, rows, kernel, life>>

\* A faulty variant: the row never learns the claim.
RecordNothing(t) ==
  /\ At(t, "record")
  /\ BuildOn(t, task[t].slice)
  /\ UNCHANGED <<locks, books, proxy, rows, kernel>>

RecordSlice(t) ==
  /\ At(t, "record")
  /\ recorded' = [recorded EXCEPT ![Ws(t)] = task[t].slice]
  /\ BuildOn(t, task[t].slice)
  /\ UNCHANGED <<locks, books, proxy, wanted, kernel>>

\* The write failed outside the build's own handler: the claim stays.
RecordFails(t) ==
  /\ At(t, "record") /\ Fault("record")
  /\ Return(t)
  /\ UNCHANGED <<lock, books, used, bound, proxy, rows, kernel>>

\* What an unclean death left is swept first; the run may fail half way.
MakeTap(t) ==
  /\ At(t, "tap")
  /\ \/ /\ taps' = taps \cup {Ws(t)}
        /\ GoTo(t, "table")
        /\ UNCHANGED <<used, bound, life>>
     \/ /\ Fault("early")
        /\ taps' \in {taps \ {Ws(t)}, taps \cup {Ws(t)}}
        /\ bound' = bound \ {Ws(t)}
        /\ Unwind(t)
  /\ UNCHANGED <<locks, books, proxy, rows, table>>

\* install_vm: one transaction, over whatever table was there.
InstallTable(t) ==
  /\ At(t, "table")
  /\ \/ /\ table' = [table EXCEPT ![Ws(t)] = [mode |-> task[t].mode, redirect |-> FALSE]]
        /\ GoTo(t, "serve")
        /\ UNCHANGED <<used, bound, life>>
     \/ /\ Fault("early")
        /\ bound' = bound \ {Ws(t)}
        /\ Unwind(t)
        /\ UNCHANGED table
  /\ UNCHANGED <<locks, books, proxy, rows, taps>>

\* The services are registered before they start; a missing upstream resolver
\* raises before that, with the consumer in nobody's books.
StartServices(t) ==
  /\ At(t, "serve")
  /\ \/ /\ services' = [services EXCEPT ![Ws(t)] = task[t].mode]
        /\ GoTo(t, "publish")
        /\ UNCHANGED <<used, life>>
     \/ /\ Fault("early")
        /\ services' = [services EXCEPT ![Ws(t)] = task[t].mode]
        /\ Unwind(t)
     \/ /\ Fault("upstream")
        /\ Unwind(t)
        /\ UNCHANGED services
  /\ UNCHANGED <<locks, attached, bound, proxy, rows, kernel>>

\* The auxiliary listeners started or not, the attachment is registered.
PublishAttachment(t) ==
  /\ At(t, "publish")
  /\ attached' = [attached EXCEPT ![Ws(t)] = task[t].slice]
  /\ GoTo(t, IF task[t].mode \in Gated THEN "replay" ELSE "refresh")
  /\ UNCHANGED <<locks, services, used, bound, proxy, rows, kernel, life>>

ReplayVerdicts(t) ==
  /\ At(t, "replay")
  /\ \/ GoTo(t, "refresh") /\ UNCHANGED <<used, life>>
     \/ Fault("late") /\ Unwind(t)
  /\ UNCHANGED <<locks, books, bound, proxy, rows, kernel>>

\* _unwind, after the auxiliary listeners: the services stop, their consumer first.
UnwindServices(t) ==
  /\ At(t, "unwind")
  /\ services' = [services EXCEPT ![Ws(t)] = "none"]
  /\ bound' = IF services[Ws(t)] = "none" THEN bound ELSE bound \ {Ws(t)}
  /\ GoTo(t, "undo")
  /\ UNCHANGED <<locks, attached, used, proxy, rows, kernel, life>>

(***************************************************************************)
(* Detach.  The attachment and the services leave the books at once; each  *)
(* step after that may raise and leave what follows undone.                *)
(***************************************************************************)
DetachNothing(t) ==
  /\ At(t, "detach") /\ guard[Ws(t)].by = Nobody
  /\ attached[Ws(t)] = NoSlice
  /\ services' = [services EXCEPT ![Ws(t)] = "none"]
  /\ task' = [task EXCEPT ![t] = IdleTask]
  /\ UNCHANGED <<locks, attached, used, bound, proxy, rows, kernel, life>>

DetachPop(t) ==
  /\ At(t, "detach") /\ attached[Ws(t)] # NoSlice
  /\ Enter(t, Ws(t))
  /\ attached' = [attached EXCEPT ![Ws(t)] = NoSlice]
  /\ services' = [services EXCEPT ![Ws(t)] = "none"]
  /\ Take(t, "quiet", attached[Ws(t)])
  /\ UNCHANGED <<lock, used, bound, proxy, rows, kernel, life>>

\* The consent engine's stop hook, while the table still stands.
StopConsent(t) ==
  /\ At(t, "quiet")
  /\ \/ GoTo(t, "undo") /\ UNCHANGED <<guard, life>>
     \/ Fault("teardown") /\ Return(t)
  /\ UNCHANGED <<lock, books, used, bound, proxy, rows, kernel>>

\* on_detach waits for the interceptor's lock and drops the listener's books.
UndoLock(t) ==
  /\ At(t, "undo") /\ lock = Nobody
  /\ lock' = t
  /\ armed' = armed \ {Ws(t)}
  /\ GoTo(t, "unlisten")
  /\ UNCHANGED <<guard, books, used, bound, master, rows, kernel, life>>

\* The listeners are rebound without this one; a detach then unbinds its queue.
Unlisten(t) ==
  /\ At(t, "unlisten")
  /\ lock' = Nobody
  /\ \/ /\ GoTo(t, "delete")
        /\ bound' = IF task[t].op = "detach" THEN bound \ {Ws(t)} ELSE bound
        /\ UNCHANGED <<guard, life>>
     \/ Fault("teardown") /\ Return(t) /\ UNCHANGED bound
  /\ UNCHANGED <<books, used, proxy, rows, kernel>>

DeleteTable(t) ==
  /\ At(t, "delete")
  /\ \/ /\ table' = [table EXCEPT ![Ws(t)] = NoTable]
        /\ GoTo(t, "untap")
        /\ UNCHANGED <<guard, life>>
     \/ Fault("teardown") /\ Return(t) /\ UNCHANGED table
  /\ UNCHANGED <<lock, books, used, bound, proxy, rows, taps>>

\* The slice of a detached workspace is given up last.
RemoveTap(t) ==
  /\ At(t, "untap")
  /\ \/ /\ taps' = taps \ {Ws(t)}
        /\ used' = IF task[t].op = "detach" THEN used \ {task[t].slice} ELSE used
        /\ UNCHANGED life
     \/ Fault("teardown") /\ UNCHANGED <<taps, used>>
  /\ Return(t)
  /\ UNCHANGED <<lock, books, bound, proxy, rows, table>>

(***************************************************************************)
(* The live switch of posture: the queue is bound before the chain refers  *)
(* to it and unbound after the chain stopped.                              *)
(***************************************************************************)
SwitchAbsent(t) ==
  /\ At(t, "switch") /\ guard[Ws(t)].by = Nobody
  /\ attached[Ws(t)] = NoSlice \/ services[Ws(t)] = "none"
  /\ task' = [task EXCEPT ![t] = IdleTask]
  /\ UNCHANGED <<locks, books, used, bound, proxy, rows, kernel, life>>

\* Its holds are retired and its elements read.
SwitchEnter(t) ==
  /\ At(t, "switch")
  /\ attached[Ws(t)] # NoSlice /\ services[Ws(t)] # "none"
  /\ Enter(t, Ws(t))
  /\ GoTo(t, "snapshot")
  /\ UNCHANGED <<lock, books, used, bound, proxy, rows, kernel, life>>

Fresh(t) == task[t].mode = "interactive" /\ services[Ws(t)] # "interactive"

\* A faulty variant: the new table comes without the redirect half.
SwitchBindBare(t) ==
  /\ At(t, "snapshot")
  /\ bound' = IF Fresh(t) THEN bound \cup {Ws(t)} ELSE bound
  /\ Aim(t, "exchange", "off")
  /\ UNCHANGED <<guard, lock, books, used, proxy, rows, kernel, life>>

\* The redirect half is taken as it stands when the install is called.
SwitchBind(t) ==
  /\ At(t, "snapshot")
  /\ \/ /\ Fresh(t) => Ws(t) \notin bound
        /\ bound' = IF Fresh(t) THEN bound \cup {Ws(t)} ELSE bound
        /\ Aim(t, "exchange", IF Ws(t) \in armed THEN "on" ELSE "off")
        /\ UNCHANGED <<guard, life>>
     \/ /\ Fresh(t)
        /\ IF Ws(t) \in bound THEN UNCHANGED life ELSE Fault("switch")
        /\ Return(t)
        /\ UNCHANGED bound
  /\ UNCHANGED <<lock, books, used, proxy, rows, kernel>>

\* A faulty variant: a failed install unbinds the queue of the standing table.
SwitchInstallUnbinds(t) ==
  /\ At(t, "exchange")
  /\ \/ /\ table' = [table EXCEPT ![Ws(t)] =
             [mode |-> task[t].mode, redirect |-> task[t].goal = "on"]]
        /\ GoTo(t, "commit")
        /\ UNCHANGED <<guard, bound, life>>
     \/ /\ Fault("switch")
        /\ bound' = bound \ {Ws(t)}
        /\ Return(t)
        /\ UNCHANGED table
  /\ UNCHANGED <<lock, books, used, proxy, rows, taps>>

SwitchInstall(t) ==
  /\ At(t, "exchange")
  /\ \/ /\ table' = [table EXCEPT ![Ws(t)] =
             [mode |-> task[t].mode, redirect |-> task[t].goal = "on"]]
        /\ GoTo(t, "commit")
        /\ UNCHANGED <<guard, bound, life>>
     \/ /\ Fault("switch")
        /\ bound' = IF Fresh(t) THEN bound \ {Ws(t)} ELSE bound
        /\ Return(t)
        /\ UNCHANGED table
  /\ UNCHANGED <<lock, books, used, proxy, rows, taps>>

SwitchCommit(t) ==
  /\ At(t, "commit")
  /\ bound' = IF task[t].mode = "interactive" THEN bound ELSE bound \ {Ws(t)}
  /\ services' = [services EXCEPT ![Ws(t)] = task[t].mode]
  /\ IF task[t].mode \in Gated /\ services[Ws(t)] \notin Gated
       THEN GoTo(t, "pin") /\ UNCHANGED guard
       ELSE Return(t)
  /\ UNCHANGED <<lock, attached, used, proxy, rows, kernel, life>>

\* The durable verdicts go into the fresh sets, after the switch stands.
SwitchPin(t) ==
  /\ At(t, "pin")
  /\ UNCHANGED life \/ Fault("switch")
  /\ Return(t)
  /\ UNCHANGED <<lock, books, used, bound, proxy, rows, kernel>>

(***************************************************************************)
(* Refresh: the armed state of one workspace is brought to what the rows   *)
(* say, under the interceptor's lock.  The last step of an attach, and of  *)
(* every change of placeholder.                                            *)
(***************************************************************************)
\* A route or the sweep has changed the rows and asks for a refresh.
BeginRefresh(t, w, covered) ==
  /\ At(t, "idle")
  /\ wanted' = IF covered THEN wanted \cup {w} ELSE wanted \ {w}
  /\ task' = [task EXCEPT ![t] = CallOf("refresh", w, "none")]
  /\ UNCHANGED <<locks, books, used, bound, proxy, recorded, kernel, life>>

\* A dead master takes the whole book of listeners with it.
LockInterceptor(t) ==
  /\ At(t, "refresh") /\ lock = Nobody
  /\ IF master = "dead" THEN armed' = {} /\ master' = "none" ELSE UNCHANGED proxy
  /\ IF attached[Ws(t)] = NoSlice
       THEN task' = [task EXCEPT ![t] = IdleTask] /\ UNCHANGED lock
       ELSE GoTo(t, "rows") /\ lock' = t
  /\ UNCHANGED <<guard, books, used, bound, rows, kernel, life>>

\* The refresh returns; of an attach, it is the end.
Done(t) ==
  /\ lock' = Nobody
  /\ task' = [task EXCEPT ![t] = IdleTask]
  /\ UNCHANGED used

\* A faulty variant: the lock is not given back.
RaiseKeepsLock(t) ==
  /\ UNCHANGED lock
  /\ IF task[t].op = "attach"
       THEN Unwind(t)
       ELSE task' = [task EXCEPT ![t] = IdleTask] /\ UNCHANGED used

\* The refresh raises; of an attach, it undoes the build.
Raise(t) ==
  /\ lock' = Nobody
  /\ IF task[t].op = "attach"
       THEN Unwind(t)
       ELSE task' = [task EXCEPT ![t] = IdleTask] /\ UNCHANGED used

RefreshFault(t) == Fault(IF task[t].op = "attach" THEN "late" ELSE "rearm")

\* The covering rows are read, and the listener is had, dropped or asked for.
ReadRows(t) ==
  LET w == Ws(t) IN
  /\ At(t, "rows")
  /\ \/ /\ (w \in wanted) = (w \in armed)
        /\ Done(t)
        /\ IF task[t].op = "attach"
             THEN guard' = [guard EXCEPT ![w] = FreeGuard] ELSE UNCHANGED guard
        /\ UNCHANGED <<armed, life>>
     \/ /\ w \in armed \ wanted
        /\ armed' = armed \ {w}
        /\ Aim(t, "modes", "off")
        /\ UNCHANGED <<locks, used, life>>
     \/ /\ w \in wanted \ armed
        /\ GoTo(t, "arm")
        /\ UNCHANGED <<locks, armed, used, life>>
     \/ RefreshFault(t) /\ Raise(t) /\ UNCHANGED <<guard, armed>>
  /\ UNCHANGED <<books, bound, master, rows, kernel>>

\* The master is up and the authority loaded: registered before the port binds.
Arm(t) ==
  /\ At(t, "arm")
  /\ \/ /\ armed' = armed \cup {Ws(t)}
        /\ master' = IF master = "none" THEN "up" ELSE master
        /\ Aim(t, "modes", "on")
        /\ UNCHANGED <<lock, used, life>>
     \/ RefreshFault(t) /\ Raise(t) /\ UNCHANGED proxy
  /\ UNCHANGED <<guard, books, bound, rows, kernel>>

\* A failed arm takes its registration back and goes on undoing.
RollBack(t) ==
  /\ armed' = armed \ {Ws(t)}
  /\ Aim(t, "modes", "rollback")
  /\ UNCHANGED <<lock, used>>

ApplyModes(t) ==
  /\ At(t, "modes")
  /\ \/ GoTo(t, "swap") /\ UNCHANGED <<lock, used, armed, life>>
     \/ /\ RefreshFault(t)
        /\ IF task[t].goal = "on" THEN RollBack(t) ELSE Raise(t) /\ UNCHANGED armed
  /\ UNCHANGED <<guard, books, bound, master, rows, kernel>>

\* A faulty variant: the table is swapped under the interceptor's lock alone.
SwapUnguarded(t) ==
  /\ At(t, "swap")
  /\ attached[Ws(t)] # NoSlice /\ services[Ws(t)] # "none"
  /\ GoTo(t, "install")
  /\ UNCHANGED <<locks, books, used, bound, proxy, rows, kernel, life>>

\* apply_interception: under the guard, which an attach holds already.
SwapEnter(t) ==
  /\ At(t, "swap")
  /\ attached[Ws(t)] # NoSlice /\ services[Ws(t)] # "none"
  /\ Enter(t, Ws(t))
  /\ GoTo(t, "install")
  /\ UNCHANGED <<lock, books, used, bound, proxy, rows, kernel, life>>

\* No table to swap any more.
SwapAbsent(t) ==
  /\ At(t, "swap") /\ guard[Ws(t)].by \in {Nobody, t}
  /\ attached[Ws(t)] = NoSlice \/ services[Ws(t)] = "none"
  /\ IF task[t].goal = "rollback" THEN Raise(t) ELSE Done(t)
  /\ UNCHANGED <<guard, books, bound, proxy, rows, kernel, life>>

SwapInstall(t) ==
  LET w == Ws(t) IN
  /\ At(t, "install")
  /\ \/ /\ table' = [table EXCEPT ![w] =
             [mode |-> services[w], redirect |-> task[t].goal = "on"]]
        /\ IF task[t].goal = "rollback"
             THEN Raise(t) /\ Exit(w)
             ELSE Done(t) /\ guard' = [guard EXCEPT ![w] = FreeGuard]
        /\ UNCHANGED <<armed, life>>
     \/ /\ RefreshFault(t)
        /\ Exit(w)
        /\ IF task[t].goal = "on" THEN RollBack(t) ELSE Raise(t) /\ UNCHANGED armed
        /\ UNCHANGED table
  /\ UNCHANGED <<books, bound, master, rows, taps>>

(***************************************************************************)
(* What happens to the daemon.                                             *)
(***************************************************************************)
MasterDies ==
  /\ master = "up" /\ Fault("master")
  /\ master' = "dead"
  /\ UNCHANGED <<locks, books, used, bound, armed, rows, kernel, task>>

Restart ==
  /\ Cardinality(faults) + restarts < MaxFaults
  /\ restarts' = restarts + 1
  /\ guard' = [w \in Workspaces |-> FreeGuard]
  /\ lock' = Nobody
  /\ attached' = [w \in Workspaces |-> NoSlice]
  /\ services' = [w \in Workspaces |-> "none"]
  /\ used' = {} /\ bound' = {} /\ armed' = {} /\ master' = "none"
  /\ task' = [t \in Tasks |-> IdleTask]
  /\ faults' = {}
  /\ UNCHANGED <<rows, kernel>>

Init ==
  /\ guard = [w \in Workspaces |-> FreeGuard]
  /\ lock = Nobody
  /\ attached = [w \in Workspaces |-> NoSlice]
  /\ services = [w \in Workspaces |-> "none"]
  /\ used = {} /\ bound = {} /\ armed = {} /\ master = "none"
  /\ recorded = [w \in Workspaces |-> NoSlice]
  /\ wanted = {}
  /\ table = [w \in Workspaces |-> NoTable] /\ taps = {}
  /\ task = [t \in Tasks |-> IdleTask]
  /\ faults = {} /\ restarts = 0

AttachStep(t) ==
  \/ AttachExisting(t) \/ AttachBuild(t)
  \/ ClaimRecorded(t) \/ ClaimFresh(t) \/ ClaimRefused(t)
  \/ RecordSlice(t) \/ RecordFails(t)
  \/ MakeTap(t) \/ InstallTable(t) \/ StartServices(t)
  \/ PublishAttachment(t) \/ ReplayVerdicts(t) \/ UnwindServices(t)

DetachStep(t) ==
  \/ DetachNothing(t) \/ DetachPop(t) \/ StopConsent(t)
  \/ UndoLock(t) \/ Unlisten(t) \/ DeleteTable(t) \/ RemoveTap(t)

SwitchStep(t) ==
  \/ SwitchAbsent(t) \/ SwitchEnter(t) \/ SwitchBind(t)
  \/ SwitchInstall(t) \/ SwitchCommit(t) \/ SwitchPin(t)

RefreshStep(t) ==
  \/ LockInterceptor(t) \/ ReadRows(t) \/ Arm(t) \/ ApplyModes(t)
  \/ SwapEnter(t) \/ SwapAbsent(t) \/ SwapInstall(t)

Step(t) == AttachStep(t) \/ DetachStep(t) \/ SwitchStep(t) \/ RefreshStep(t)

Call(t) ==
  \E w \in Workspaces :
    \/ \E m \in Modes[w] : Begin(t, "attach", w, m)
    \/ Begin(t, "detach", w, "none")
    \/ /\ w \in Changing
       /\ \/ \E m \in Modes[w] : Begin(t, "switch", w, m)
          \/ \E covered \in BOOLEAN : BeginRefresh(t, w, covered)

Next == (\E t \in Tasks : Call(t) \/ Step(t)) \/ MasterDies \/ Restart

Spec == Init /\ [][Next]_vars

\* The loop runs every ready task; both kinds of lock serve their waiters in turn.
FairSpec == Spec /\ \A t \in Tasks : SF_vars(Step(t))

-----------------------------------------------------------------------------
(***************************************************************************)
(* Properties.                                                             *)
(***************************************************************************)
Pcs ==
  {"idle", "attach", "claim", "record", "tap", "table", "serve", "publish",
   "replay", "unwind", "detach", "quiet", "undo", "unlisten", "delete", "untap",
   "switch", "snapshot", "exchange", "commit", "pin",
   "refresh", "rows", "arm", "modes", "swap", "install"}

TaskType ==
  [op : {"none", "attach", "detach", "switch", "refresh"},
   ws : Workspaces \cup {Nobody}, pc : Pcs, mode : AllModes \cup {"none"},
   slice : Slices \cup {NoSlice}, goal : {"none", "on", "off", "rollback"}]
TableType == [mode : AllModes \cup {"none"}, redirect : BOOLEAN]

\* Every variable keeps its type.
TypeOK ==
  /\ guard \in [Workspaces -> [by : Tasks \cup {Nobody}, depth : 0..2]]
  /\ lock \in Tasks \cup {Nobody}
  /\ attached \in [Workspaces -> Slices \cup {NoSlice}]
  /\ used \subseteq Slices
  /\ services \in [Workspaces -> AllModes \cup {"none"}]
  /\ bound \subseteq Workspaces /\ armed \subseteq Workspaces
  /\ master \in {"none", "up", "dead"}
  /\ recorded \in [Workspaces -> Slices \cup {NoSlice}]
  /\ wanted \subseteq Workspaces
  /\ table \in [Workspaces -> TableType]
  /\ taps \subseteq Workspaces
  /\ task \in [Tasks -> TaskType]
  /\ faults \subseteq
       {"early", "record", "upstream", "late", "teardown", "rearm", "switch", "master"}
  /\ restarts \in 0..MaxFaults

Attached(w) == attached[w] # NoSlice
Settled(w) == \A t \in Tasks : Ws(t) # w
Never(kinds) == faults \cap kinds = {}

\* A queue the kernel's chain refers to has its consumer while the workspace is
\* served, at every step of every build, switch and swap, whatever fails: an
\* unbound queue drops each packet sent to it.
QueueServed ==
  \A w \in Workspaces :
    table[w].mode = "interactive" /\ services[w] # "none" => w \in bound

\* Whenever nobody holds the guard, the posture in the books of a served
\* workspace is the one the kernel enforces: a swap by the interceptor and a
\* switch of posture never land over each other, and a failed one leaves both
\* at the old posture.
PostureAgrees ==
  \A w \in Workspaces :
    guard[w].by = Nobody /\ services[w] # "none" => table[w].mode = services[w]

\* An attachment that a second attach would return as it stands is whole: its
\* tap, its services, its live slice, and the row's memory of it.  A build that
\* fails after it registered the attachment is the exception: the unwinding
\* tears all of them down and leaves the attachment in the books.
AttachedIsWhole ==
  \A w \in Workspaces :
    guard[w].by = Nobody /\ Attached(w) /\ Never({"late"}) =>
      /\ w \in taps /\ services[w] # "none"
      /\ attached[w] \in used /\ recorded[w] = attached[w]

\* Two attachments never share a slice, though two rows may remember the same
\* one: after the failures that leak a claim as after the others, but not after
\* the failure that gives up the slice of an attachment it leaves behind.
SliceExclusive ==
  \A w, v \in Workspaces :
    w # v /\ Attached(w) /\ attached[w] = attached[v] => "late" \in faults

\* Once no call is in flight, what a workspace without an attachment held is
\* given back: its slice, its queue, its listener, its tap and its table.  The
\* failures that break this are named: a claim the row never learned, a build
\* without an upstream resolver, a detach cut short, a late failure; and a
\* restart leaves the kernel's half to the next attach.
NoResidue ==
  (\A w \in Workspaces : Settled(w)) /\ Never({"record", "teardown", "late"}) =>
    /\ used = {attached[w] : w \in {v \in Workspaces : Attached(v)}}
    /\ \A w \in Workspaces : ~Attached(w) =>
         /\ services[w] = "none" /\ w \notin armed
         /\ Never({"upstream"}) => w \notin bound
         /\ restarts = 0 => w \notin taps /\ table[w] = NoTable

\* Once no call is in flight for an attached workspace, its flows are redirected
\* exactly when a placeholder covers it, and then a listener answers: however
\* the placeholder's changes, the switches of posture, the detach and the attach
\* were ordered.  A failed change of listener waits for the next refresh, and a
\* detach cut short leaves books that a later arm believes.
Redirected ==
  \A w \in Workspaces :
    Settled(w) /\ Attached(w) /\ Never({"rearm", "late", "master", "teardown"}) =>
      /\ w \in wanted <=> w \in armed
      /\ table[w].redirect <=> w \in armed

\* A refresh that a route or the watcher asked for holds the interceptor's lock
\* and waits for the guard of a workspace, whose holder waits for that lock.
LockCycle ==
  \E t, u \in Tasks :
    /\ t # u /\ lock = u /\ At(u, "swap")
    /\ guard[Ws(u)].by = t /\ task[t].pc \in {"undo", "refresh"}

\* No attach, detach and refresh wait on each other for ever (the guard and the
\* lock are taken in both orders).
NoLockCycle == ~LockCycle

\* Every call ends, or the locks have closed a cycle: the two orders of guard
\* and lock are the only way a call is ever stuck.
CallsEnd == \A t \in Tasks : ~At(t, "idle") ~> At(t, "idle") \/ LockCycle

================================================================================
