------------------------------- MODULE Lifecycle -------------------------------
(***************************************************************************)
(* Workspace lifecycle: the start, stop, reset, delete and volume-move     *)
(* requests (server/api/workspaces.py, volumes.py), the VMM driver under   *)
(* its per-workspace guard (microvm/local.py), and the watcher that        *)
(* reconciles each row with what the VMM says (server/watcher.py).         *)
(*                                                                         *)
(* Requests overlap at every await.  Start, delete and moves hold the      *)
(* workspace's move lock; stop and reset do not.  VMMs outlive the daemon, *)
(* whose locks, marks and process table die with it.                       *)
(***************************************************************************)
EXTENDS Naturals

CONSTANTS
  Workspaces,   \* the workspaces on this host
  Requests,     \* requests that may run at once
  Ops,          \* the operations they may ask for
  Nobody,       \* holder of a free lock
  MaxRequests,  \* bound: requests begun
  MaxEvents,    \* bound: what VMMs do of themselves (die, hang, power off)
  MaxCrashes    \* bound: daemon restarts

AllOps == {"start", "stop", "reset", "delete", "move"}

ASSUME LifecycleAssumption ==
  /\ Nobody \notin Requests
  /\ Ops \subseteq AllOps
  /\ MaxRequests \in Nat /\ MaxEvents \in Nat /\ MaxCrashes \in Nat

VARIABLES
  row,       \* the status column, "missing" once the row is deleted
  vmm,       \* the VMM and its API socket: "absent" (no VM directory), "off",
             \* "spawned" (no socket yet), "serving" (a socket, no VM), "made"
             \* (a VM not booted), "guest", "hung" (a guest whose VMM answers nothing),
             \* "down" (the guest is off, its VMM is not)
  procs,     \* the driver's process table
  net,       \* workspaces with a network attachment
  guard,     \* the driver's guard of each workspace
  move,      \* the move lock of each workspace
  starting,  \* marks of starts in flight
  stopping,  \* marks of stops in flight
  req,       \* the requests in flight
  scan,      \* the watcher's pass
  begun, events, crashes

drvVars == <<vmm, procs, net, guard>>
apiVars == <<row, move, starting, stopping, req, begun>>
vars == <<drvVars, apiVars, scan, events, crashes>>

Statuses ==
  {"created", "starting", "running", "stopping", "stopped", "absent", "unknown"}
Free == {"created", "stopped", "absent"}
Vmms == {"absent", "off", "spawned", "serving", "made", "guest", "hung", "down"}

\* A process that the pid file, or the process table, leads to.
Alive == {"spawned", "serving", "made", "guest", "hung", "down"}

\* A faulty variant: a powered-off guest under the VMM's own name for it.
RawSeams ==
  [absent |-> "absent", off |-> "stopped", spawned |-> "stopped",
   serving |-> "unknown", made |-> "starting", guest |-> "running",
   hung |-> "unknown", down |-> "shutdown"]

\* info: what the driver's seam says of a workspace.
Seams ==
  [absent |-> "absent", off |-> "stopped", spawned |-> "stopped",
   serving |-> "unknown", made |-> "starting", guest |-> "running",
   hung |-> "unknown", down |-> "stopped"]
Seam(w) == Seams[vmm[w]]

IdleRequest == [op |-> "none", ws |-> Nobody, pc |-> "idle", prior |-> "missing"]

At(r, pc) == req[r].pc = pc
GoTo(r, pc) == req' = [req EXCEPT ![r].pc = pc]

\* set_status: an UPDATE that may match no row.
SetStatus(w, status) ==
  row' = IF row[w] = "missing" THEN row ELSE [row EXCEPT ![w] = status]

\* The request answers; what it held of the move lock goes back.
Answer(r) ==
  /\ req' = [req EXCEPT ![r] = IdleRequest]
  /\ move' = [w \in Workspaces |-> IF move[w] = r THEN Nobody ELSE move[w]]

Discard(r) ==
  LET w == req[r].ws IN
  /\ starting' = IF req[r].op = "start" THEN starting \ {w} ELSE starting
  /\ stopping' = IF req[r].op = "stop" THEN stopping \ {w} ELSE stopping

Release(r) == guard' = [guard EXCEPT ![req[r].ws] = Nobody]

-------------------------------------------------------------------------------
(***************************************************************************)
(* The requests' own steps.                                                *)
(***************************************************************************)

FirstPc ==
  [start |-> "lock", stop |-> "write", reset |-> "shutdown",
   delete |-> "lock", move |-> "lock"]

\* workspace_or_404.  A stop remembers the status it read and marks itself in
\* flight.
Begin(r) ==
  /\ At(r, "idle")
  /\ begun < MaxRequests
  /\ \E op \in Ops, w \in Workspaces :
       /\ row[w] # "missing"
       /\ req' = [req EXCEPT ![r] =
                    [op |-> op, ws |-> w, pc |-> FirstPc[op],
                     prior |-> IF op = "stop" THEN row[w] ELSE "missing"]]
       /\ stopping' = IF op = "stop" THEN stopping \cup {w} ELSE stopping
  /\ begun' = begun + 1
  /\ UNCHANGED <<drvVars, row, move, starting, scan, events, crashes>>

LockedPc == [start |-> "reread", delete |-> "shutdown", move |-> "recheck"]

TakeLock(r) ==
  /\ At(r, "lock")
  /\ move[req[r].ws] = Nobody
  /\ move' = [move EXCEPT ![req[r].ws] = r]
  /\ GoTo(r, LockedPc[req[r].op])
  /\ UNCHANGED <<drvVars, row, starting, stopping, begun, scan, events, crashes>>

\* A faulty variant: the deadline is looked at once the lock has come.
GiveUpLate(r) ==
  /\ At(r, "lock")
  /\ move[req[r].ws] = Nobody
  /\ Answer(r)
  /\ UNCHANGED <<drvVars, row, starting, stopping, begun, scan, events, crashes>>

\* acquire_move_lock gives up after move_wait_timeout_s.
GiveUp(r) ==
  /\ At(r, "lock")
  /\ move[req[r].ws] # Nobody
  /\ Answer(r)
  /\ UNCHANGED <<drvVars, row, starting, stopping, begun, scan, events, crashes>>

\* A faulty variant: the row of before the lock is good enough.
RereadNothing(r) ==
  /\ At(r, "reread")
  /\ starting' = starting \cup {req[r].ws}
  /\ req' = [req EXCEPT ![r].pc = "write", ![r].prior = "stopped"]
  /\ UNCHANGED <<drvVars, row, move, stopping, begun, scan, events, crashes>>

\* start reads the row again under the lock, and marks itself in flight.
Reread(r) ==
  LET w == req[r].ws IN
  /\ At(r, "reread")
  /\ \/ /\ row[w] = "missing"
        /\ Answer(r)
        /\ UNCHANGED starting
     \/ /\ row[w] # "missing"
        /\ starting' = starting \cup {w}
        /\ req' = [req EXCEPT ![r].pc = "write", ![r].prior = row[w]]
        /\ UNCHANGED move
  /\ UNCHANGED <<drvVars, row, stopping, begun, scan, events, crashes>>

\* The row's mark.
WriteMark(r) ==
  /\ At(r, "write")
  /\ \/ /\ req[r].op = "start"
        /\ SetStatus(req[r].ws, "starting")
        /\ GoTo(r, "launch")
     \/ /\ req[r].op = "stop"
        /\ SetStatus(req[r].ws, "stopping")
        /\ GoTo(r, "shutdown")
  /\ UNCHANGED <<drvVars, move, starting, stopping, begun, scan, events, crashes>>

\* A MicrovmError of the launch or the shutdown puts the prior status back;
\* any other error only drops the mark.
Restore(r) ==
  /\ At(r, "restore")
  /\ SetStatus(req[r].ws, req[r].prior) \/ UNCHANGED row
  /\ Discard(r)
  /\ Answer(r)
  /\ UNCHANGED <<drvVars, begun, scan, events, crashes>>

\* The final status, after the mark is gone.
Settle(r) ==
  /\ \/ At(r, "started") /\ SetStatus(req[r].ws, "running")
     \/ At(r, "stopped") /\ SetStatus(req[r].ws, "stopped")
     \/ At(r, "dropped") /\ SetStatus(req[r].ws, "created")
     \/ At(r, "cleaned") /\ row' = [row EXCEPT ![req[r].ws] = "missing"]
  /\ Answer(r)
  /\ UNCHANGED <<drvVars, starting, stopping, begun, scan, events, crashes>>

-------------------------------------------------------------------------------
(***************************************************************************)
(* Volume moves: the row's status, then the VMM's word, then the exchange. *)
(***************************************************************************)

Recheck(r) ==
  /\ At(r, "recheck")
  /\ \/ row[req[r].ws] \in Free /\ GoTo(r, "probe") /\ UNCHANGED move
     \/ row[req[r].ws] \notin Free /\ Answer(r)
  /\ UNCHANGED <<drvVars, row, starting, stopping, begun, scan, events, crashes>>

\* A faulty variant: the row's word is enough.
ProbeNothing(r) ==
  /\ At(r, "probe")
  /\ GoTo(r, "moving")
  /\ UNCHANGED <<drvVars, row, move, starting, stopping, begun, scan, events,
                 crashes>>

Probe(r) ==
  /\ At(r, "probe")
  /\ \/ Seam(req[r].ws) \in {"absent", "stopped"} /\ GoTo(r, "moving")
        /\ UNCHANGED move
     \/ Seam(req[r].ws) \notin {"absent", "stopped"} /\ Answer(r)
  /\ UNCHANGED <<drvVars, row, starting, stopping, begun, scan, events, crashes>>

\* The exchange ends: an export's when its reader has drained it or gone away.
Moved(r) ==
  /\ At(r, "moving")
  /\ Answer(r)
  /\ UNCHANGED <<drvVars, row, starting, stopping, begun, scan, events, crashes>>

-------------------------------------------------------------------------------
(***************************************************************************)
(* The driver's launch, under the guard from its check to its end.         *)
(***************************************************************************)

\* A faulty variant: only the process table is asked.
TrackedOnly(w) == w \notin procs

\* _ensure_launchable: the process table, then the pid file.
Launchable(w) == w \notin procs /\ vmm[w] \notin Alive

Launch(r) ==
  LET w == req[r].ws IN
  /\ At(r, "launch")
  /\ guard[w] = Nobody
  /\ \/ /\ ~Launchable(w)
        /\ GoTo(r, "restore")
        /\ UNCHANGED <<net, guard>>
     \/ /\ Launchable(w)
        /\ net' = net \cup {w}
        /\ guard' = [guard EXCEPT ![w] = r]
        /\ GoTo(r, "spawn")
  /\ UNCHANGED <<vmm, procs, row, move, starting, stopping, begun, scan, events,
                 crashes>>

Spawn(r) ==
  LET w == req[r].ws IN
  /\ At(r, "spawn")
  /\ vmm' = [vmm EXCEPT ![w] = "spawned"]
  /\ procs' = procs \cup {w}
  /\ GoTo(r, "boot")
  /\ UNCHANGED <<net, guard, row, move, starting, stopping, begun, scan, events,
                 crashes>>

\* vm.create, once the socket is there.
Create(r) ==
  LET w == req[r].ws IN
  /\ At(r, "boot")
  /\ vmm[w] = "serving"
  /\ vmm' = [vmm EXCEPT ![w] = "made"]
  /\ UNCHANGED <<procs, net, guard, apiVars, scan, events, crashes>>

\* vm.boot; the guard and the mark of the start go back as launch returns.
Boot(r) ==
  LET w == req[r].ws IN
  /\ At(r, "boot")
  /\ vmm[w] = "made"
  /\ vmm' = [vmm EXCEPT ![w] = "guest"]
  /\ Release(r)
  /\ Discard(r)
  /\ GoTo(r, "started")
  /\ UNCHANGED <<procs, net, row, move, begun, scan, events, crashes>>

\* Attaching, spawning or booting fails: the VMM is reaped, the attachment
\* unwound, before the guard is let go.
LaunchFails(r) ==
  LET w == req[r].ws IN
  /\ At(r, "spawn") \/ At(r, "boot")
  /\ vmm' = [vmm EXCEPT ![w] = "off"]
  /\ procs' = procs \ {w}
  /\ net' = net \ {w}
  /\ Release(r)
  /\ GoTo(r, "restore")
  /\ UNCHANGED <<row, move, starting, stopping, begun, scan, events, crashes>>

-------------------------------------------------------------------------------
(***************************************************************************)
(* The driver's shutdown, kill, reset and cleanup.  A step that asks for a *)
(* free guard without taking it stands for all that runs under it.         *)
(***************************************************************************)

LandedPc == [stop |-> "stopped", reset |-> "drop", delete |-> "clean"]
FailedPc == [stop |-> "restore", reset |-> "kill", delete |-> "kill"]

\* The driver's shutdown returned; a stop's mark goes with its return.
Landed(r) ==
  /\ Discard(r)
  /\ GoTo(r, LandedPc[req[r].op])

\* No socket, or nobody behind it: already stopped, a success.
ShutdownAbsent(r) ==
  LET w == req[r].ws IN
  /\ At(r, "shutdown")
  /\ guard[w] = Nobody
  /\ vmm[w] \in {"absent", "off", "spawned"}
  /\ procs' = procs \ {w}
  /\ net' = net \ {w}
  /\ Landed(r)
  /\ UNCHANGED <<vmm, guard, row, move, begun, scan, events, crashes>>

Shutdown(r) ==
  LET w == req[r].ws IN
  /\ At(r, "shutdown")
  /\ guard[w] = Nobody
  /\ vmm[w] \notin {"absent", "off", "spawned"}
  /\ guard' = [guard EXCEPT ![w] = r]
  /\ GoTo(r, "press")
  /\ UNCHANGED <<vmm, procs, net, row, move, starting, stopping, begun, scan,
                 events, crashes>>

\* The button works, or the VMM cannot be asked: SIGTERM is next.
Press(r) ==
  LET w == req[r].ws IN
  /\ At(r, "press")
  /\ vmm' = IF vmm[w] = "guest" THEN [vmm EXCEPT ![w] = "down"] ELSE vmm
  /\ GoTo(r, "terminate")
  /\ UNCHANGED <<procs, net, guard, row, move, starting, stopping, begun, scan,
                 events, crashes>>

\* A guest that refuses to power off within the deadline.
PressTimeout(r) ==
  /\ At(r, "press")
  /\ vmm[req[r].ws] = "guest"
  /\ Release(r)
  /\ GoTo(r, FailedPc[req[r].op])
  /\ UNCHANGED <<vmm, procs, net, row, move, starting, stopping, begun, scan,
                 events, crashes>>

\* SIGTERM and a wait for a tracked VMM; a VMM that only the pid file names
\* is signalled and not waited for.
Terminate(r) ==
  LET w == req[r].ws IN
  /\ At(r, "terminate")
  /\ procs' = procs \ {w}
  /\ \/ /\ vmm' = [vmm EXCEPT ![w] = "off"]
        /\ GoTo(r, "detach")
        /\ UNCHANGED guard
     \/ /\ w \notin procs
        /\ GoTo(r, "detach")
        /\ UNCHANGED <<vmm, guard>>
     \/ /\ w \in procs /\ vmm[w] \in Alive
        /\ Release(r)
        /\ GoTo(r, FailedPc[req[r].op])
        /\ UNCHANGED vmm
  /\ UNCHANGED <<net, row, move, starting, stopping, begun, scan, events, crashes>>

NetDetach(r) ==
  /\ At(r, "detach")
  /\ net' = net \ {req[r].ws}
  /\ Release(r)
  /\ Landed(r)
  /\ UNCHANGED <<vmm, procs, row, move, begun, scan, events, crashes>>

\* kill, then on to what the kill was the fallback for; a tracked VMM that died of
\* itself may not be found (ProcessLookupError), which fails the request.
Kill(r) ==
  LET w == req[r].ws IN
  /\ At(r, "kill")
  /\ guard[w] = Nobody
  /\ procs' = procs \ {w}
  /\ \/ /\ vmm' = IF vmm[w] \in Alive THEN [vmm EXCEPT ![w] = "off"] ELSE vmm
        /\ net' = net \ {w}
        /\ GoTo(r, LandedPc[req[r].op])
        /\ UNCHANGED move
     \/ /\ w \in procs /\ vmm[w] \notin Alive
        /\ Answer(r)
        /\ UNCHANGED <<vmm, net>>
  /\ UNCHANGED <<guard, row, starting, stopping, begun, scan, events, crashes>>

\* A faulty variant: the overlay goes whatever runs on it.
DropAnyway(r) ==
  /\ At(r, "drop")
  /\ guard[req[r].ws] = Nobody
  /\ net' = net \ {req[r].ws}
  /\ GoTo(r, "dropped")
  /\ UNCHANGED <<vmm, procs, guard, row, move, starting, stopping, begun, scan,
                 events, crashes>>

\* The driver's reset refuses a VM that runs again.
Drop(r) ==
  LET w == req[r].ws IN
  /\ At(r, "drop")
  /\ guard[w] = Nobody
  /\ \/ vmm[w] \in Alive /\ Answer(r) /\ UNCHANGED net
     \/ /\ vmm[w] \notin Alive
        /\ net' = net \ {w}
        /\ GoTo(r, "dropped")
        /\ UNCHANGED move
  /\ UNCHANGED <<vmm, procs, guard, row, starting, stopping, begun, scan, events,
                 crashes>>

\* cleanup: a kill, then the VM's directory and its home volume.
Cleanup(r) ==
  LET w == req[r].ws IN
  /\ At(r, "clean")
  /\ guard[w] = Nobody
  /\ vmm' = [vmm EXCEPT ![w] = "absent"]
  /\ procs' = procs \ {w}
  /\ net' = net \ {w}
  /\ GoTo(r, "cleaned")
  /\ UNCHANGED <<guard, row, move, starting, stopping, begun, scan, events,
                 crashes>>

\* The steps that the daemon takes without waiting for a client.
OwnStep(r) ==
  \/ TakeLock(r) \/ GiveUp(r) \/ Reread(r) \/ WriteMark(r)
  \/ Restore(r) \/ Settle(r) \/ Recheck(r) \/ Probe(r)
  \/ Launch(r) \/ Spawn(r) \/ Create(r) \/ Boot(r) \/ LaunchFails(r)
  \/ ShutdownAbsent(r) \/ Shutdown(r) \/ Press(r) \/ PressTimeout(r)
  \/ Terminate(r) \/ NetDetach(r) \/ Kill(r) \/ Drop(r) \/ Cleanup(r)

RequestStep(r) == OwnStep(r) \/ Moved(r)

-------------------------------------------------------------------------------
(***************************************************************************)
(* The watcher: one read of every row, then for each a probe, a judgement  *)
(* of the row as it was read, and a write.                                 *)
(***************************************************************************)

ScanRows ==
  /\ scan.pc = "idle"
  /\ scan' = [scan EXCEPT !.pc = "next", !.seen = row,
                          !.todo = {w \in Workspaces : row[w] # "missing"}]
  /\ UNCHANGED <<drvVars, apiVars, events, crashes>>

\* On to the next row; what was read of this one is forgotten.
Pass ==
  scan' = [scan EXCEPT !.pc = "next", !.ws = Nobody, !.seam = "absent",
                       !.seen[scan.ws] = "missing"]

ScanProbe ==
  /\ scan.pc = "next"
  /\ \E w \in scan.todo :
       scan' = [scan EXCEPT !.pc = "judge", !.ws = w, !.seam = Seam(w),
                            !.todo = @ \ {w}]
  /\ UNCHANGED <<drvVars, apiVars, events, crashes>>

Steady(status, seam) == status = "created" /\ seam \in {"absent", "stopped"}

\* A faulty variant: the row's word alone, with no mark of this process.
HeldByRow(w, status, seam) ==
  \/ status = "starting" /\ seam \in {"absent", "stopped"}
  \/ status = "stopping" /\ seam = "running"

\* in_flight_hold: a request of this process owns the row.
InFlight(w, status, seam) ==
  \/ /\ status = "starting" /\ w \in starting
     /\ seam \in {"absent", "stopped"}
  \/ status = "stopping" /\ w \in stopping /\ seam = "running"

ScanJudge ==
  LET status == scan.seen[scan.ws]
      leave  == \/ scan.seam = status
                \/ Steady(status, scan.seam)
                \/ InFlight(scan.ws, status, scan.seam)
  IN /\ scan.pc = "judge"
     /\ \/ leave /\ Pass
        \/ ~leave /\ scan' = [scan EXCEPT !.pc = "write"]
     /\ UNCHANGED <<drvVars, apiVars, events, crashes>>

ScanWrite ==
  /\ scan.pc = "write"
  /\ SetStatus(scan.ws, scan.seam)
  /\ Pass
  /\ UNCHANGED <<drvVars, move, starting, stopping, req, begun, events, crashes>>

IdleScan ==
  [pc |-> "idle", todo |-> {}, seen |-> [w \in Workspaces |-> "missing"],
   ws |-> Nobody, seam |-> "absent"]

ScanSleep ==
  /\ scan.pc = "next"
  /\ scan.todo = {}
  /\ scan' = IdleScan
  /\ UNCHANGED <<drvVars, apiVars, events, crashes>>

ScanStep == ScanRows \/ ScanProbe \/ ScanJudge \/ ScanWrite \/ ScanSleep

-------------------------------------------------------------------------------
(***************************************************************************)
(* VMMs of themselves, and the daemon's death.                             *)
(***************************************************************************)

\* A spawned VMM opens its socket, whether or not a daemon waits for it.
Serve(w) ==
  /\ vmm[w] = "spawned"
  /\ vmm' = [vmm EXCEPT ![w] = "serving"]
  /\ UNCHANGED <<procs, net, guard, apiVars, scan, events, crashes>>

\* A guest powers off with its VMM, or hangs; a VMM dies.
Happens(w) ==
  /\ events < MaxEvents
  /\ events' = events + 1
  /\ \/ vmm[w] = "guest" /\ vmm' = [vmm EXCEPT ![w] = "hung"]
     \/ vmm[w] \in Alive /\ vmm' = [vmm EXCEPT ![w] = "off"]
  /\ UNCHANGED <<procs, net, guard, apiVars, scan, crashes>>

Crash ==
  /\ crashes < MaxCrashes
  /\ crashes' = crashes + 1
  /\ procs' = {} /\ net' = {} /\ starting' = {} /\ stopping' = {}
  /\ guard' = [w \in Workspaces |-> Nobody]
  /\ move' = [w \in Workspaces |-> Nobody]
  /\ req' = [r \in Requests |-> IdleRequest]
  /\ scan' = IdleScan
  /\ UNCHANGED <<vmm, row, begun, events>>

-------------------------------------------------------------------------------

\* A created row, its artifacts and its directory.
Init ==
  /\ row = [w \in Workspaces |-> "created"]
  /\ vmm = [w \in Workspaces |-> "off"]
  /\ procs = {} /\ net = {} /\ starting = {} /\ stopping = {}
  /\ guard = [w \in Workspaces |-> Nobody]
  /\ move = [w \in Workspaces |-> Nobody]
  /\ req = [r \in Requests |-> IdleRequest]
  /\ scan = IdleScan
  /\ begun = 0 /\ events = 0 /\ crashes = 0

Next ==
  \/ \E r \in Requests : Begin(r) \/ RequestStep(r)
  \/ ScanStep
  \/ \E w \in Workspaces : Serve(w) \/ Happens(w)
  \/ Crash

Spec == Init /\ [][Next]_vars

\* The event loop runs every ready task; transactions, probes and waits end.  A
\* move may last: a stalled reader holds an export's lock as long as its
\* connection lives.
Fairness ==
  /\ \A r \in Requests : WF_vars(OwnStep(r))
  /\ WF_vars(ScanStep)

FairSpec == Spec /\ Fairness

-------------------------------------------------------------------------------
(***************************************************************************)
(* Properties.                                                             *)
(***************************************************************************)

RequestPcs ==
  {"idle", "lock", "reread", "write", "launch", "spawn", "boot",
   "started", "restore", "recheck", "probe", "moving", "shutdown", "press",
   "terminate", "detach", "stopped", "kill", "drop", "dropped", "clean",
   "cleaned"}

RequestType ==
  [op : AllOps \cup {"none"}, ws : Workspaces \cup {Nobody},
   pc : RequestPcs, prior : Statuses \cup {"missing"}]

ScanType ==
  [pc : {"idle", "next", "judge", "write"}, todo : SUBSET Workspaces,
   seen : [Workspaces -> Statuses \cup {"missing"}],
   ws : Workspaces \cup {Nobody}, seam : Statuses]

TypeOK ==
  /\ row \in [Workspaces -> Statuses \cup {"missing"}]
  /\ vmm \in [Workspaces -> Vmms]
  /\ procs \subseteq Workspaces /\ net \subseteq Workspaces
  /\ guard \in [Workspaces -> Requests \cup {Nobody}]
  /\ move \in [Workspaces -> Requests \cup {Nobody}]
  /\ starting \subseteq Workspaces /\ stopping \subseteq Workspaces
  /\ req \in [Requests -> RequestType]
  /\ scan \in ScanType
  /\ begun \in 0..MaxRequests
  /\ events \in 0..MaxEvents
  /\ crashes \in 0..MaxCrashes

\* A volume is never exchanged under a guest that has it attached, although
\* the row may say "stopped" or "created" of a VM that runs (a reset's or a
\* stop's late write, a scan's stale one) and stop and reset take no lock.
VolumeSafe ==
  \A r \in Requests : At(r, "moving") => vmm[req[r].ws] \notin {"guest", "hung"}

\* Whoever uses a workspace's volumes uses them alone: Lifecycle implements
\* Volumes, where its guests are those whose VMM has one, also a hung one, and
\* its moves the requests about to exchange a volume.
Leases == INSTANCE Volumes WITH
  present <- {w \in Workspaces : row[w] # "missing"},
  guests <- {w \in Workspaces : vmm[w] \in {"guest", "hung"}},
  moves <- {w \in Workspaces : \E r \in Requests : At(r, "moving") /\ req[r].ws = w}
LeasesVolumes == Leases!Spec

\* No VM runs without a row: a start that waited for a delete's lock must
\* find the row gone.
NoOrphanVm ==
  \A w \in Workspaces : row[w] = "missing" => vmm[w] \notin Alive

\* No stop, kill, reset or failed launch takes the network of a guest that
\* another request booted meanwhile.  A restarted daemon knows no
\* attachment, and a hung VMM may be signalled and left.
GuestHasNet ==
  \A w \in Workspaces : vmm[w] = "guest" /\ crashes = 0 => w \in net

\* No second VMM on the disks of one that lives, one that an earlier daemon
\* left included.
OneVmm ==
  [][\A w \in Workspaces :
       vmm[w] \in Alive \ {"spawned"} => vmm'[w] # "spawned"]_vars

\* Left alone, every row comes to say what its VMM says, whatever overlapping
\* requests, stale scans and crashes wrote.
Agrees(w) ==
  row[w] = "missing" \/ row[w] = Seam(w) \/ Steady(row[w], Seam(w))
RowSettles == <>[](\A w \in Workspaces : Agrees(w))

\* Every request is answered, or comes to exchange a volume, which may last as long
\* as its client likes: those that wait for its lock are answered all the same.
EveryRequestEnds ==
  \A r \in Requests : ~At(r, "idle") ~> (At(r, "idle") \/ At(r, "moving"))

-------------------------------------------------------------------------------
(***************************************************************************)
(* What the code's own words say and its interleavings deny.               *)
(***************************************************************************)

\* stop_workspace: a timeout leaves the guest alive and the prior status
\* back; "stopped" is for a shutdown that landed.
StopLands ==
  \A r \in Requests :
    At(r, "stopped") => vmm[req[r].ws] \notin {"guest", "hung"}
===============================================================================
