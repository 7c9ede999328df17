# msks in TLA+

A verification development of the msks daemon: TLA+ modules of the parts whose
correctness depends on the order things happen in, TLC runs that check small
instances of them exhaustively, and TLAPS proofs for every value of the
constants. Paths below are relative to `src/src/msks/msks/`.

## The system

`msksd` keeps *workspaces*: virtual machines, each with a tap interface, an nft
table and a row in a database. It is one Python process with one event loop, so
code between two awaits is atomic and every await (a database transaction, an
nft run, a sleep, a lock, another task) is a point where other requests run.
Workspaces outlive the daemon: a VM runs on when the daemon dies.

| Component | Code | State it keeps | Operations | Talks to |
|---|---|---|---|---|
| Consent engine | `consent/coordinator.py`, `consent/deciders.py` | `_holds`, futures, timeout tasks, session memory, decider sockets | `hold`, `resolve`, `timeout_hold`, `fail_close_workspace`, `on_workspace_stop`, `revoke`, `start`, `stop` | rows, flow consumer, network manager, event hub |
| Consent rows | `model/egress_consent.py` | the `egress_consent_requests` table, at most one pending row per destination | one statement per method | database |
| Flow consumer | `net/nfq.py` | queued packets, decide tasks, verdict cache | `on_packet`, `decide`, `apply_verdict`, `stop` | consent engine, network manager |
| Network manager | `net/manager.py` | attachments, services, slices, per-workspace guards | `attach`, `detach`, `apply_policy`, `apply_interception`, `consent_allow`, `consent_reject`, `clear_consent_dest` | nft, taps, resolver gate, consent, interceptor |
| Resolver gate | `net/dns.py` | which names an address was resolved from | answer, learn, share | consent rows, network manager |
| Interceptor | `interceptor/` | armed workspaces, CA, entries | `refresh`, `arm`, `disarm`, `on_detach` | network manager, secrets |
| Driver | `microvm/local.py` | VMM processes, pid files, per-workspace lock | `launch`, `shutdown`, `kill`, `reset`, `cleanup`, `info` | network manager |
| Workspace API | `server/api/workspaces.py` | row status, move lock, in-flight marks | create, start, stop, reset, delete | driver, model |
| Watcher | `server/watcher.py` | none of its own | scan, prune, expiry sweep | driver, model, event hub |
| Secrets | `secretcache.py`, `secretstore.py`, `server/api/secrets.py`, `model/secrets.py` | placeholder rows and ciphertext; decrypted values, served marks, operators; the store's lock | mint, unlock, renew, revoke, pending, sweep, flush | interceptor, model |
| Event hub | `events.py`, `server/api/events.py` | one bounded queue per subscriber, the deciders' sockets | subscribe, publish, relay, register a decider, close | every route |
| Decider's client | `client/tui/consent.py`, `client/tui/link.py` | the holds and rules it shows | connect, apply a frame | event hub |
| Images, volumes, other clients, settings | `imagestore.py`, `storage.py`, `client/`, ... | files | moves, builds, requests | API |

How a connection is answered: the first packet of a new connection waits in the
workspace's queue; the consumer starts a task that asks `ConsentEngine.hold`;
the engine refuses at once (no decider, a duplicate, the cap), or inserts a
pending row and registers a *hold*, a future the task waits on. Three parties
may close a hold: a decider's `resolve`, the hold's timeout, and a teardown (a
stop, a switch of posture, the daemon's shutdown). Each pops the hold first,
then awaits the database, then answers the future. An allow releases the packet.

What is hard here: those three race across awaits; transactions fail one by
one; tasks are cancelled at awaits (a client goes away, a consumer stops);
values read before an await are used after it (the pending count, a row's
status); several locks are taken in more than one order; a crash keeps the rows
and loses the memory; a swap of a table and the row that describes it are two
writes. `hazards` in `PROJECT.json` lists them at their lines, each with the
properties that catch it; where the code does go wrong and a property names the case
as its exception, the hazard says so and lists no property for it.

What makes each component correct: one closer per held packet, allows only on
committed verdicts, every hold and row closed (consent); forward-only rows (the
table); no name's verdict on an address it shares, nothing left of a revoked one
(enforcement); exclusive slices, a served queue, one posture in the books and in
the kernel, no residue and no lock cycle (network manager, interceptor); a row
that settles on what the VM does (lifecycle); no plaintext, ciphertext or marker
without its row, and no plaintext past its window (secrets); a screen that shows
every hold, no ghost, and the rules in force (event hub, client).

## Modules

| Module | What it is |
|---|---|
| `EgressRows` | the consent table's statements, one operator per statement, on a function from row ids to rows |
| `Consent` | the consent engine with the parts of the flow consumer, network manager and egress API that drive it |
| `Verdict` | the abstract promise of one request: rulings move forward only, its packet is answered once, and allowed only when granted |
| `Volumes` | the abstract promise of a workspace's volumes: a guest, a move and a delete never use them together |
| `Lifecycle` | start, stop, reset, delete and volume moves, the VMM driver under its guard, the watcher's scan, VMMs of themselves and the daemon's crash |
| `NetAttach` | attach and its unwinding, detach, the posture switch, the interceptor's refresh, under the workspaces' guards and the interceptor's lock; failed steps and restarts |
| `Enforcement` | a packet's way through chain, cache, session and hold; pins and their withdrawal; the naming memory; the revoke; a table swap |
| `Secrets` | placeholder rows, ciphertext, the plaintext cache and its window, the served markers, and the requests that change them |
| `DeciderView` | what a decider's screen shows: the hub's queue and relay, the registration beside it, the frames of holds and rules, the client that applies them |
| `MCConsent`, `MCLifecycle`, `MCNetAttach`, `MCEnforcement`, `MCSecrets`, `MCDeciderView` | instances for TLC |
| `ConsentProofs`, `ConsentEnds`, `LifecycleProofs`, `NetAttachProofs`, `NetAttachEnds`, `SecretsProofs`, `DeciderViewProofs`, `EnforcementProofs` | the proofs |

The modules meet at calls, and each sees the others' components as steps of its
environment that may come at any time. `Consent` and `Lifecycle` start and end
the attaches and detaches whose inside is `NetAttach`. The verdicts `Consent`
commits are what `Enforcement`'s `Rule` commits, and the table swaps of
`NetAttach` are its `Snapshot` and `Install`. The coverage `Secrets` changes is
what `NetAttach`'s `BeginRefresh` changes. `DeciderView` sees a hold of `Consent` by
the frames it sends and the answer it owes, and a revoke and a switch by what they
write and the broadcast they end in.

### Consent

One action is one stretch between awaits. `flow[f]` is where the decide task of
connection `f` stands (`mode` .. `register` are the awaits of `hold`, `wait` the
future). A hold mints at most one row, so a row is named by its flow. `holds`,
`fut`, `timer` are the registered holds, their futures and timeout tasks;
`session` the session memory; `res[d]` a decide request in `resolve`; `td[w]` a
teardown of workspace `w` (a detach or a switch, kept apart by the workspace's
guard) and `td[Daemon]` the engine's own `stop`. `mode` is the row's column,
`posture` what the attached table enforces, `prior` marks a posture switch in
flight. `ruled` and `told` are history: the verdict a transaction committed and
the frames deciders were sent.

Abstractions: a connection opens once; has_decider may answer either way at any
time; audit rows written for refusals are left out, as no code of the engine
reads them; the rules broadcast changes nothing; the rollback of a failed switch
is one step with the release of the guard; revoke's lookup and its UPDATE are
one step, as only its UPDATE's condition decides; verdicts of a literal address
and of a name are not told apart. A failed transaction leaves its table as it
was and is a `Fault`, of which a run allows `MaxFaults`.

### Lifecycle

`req[r]` is a request in flight: its operation, its workspace, where it stands
and, for a start and a stop, the status it read and would put back. `row[w]` is
the status column, `starting` and `stopping` the process's own marks, `move[w]`
and `guard[w]` the holders of the API's move lock and the driver's lock. `vmm[w]`
is the VMM process with its socket and guest (`off` to `guest`, `hung`, `down`),
`procs` the driver's table of those it may wait for, `net` the attachments.
`scan` is the watcher's pass: the rows as it read them, the one it probes and
what the probe said.

An action is a stretch between awaits, except that what runs under the driver's
guard in one go and whose middle no other task can see (`ShutdownAbsent`, `Kill`,
`Drop`, `Cleanup`) is one step that needs the guard free. No await
separates a mark from the read before it, so `Begin` and `Reread` set the marks.
`move` stands for import, export, resize and the copy of a clone: they take the
lock, check the row, ask the driver, exchange, and let go. A crash empties what
the process held and leaves rows and VMMs; the requests in flight end with it.

Abstractions: every workspace exists from the start, with its row and its directory; a workspace's placement never changes, so its check is left out;
the share daemons follow the network attachment and are left out; a VMM that is
killed is dead when the kill returns, one that only the pid file names may
outlive a SIGTERM; nothing pauses a VM; database writes of the lifecycle do not
fail; a driver call that ends in another error than the driver's own is met as
`Restore`'s second choice; `Spawn` is the fork and the pid file in one
(`microvm/local.py:733`, `:737`), so a daemon that dies between the two, and leaves a
VMM no pid file names, is not a state. A move may last: an export holds the lock until
its client has read it all or is gone (`server/api/volumes.py:60`), so nothing makes
`Moved` happen, and who waits for the lock has `GiveUp`.

### NetAttach

`task[t]` is a call in flight, an attach, a detach, a switch or a refresh, and
the await it stands at; `guard[w]` the re-entrant guard of a workspace with its
depth, `lock` the interceptor's. `attached`, `used`, `services`, `armed` are the
daemon's books, `bound` the queues with a consumer, `master` the embedded proxy;
`recorded` is the slice column of the row, `wanted` the workspaces a live
placeholder covers; `table` and `taps` are the kernel's, and survive a
`Restart`. The last step of an attach is a refresh under the guard it holds.

Every step that runs a subprocess, binds a socket or writes a row may fail.
`faults` holds the kinds of failure of a daemon's life, one kind for each way the
code leaves things after it: `early` is undone whole, the other kinds leave
something, and the properties name what. A kind counts once against `MaxFaults`
however often it strikes, so a life with one kind has all its repetitions.

Abstractions: the queue's number, the tap's name and the addresses follow from
the workspace and the slice; the LLM and probe listeners, DHCP and the resolver
start and stop with the services; elements a swap carries are in `Enforcement`;
a retired hold is in `Consent`. A queue that another consumer still holds cannot
be bound. A refresh of every attached workspace is one refresh after another.

### Enforcement

One interactive, attached workspace. `row`, `memAllow`, `memDeny` are the
durable verdicts and the session's; `live[a]` the names the forwarder remembers
at an address; `allows`, `rejects`, `resets` the kernel's elements, each kept as
the set of verdicts it was installed for, which the kernel does not know;
`cache` the consumer's verdict cache; `held[f]` a connection's decide task;
`open[f]` the verdict an established connection came in under. `pins` are the
tasks of `consent_allow` and `consent_reject` between their awaits: the first
look at the shared mark, the nft run, the second look, the withdrawal and the
replay of the literal verdicts. `query`, `revoke` and `swap` are the forwarder's
exchange per name, the revoke and the table swap.

`strays` and `carried` are history: what was put somewhere after its revoke had
stopped looking there, and the addresses a swap brought elements back to. They
name the exceptions of the two properties; everything else must hold outright.
Ports are left out; timeouts of elements, pairings and cached verdicts are
lapses at any moment; a verdict that does not last allows one connection.

### Secrets

`row[i]` and `blob[i]` are a placeholder's row and the value its ciphertext
holds, by rowid: the column is a plain integer key, so SQLite gives the highest
id plus one and an id comes again (`NextId`). `cache[n]` is the plaintext and
`served[i]` the marker, with the kind of their deadline: `dated`, `session` for a
window of zero, `late` for a date gone by. `call[c]` is a request with what it
read before it took `lock`. `seen` is the ciphertext clients fetched. `misfired`,
`haunted` and `bare` are history and name the exceptions below: the names whose
plaintext a deletion left behind, the ids whose marker outlived the row, the ids of
rows left without ciphertext.

A step that its handler catches fails inside its action (`MintEncrypt`, `MintArm`,
`RenewArm`). What nobody catches is `Breaks`: a request ends at the await where it
stands, for a database error or a cancellation, and gives the lock back with nothing
undone; the write it stood at may have landed or not. The daemon starts from an empty
store or from what the seed of the probe's row leaves (`Seeded`): the row with its
ciphertext or, for want of recipients, without, or the rollback of a failed seed.

Abstractions: a name stands for its backend ref, as both are unique; one blob
stands for one per recipient; the audit trail and the interceptor's own steps
are left out, the latter being `MintArm`'s and `RenewArm`'s choice. The probe
endpoint, which stores the probe's public value again and refreshes its ciphertext,
is left out, as is a restart, which keeps the rows and empties the cache.

### DeciderView

One client, its socket and its queue. `stage[r]` is where a hold of its workspace
stands (`stored` before its registration, `deciding` and `expiring` once popped),
`waiting` the flows that still await their answer, `facts` the versions of the
posture and of the verdicts, `cast[a]` a broadcast of the rules between its two
reads. `reg` is `register_decider` on this connection: it reads posture and
verdicts, sends the rules, lists the rows, keeps the holds still live, and sends
them one by one, each between two awaits, while `Relay` sends what the hub queued.
`view` is the controller: the holds it shows, whether it has rules, and the
workspace it takes itself for, which is a name until a rules frame tells.

A publish is a task of its own, the next the loop runs: it is one step with what
starts it. A frame is applied when it is sent, as one socket keeps order. The
holds and changes are the own workspace's; other workspaces send frames (`Foreign`)
that the hub carries to every client. `told`, `overtaken`, `silent`, `untold` and
`lost` are history of this connection and name the exceptions below. Left out:
`close_all`, the refusal of an unknown or deleted workspace, the replay of the
secret audit, the hop of a publish between two loops. The listing of rows is
taken whole: it stops at 100, which the prompt cap (8) keeps out of reach unless
it is switched off.

## Runs

| Run | Instance | Shows |
|---|---|---|
| `consent_races` | two connections to one destination, one decide request that may be cancelled, a fault, stops, revokes, deletes; 1.8 million states | `OneCloser`, `AllowsAreRuled`, `OneTruthfulFrame`, `OnePendingPerDest`, `PendingRowsAreOwned`, and that Consent implements `Verdict` |
| `consent_life` | one connection, three postures and switches between them, a fault, a shutdown and restart, with fairness; 217 thousand states | `ExpiredMeansUnruled`, `NoneHeldUngated`, `EveryFlowEnds`, `EveryRowCloses` |
| `lifecycle` | one workspace, two requests of any operation at once, one VMM event, one crash, with fairness of all but the end of a move; 157 thousand states | `NoOrphanVm`, `GuestHasNet`, `OneVmm`, `RowSettles`, `EveryRequestEnds`, and that Lifecycle implements `Volumes` |
| `net_attach` | two workspaces and one slice, one of them switched and covered, two calls at once, one restart or one kind of failure, with fairness; 266 thousand states | `QueueServed`, `PostureAgrees`, `AttachedIsWhole`, `SliceExclusive`, `NoResidue`, `Redirected`, `CallsEnd` |
| `enforcement` | two names, one address, one connection, one pin besides those that replays start, four events; 2.9 million states up to the exchange of the names | `SharedUnpinned`, `RevokeClears`, `HeldIsOwned` |
| `secrets` | two names, one id, two requests at once, two mints, one socket, one lapse, reload, failure or request that breaks off, with fairness; 863 thousand states | `CacheBacked`, `RowWhole`, `ServedBacked`, `LockReturns`, `WindowCloses` |
| `decider_view` | one hold, one revoke, one switch, a client that connects twice, a queue of two frames, one event of another workspace or a verdict's end; 4.4 million states | `HoldsShown`, `GhostsLeave`, `RulesTold` |
| `consent_orphan`, `consent_forget`, `consent_posture`, `lifecycle_lands`, `net_deadlock` | the smallest instances that reach the case | the findings below |

Consent: two connections and one request already give every pair of closers,
both orders of every race and a duplicate; a second request would only pop
another hold, as a pop is synchronous. One fault separates "a transaction failed"
from "none did", for every transaction in turn. One workspace is enough for TLC
because nothing is shared between workspaces but the daemon's own `stop`,
which the proofs cover for any number.

Lifecycle: two requests at once are every pair that can overlap; what a third
would find is covered by the theorems, which hold for any number of requests.
Workspaces share no lock and no row; the one place a pass of the watcher couples
them is the age of the rows it read, which the steps of one workspace between
read and probe already give.

NetAttach: two workspaces over one slice are the smallest pool that is
contended, and two calls every pair of orders of guard and lock; a third call
can only wait. The safety properties were also checked with two faults or
restarts (2.6 million states).

Enforcement: two names at one address are the smallest sharing; one connection
meets its own retransmits through the cache. Four events are enough for a
ruling, a revoke, and two of a resolution, a swap or a lapse between their
steps. It was also checked with two connections, two pins and three events (1.5
million states).

Secrets: one id is what makes every new row inherit it, and two requests every
pair of a stale read and a deletion. Its safety properties were also checked with
two events, and with two ids (more than 2.5 million states each).

DeciderView: the hold, the revoke and the switch are the three kinds of change,
and any two of their broadcasts overlap, with the registration's read between. Two
connections are a screen that showed something before. A queue of two frames
overflows within a run and also holds a question with its resolution. The proofs
cover every other size.

Deadlock is not checked: an idle daemon is at rest. The bounds are, of Consent,
`MaxFaults`, `MaxRestarts`, `StartModes`, `SwitchModes` and each flow's single
connection; of Lifecycle, `MaxRequests`, `MaxEvents` and `MaxCrashes`; of
NetAttach, `MaxFaults`; of Enforcement, `MaxPins` and `MaxEvents`; of Secrets,
`MaxId`, `MaxMints`, `MaxOperators` and `MaxEvents`; of DeciderView, `MaxConnects` and
`MaxOutside`, while `QueueMax` is the code's own bound.

Fairness is weak fairness of each started task: the event loop runs every ready
task, and a transaction, a sleep and an nft run end. Nothing makes a guest
connect, a decider answer, a client cancel or an operator act. In Lifecycle the
same holds of every step of a request but the end of a move, which a stalled reader
puts off for as long as its connection lives (`server/api/volumes.py:60`), and of the
watcher's loop, whose sleep ends; nothing makes a VMM serve, die or hang.
`EveryRequestEnds` says that every request is answered or comes to exchange a volume:
who waits behind a move that lasts gives up in time. In NetAttach it is strong fairness of each call,
as `asyncio.Lock` serves its waiters in turn, so a call whose lock comes free again
and again gets it. In Secrets it is weak fairness of each request, and of the
watcher's flush, which its loop repeats for ever. The flush is the last call of a
pass, and a pass ends early when its scan or one of its sweeps raises
(`server/watcher.py:233`): that fairness supposes that passes which get so far keep
coming. Nothing makes a request break off.

### Findings

Five statements of the code's own words that its interleavings deny, each with
a violation run: a pending row can be left with nobody to close it
(`consent_orphan`); a stop does not take every session verdict with it
(`consent_forget`); a posture switch whose verdict replay fails leaves the row
and the table apart (`consent_posture`); a stop answers "stopped" over a live VMM
(`lifecycle_lands`); a refresh and a detach or attach wait on each other for ever
(`net_deadlock`).

### Disagreements the properties allow

What the code does and its authors hardly meant; the property that would
otherwise fail names each as its exception, so that nothing else can hide in it.

- A build that fails after `_build` registered the attachment is unwound, and the
  attachment stays in the books: the next attach returns it over a table, a tap
  and a slice that are gone, and another workspace may be given that slice
  (`net/manager.py:991`; `late` in `AttachedIsWhole`, `SliceExclusive`).
- A slice claimed but not recorded stays claimed (`:425`; `record` in `NoResidue`);
  a consumer bound before `_start_services` finds no upstream resolver stays bound
  (`:1052`; `upstream`); a failed step of a detach leaves what follows it, the
  interceptor's books included, which a later arm believes (`:383`; `teardown`).
- A table swap brings back elements that were cleared after its snapshot
  (`:697`; `carried` in `SharedUnpinned`, `strays` in `RevokeClears`).
- After a revoke: a pin, a resolve or a cached verdict of before still lands
  (`net/nfq.py:239`, `consent/coordinator.py:574`), and an address whose name had
  lapsed is not cleared (`net/manager.py:870`; `strays`).
- Sharing is judged by live names: an element that outlives its name's pairing
  is not withdrawn when another name arrives (`net/dns.py:387`).
- `clear_elements` for a name's verdict takes a literal verdict's element at the
  same address with it, and nothing replays it (`net/manager.py:825`).
- `mint_secret` undoes its row after `NotEncryptableError` and `OSError` only. A
  database error of the ciphertext's write, a failed deletion of the undo or a
  cancelled request leaves a row without ciphertext, where `server/api/secrets.py:550`
  says "a failed write rolls its own row back" and `:574` that such a placeholder "would
  swap empty on the wire" (`bare` in `RowWhole`). The probe's row is seeded without
  ciphertext when nobody can receive it (`:132`), on purpose.
- A deletion that breaks off before its forget leaves plaintext and marker, and the
  rollback of the probe's seed deletes its row without forgetting the value
  (`:114`; `misfired` in `CacheBacked`, `haunted` in `ServedBacked`).
- Revoke, a failed mint's undoing and the sweep delete by an id read before the
  lock; if the row was deleted and its id given again meanwhile, another row goes
  and its plaintext stays (`server/api/secrets.py:770`; `misfired`).
- The pending list marks rows as served that a deletion took while it read them
  (`:819`; `haunted`); the marker is per id, so ciphertext of before is accepted for
  the row that inherited it and replaces that row's value.
- An unlock over HTTP under a zero window holds its plaintext until the watcher's
  next flush, and an operator who connects before it revives it, where
  `secretcache.py:18` says it "holds nothing past the reply" (`WindowCloses` says
  no more than that it goes or holds again).
- A client that knows its workspace by name adopts the first rules frame of any
  workspace, where `client/tui/consent.py:388` says "a foreign workspace's request or
  rules frame must not plant a ghost hold or repaint this decider's snapshot": if
  another workspace's broadcast is relayed before the registration's rules, the
  client ignores its own holds from then on (`:476`; `view.ws = Own` in `Sound`).
- The replay of the live holds runs beside the relay: a resolution relayed between
  two replayed holds comes before the hold it ends, whose prompt then stays
  (`server/api/events.py:80`; `overtaken` in `GhostsLeave`).
- A hold closed when nobody waits for it any more, or by a cancelled decide request
  whose refused row was being expired, sends no resolved frame: its prompt stays
  (`consent/coordinator.py:660`; `silent`).
- No rules frame follows a broadcast that fails or is cut, a switch that is written
  back, a verdict that lapses, or the end of a VM (`:813`; `untold` in `RulesTold`).
  Broadcasts also overtake each other between their reads and their publish, so the
  last frame shown may be older than one shown before: `RulesTold` promises that the
  rules in force are shown, not that they are shown last.
- A scan that probes a VMM between its socket and its VM writes "unknown" over the
  "starting" of a start in flight (`server/watcher.py:112`), where `scan_workspace`
  says "A start in flight owns its row"; `RowSettles` says that it is mended.
- Connections that read the pending count before any of them inserts exceed
  the prompt cap together (`consent/coordinator.py:473`).

## Proofs

Checked by TLAPS for any workspaces, destinations, flows, decide requests and
bounds that meet the named assumptions of `Consent` (the daemon's name is no
workspace, flows have a workspace and a destination, bounds are numbers).

- `TypeCorrect`: the types. Not inductive alone: a resolve writes the verdict of
  its own record, and a switch restores the mode it remembered, so `TypeInv`
  adds `TasksName` (a task at work names its request) and `SwitchesLive` (a
  workspace under switch keeps its row).
- `EveryHoldHasOneCloser`: `OneCloser`. The inductive invariant `IInv` adds that
  an id not yet registered is held by nobody (`Fresh`, `Unheld`), that at most
  one of the registry, the timeout, a resolve and a teardown has the id
  (`Exclusive`), and that an open future has one of them (`Owned`). A pop
  requires the id in `holds` and so takes it from everybody else.
- `AllowsRestOnVerdicts`: `AllowsAreRuled`, from `Committed`: the record of a
  resolve past its UPDATE agrees with what was committed, and a committed row
  is never pending again.
- `KeepsItsPromise`: each step of Consent is a step of `Verdict` or a stutter.
- `OneFrame` and `ExpiredIsUnruled` (`ConsentEnds`), from `FrameInv`: nothing was
  said of a request that is still held (`Unsaid`), one resolve at most has popped it
  and has yet to speak (`OneSpeaker`), and whoever will call it expired found no
  verdict (`Undecided`). A resolve cancelled behind its UPDATE is why the second of the two
  is stated of requests that run to their end.
- `OnePrompt` and `PendingIsOwned`, from `RowInv`: the INSERT admits one pending row
  of a destination, and no later statement makes a row pending again; its owner
  hands it on at each await, and a failed transaction or a consumer stopped behind
  the INSERT are the two ways to lose it.
- `NothingHeldUngated`, from `QueueInv`: a flow is at work only while the queue
  of its workspace serves it, or after a detach that failed half-way, from where no
  boot of this daemon leads back; the engine's own stop precedes every detach a
  shutdown asks for (`KindsKnown`).

- `GatedPostures`, from `PostureInv`: the finding `consent_posture` goes one way only.
  A row that disagrees with the table of an attached workspace, with no switch under
  way, says "allow" over a gate. The invariant follows a switch to its end: before its
  commit the table agrees with the row it found, or that row said "allow"; a replay is
  owed only when the switch left "allow", and undoing it puts that back. A failed
  rollback is a failed transaction and is excepted. TLC also checked it, and
  `PostureInv`, over all postures with one fault and one restart (217 thousand states).

- `MovesAreSafe`, `NoOrphans`, `GuestsKeepNet`, `OneVmmEach` of `Lifecycle`: one
  inductive invariant, `SafeInv`, carries all four. None is inductive alone:
  `Locked` and `Guarded` say that a request at a step inside a lock holds it,
  and `Staged` what it may count on there although others move: a start that
  read its row again still has one, no VMM came to life between the launch's
  check and its spawn, a guest under a stopper's button stays off, a move's last
  look stays true. The argument is one of effects: `Effects`, `RowEffects`,
  `VmmEffects` and `NetEffects` sum up what any step of a request may do to a
  lock, a row, a VMM and an attachment, and `OthersStaged` plays them against
  what every other request counts on. `MovesAreSafe` says `VolumeSafe`: no volume is
  exchanged under a guest.
- `LeasesItsVolumes`: Lifecycle implements `Volumes`, with the guests that run or
  hang, the requests about to exchange a volume and the rows that exist as its three
  sets. It says more than `VolumeSafe`: a boot, too, keeps away from a move under way,
  two moves from each other, and a delete from both. `MoveEffects` adds to the
  effects above that a step begins a move behind a look at the VMM, ends its own, or
  touches none; `OneMover` that two requests inside the move lock are one. So each
  step is a `Boot`, `Halt`, `Move`, `Done`, `Delete` or `Restart`, or a stutter; a move
  and a boot count on a row that a delete cannot have taken (`Staged`).

- `QueueIsServed`, `PosturesAgree`, `AttachmentsAreWhole`, `SlicesAreExclusive`
  and `TypeCorrect` of `NetAttach`, for any workspaces, calls, slices, failures
  and restarts, from `NetAssumption` (the free holder is no call and no
  workspace, the free slice is no slice, each workspace is given known
  postures). One inductive invariant, `IInv`, carries all of them, and the
  argument is ownership: `Guarded` and `GuardMeans` say that the guard names
  exactly the call that stands inside it, `Locality` that no other call's step
  touches that workspace's books or kernel state, so `Staged`, what a call may
  count on at its step, is its own doing; `Sound` is what follows for a workspace
  at every step. Slices cross the guards, so they have an invariant of their
  own: `SlicesApart` adds the calls that own a slice (a claim before its
  attachment, a detach before its release) to the attachments that do, and
  `SliceStep` lists all a step may do to them. The interceptor's lock is in none
  of it: these four hold whether or not the two orders of locks deadlock.
- `RedirectsFollowRows` and `NothingIsLeft` (`NetAttachEnds`), on top of `IInv`. Both
  properties speak of a workspace about which no call is in flight, so `EndInv` says
  what a call in flight still owes. `RedirectInv` follows a placeholder to the
  kernel: the books of listeners agree with the rows, or a refresh stands at a step
  from where it will read them (`BooksFollow`); the table agrees with the books, or
  a swap will (`TableFollows`). The hard case is a posture switch that read the books
  before a refresh changed them: the refresh is then past its own change and waits
  for the guard the switch holds, so the stale table is swapped again
  (`SwitchFollows`). The two locks cross at a detach, which unpublishes before it
  unlistens; a listener without an attachment exists only while that detach waits
  for the lock (`Leased`, `ArmedBacked`). `ResidueInv` gives each slice in use,
  bound queue, tap and table an owner: an attachment, a service, or a call at a step
  that returns or publishes it; `HandsOfStep` says how each step passes them on.
  `Settled` then leaves the attachments as the only owners.
- `OnlyCyclesBlock`, `CyclesTakeRefreshes`, `NoRefreshNoCycle` (`NetAttachEnds`): how far
  the finding `net_deadlock` reaches. If every call in flight waits (`Stuck`), the guard
  and the interceptor's lock are held in crossed order: inside a guard only that lock
  is waited for (`HolderWaits`), and its holder waits only for a guard (`LockWaits`),
  so no other ring exists, of any number of calls. A ring needs a refresh from outside,
  of a workspace whose placeholders change, against an attach or detach of that
  workspace: neither a switch nor an attach's own refresh is ever in one, and where no
  placeholder changes there is none. `Waits` is stated on pcs and locks because ENABLED
  is out of reach; TLC checked that on the instance of `net_attach` a call in flight
  waits exactly when no step of it is enabled.

- `PlaintextIsBacked`, `RowsAreWhole`, `MarkersAreBacked` and `TypeCorrect` of
  `Secrets`, for any names, ids, requests and bounds, from `SecretsAssumption` (the
  free holder is no request, the empty name no name, the probe has a name, bounds are
  numbers). The
  three speak of moments when the store's lock is free, so the invariant `IInv`
  says what is owed while it is held: `Locked`, that only the holder stands at a
  step under it; `PlainOwned`, `MarkOwned` and `BlobOwned`, that plaintext or a
  marker without a row, or a row without ciphertext, is accounted for by a named
  mishap or by the holder's next step. A deletion reaches the wrong row only if
  the mints differ, and `MintsTell` says that a mint, unlike an id, tells whose
  row a request read. `BreaksKeeps` is the step of a request that breaks off: what it
  owed moves from its next step to a named mishap. The run has one id; the theorem
  covers any number.

- `HoldsAreShown`, `ScreensClear`, `ChangesAreTold` and `TypeCorrect` of
  `DeciderView`, for any holds, changes, connections and bound of the queue, from
  `ViewAssumption` (holds, revokes and switches are apart, the names differ, the
  queue holds a frame). The inductive invariant follows the queue. `Covered`: a hold
  that stands is shown, queued, or still to be replayed, which needs `RuledFirst` (the
  rules that name the workspace precede the listing). `Leaving`: a closed hold that is
  shown or about to be replayed has its resolution in the queue; this needs `Followed`,
  that a question in the queue has its resolution behind it, and `ToldClosed`, that no
  resolution is queued of a hold that stands. `RulesCovered`: a change is owed by its
  maker until a broadcast has read both halves, then by the queue, or by a
  registration that has yet to read or send them; `OneSwap` keeps the version a failed
  switch takes back its own.

Each proof of Consent splits the next-state relation with *footprint* lemmas: which actions
can touch a variable at all.

Each proof of `Enforcement` does the same. Its invariant, from `EnforcementAssumption`
(names are no addresses, the markers for "no flow" and "once" are no flow and no
destination):

- `EnforcementTyped`: the types, with `SoundPin` (a refusal of a name comes from a
  connection, only a verdict on a name is withdrawn) and `LiveInv` (an address
  lists each of its names once), without which a name taken off could stand there
  still. This is why `Without` is written with `RemoveFirst`, of which the library
  states what it leaves.
- `NobodyWaitsForNothing`: `HeldIsOwned`, with the addition that of the pins at work
  one at most waits for a given connection.
- `NoVerdictOnNeighbours`: `SharedUnpinned`. `SharedInv` follows an element of a name
  on an address that became shared while a task was between its two looks: unless
  a swap carried it, there is a pin that will look again or is withdrawing it, or a
  query about to retract (`Mended`).
- `RevokesClear`: `RevokeClears`. `RevokeInv` says what a revoke has behind it at each
  step, and that what appears behind its back is one of the strays the property names.

Every invariant of every passing run is a theorem, and so are the action property
`OneVmm` and the refinements `KeepsPromise` and `LeasesVolumes`. Model-checked only: the liveness
properties `EveryFlowEnds`, `EveryRowCloses`, `RowSettles`, `EveryRequestEnds`,
`CallsEnd`, `LockReturns` and `WindowCloses`. They rest on fairness, hence on
ENABLED, which is out of the prover's reach.

## Not modelled

Of the modelled components: `create` of a workspace, the share daemons and
`prepare`; the audit rows, `active_verdict_for` with its TTL and the prune of the
consent table; the disk-pressure probe; the auxiliary listeners (LLM, probe,
forwards) and the base guard; the certificate authority and the contents of the
interceptor's entry tables; the answer cache of the resolver; the probe endpoint
and the coverage flip of secrets. Each is a sequential read or write with no
second actor, or follows a state that is modelled.

Of the event hub: `close_all`, the hop between loops, the refusal of a registration
and the replay of the secret audit. Byte parsing (DNS, DHCP, HTTP), subprocess plumbing, TLS, the proxy's
rewriting of bodies, the LLM proxy, identities and encryption, host setup, doctor,
settings and migrations, the command line and the rest of the terminal clients, the test and
release scripts: sequential or pure I/O, most of the repository's lines.
