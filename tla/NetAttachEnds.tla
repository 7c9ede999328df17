------------------------------ MODULE NetAttachEnds ------------------------------
(***************************************************************************)
(* Theorems about NetAttach, for any workspaces, calls, slices, failures   *)
(* and restarts: what a workspace's table redirects follows its consent    *)
(* rows, and what no attachment needs is not left in the kernel.           *)
(*                                                                         *)
(* Neither says anything while somebody is at work on the workspace, so    *)
(* each invariant says what whoever is at work still owes.  RedirectInv is *)
(* a chain: the books of listeners follow the rows, or a refresh stands at *)
(* a step from where it will look at them (BooksFollow); the table follows *)
(* the books, or a swap will (TableFollows), and a switch of posture that  *)
(* read the books before they changed has that swap waiting behind its     *)
(* guard (SwitchFollows).  A listener without an attachment is only one    *)
(* whose detach waits for the lock (Leased, ArmedBacked).  ResidueInv says *)
(* who owns each slice, queue, tap and table: an attachment, a service, or *)
(* a call at a step that will return or publish it.                        *)
(***************************************************************************)
EXTENDS NetAttachProofs

\* Where a call holds the interceptor's lock.
LockPcs == {"rows", "arm", "modes", "swap", "install", "unlisten"}
LockMeans == \A t \in Tasks : lock = t <=> task[t].pc \in LockPcs

\* A dead proxy is a failure of this life.
DeadNamed == master = "dead" => "master" \in faults

\* Some call about the workspace stands at one of the steps.
Under(w, pcs) == \E t \in Tasks : Ws(t) = w /\ task[t].pc \in pcs

\* A refresh that is about to arm follows rows that ask for it, unless another
\* change of them waits behind it; past that, its goal is what the books say.
Aimed(t) ==
  /\ At(t, "arm") =>
       Ws(t) \notin armed /\ (Ws(t) \in wanted \/ Under(Ws(t), {"refresh"}))
  /\ task[t].pc \in {"modes", "swap", "install"} =>
       (Ws(t) \in armed <=> task[t].goal = "on")

\* A refresh past the lock has its attachment, or the one who takes it down
\* waits for that lock.
Leased(t) ==
  Never({"teardown", "late"}) /\ task[t].pc \in {"rows", "arm", "modes", "swap"} =>
    Attached(Ws(t)) \/ Under(Ws(t), {"quiet", "undo"})

\* The books of listeners hold no workspace without an attachment, but one that
\* is being taken down.
ArmedBacked(w) ==
  w \in armed /\ Never({"teardown", "late"}) =>
    Attached(w) \/ Under(w, {"quiet", "undo"})

\* The books of an attached workspace follow its rows, or a refresh will see
\* that they do.
BooksFollow(w) ==
  Attached(w) /\ Never({"master", "rearm", "late"}) =>
    \/ w \in armed <=> w \in wanted
    \/ Under(w, {"replay", "refresh", "rows", "arm"})

\* The table of an attached workspace follows the books, or a swap will see
\* that it does, also behind the switch of posture that read them before.
TableFollows(w) ==
  Attached(w) /\ Never({"master", "rearm", "late", "teardown"}) =>
    \/ table[w].redirect <=> w \in armed
    \/ Under(w, {"modes", "swap", "install"})

\* A switch about to install its table has read the books as they stand, or a
\* swap waits behind its guard.
SwitchFollows(t) ==
  At(t, "exchange") /\ Never({"master", "rearm", "late"}) =>
    \/ task[t].goal = "on" <=> Ws(t) \in armed
    \/ Under(Ws(t), {"modes", "swap"})

\* A build's table redirects nothing yet.
BuiltBare(t) ==
  task[t].pc \in {"serve", "publish"} => ~table[Ws(t)].redirect

\* Rows, books and tables agree, or a call that will see to it is on its way.
RedirectInv ==
  /\ LockMeans /\ DeadNamed
  /\ \A t \in Tasks : Aimed(t) /\ Leased(t) /\ SwitchFollows(t) /\ BuiltBare(t)
  /\ \A w \in Workspaces : ArmedBacked(w) /\ BooksFollow(w) /\ TableFollows(w)

\* Every slice that counts as live is an attachment's or a call's.
SlicesOwned ==
  Never({"record", "teardown", "late"}) =>
    \A s \in used :
      \/ \E w \in Workspaces : attached[w] = s
      \/ \E t \in Tasks : Owns(t) /\ task[t].slice = s

\* Calls that bound a queue for services to come, or will unbind it.
Binds(t) ==
  \/ task[t].pc \in {"tap", "table", "serve", "quiet"}
  \/ task[t].op = "detach" /\ task[t].pc \in {"undo", "unlisten"}

\* A bound queue is a service's, or such a call's.
QueueOwned(w) ==
  w \in bound /\ Never({"teardown", "late", "upstream"}) =>
    services[w] # "none" \/ \E t \in Tasks : Ws(t) = w /\ Binds(t)

\* Calls that left a tap, or a table, or will take it down.
TapPcs == {"table", "serve", "publish", "unwind", "quiet"} \cup UndoPcs
TablePcs == TapPcs \ {"table", "untap"}

\* A tap is an attachment's, or a call will take it down,
TapOwned(w) ==
  w \in taps /\ restarts = 0 /\ Never({"teardown", "late"}) =>
    Attached(w) \/ Under(w, TapPcs)

\* and so is a table.
TableOwned(w) ==
  table[w] # NoTable /\ restarts = 0 /\ Never({"teardown", "late"}) =>
    Attached(w) \/ Under(w, TablePcs)

\* Slice, queue, tap and table each have their owner.
ResidueInv ==
  /\ SlicesOwned
  /\ \A w \in Workspaces : QueueOwned(w) /\ TapOwned(w) /\ TableOwned(w)

\* What a step leaves of a call's record,
OwnStep(t) ==
  /\ wanted' = wanted /\ restarts' = restarts
  /\ task'[t].ws = Ws(t) \/ (task'[t].ws = Nobody /\ task'[t].pc = "idle")

\* of the interceptor's lock
LockStep(t) ==
  \/ lock' = lock /\ (task[t].pc \in LockPcs <=> task'[t].pc \in LockPcs)
  \/ lock = Nobody /\ lock' = t /\ task'[t].pc \in LockPcs
  \/ task[t].pc \in LockPcs /\ lock' = Nobody /\ task'[t].pc \notin LockPcs

\* The steps of a refresh, and the one of an undoing that takes the lock.
Listens(t) ==
  \/ UndoLock(t) \/ LockInterceptor(t) \/ ReadRows(t) \/ Arm(t)
  \/ ApplyModes(t) \/ SwapEnter(t) \/ SwapAbsent(t) \/ SwapInstall(t)

\* and, when it is none of these, of the listeners.
Rests(t) ==
  /\ armed' = armed /\ master' = master
  /\ task[t].pc \notin RefreshPcs /\ task'[t].pc \notin RefreshPcs \ {"refresh"}
  /\ task[t].pc # "undo"

\* A call that steps is about a workspace.
LEMMA AtWork ==
  ASSUME TypeOK, NEW t \in Tasks, Fits(t), Step(t)
  PROVE  Ws(t) \in Workspaces
<1>1. ~At(t, "idle")
  BY DEF Step, AttachStep, DetachStep, SwitchStep, RefreshStep, At, AttachExisting,
      AttachBuild, ClaimRecorded, ClaimFresh, ClaimRefused, RecordSlice, RecordFails,
      MakeTap, InstallTable, StartServices, PublishAttachment, ReplayVerdicts,
      UnwindServices, DetachNothing, DetachPop, StopConsent, UndoLock, Unlisten,
      DeleteTable, RemoveTap, SwitchAbsent, SwitchEnter, SwitchBind, SwitchInstall,
      SwitchCommit, SwitchPin, LockInterceptor, ReadRows, Arm, ApplyModes, SwapEnter,
      SwapAbsent, SwapInstall
<1>. QED  BY <1>1 DEF Fits, At, Ws


\* Every step keeps to its own call, takes or gives back the lock where LockPcs
\* says, and leaves the books of listeners to the steps that Listens names.
LEMMA Footprint ==
  ASSUME TypeOK, NEW t \in Tasks, Step(t)
  PROVE  OwnStep(t) /\ LockStep(t) /\ (Listens(t) \/ Rests(t))
<1>0. Moves(t)
  BY HaveMoves DEF TypeOK
<1>1. CASE AttachExisting(t)
  BY <1>1, <1>0 DEF AttachExisting, OwnStep, LockStep, LockPcs, Listens, Rests,
      RefreshPcs, Moves, At, Ws, locks, books, proxy, rows, kernel, life
<1>2. CASE AttachBuild(t)
  BY <1>2, <1>0 DEF AttachBuild, Enter, OwnStep, LockStep, LockPcs, Listens, Rests,
      RefreshPcs, Moves, At, Ws, locks, books, proxy, rows, kernel, life
<1>3. CASE ClaimRecorded(t)
  BY <1>3, <1>0 DEF ClaimRecorded, BuildOn, Fault, OwnStep, LockStep, LockPcs, Listens,
      Rests, RefreshPcs, Moves, At, Ws, locks, books, proxy, rows, kernel, life
<1>4. CASE ClaimFresh(t)
  BY <1>4, <1>0 DEF ClaimFresh, OwnStep, LockStep, LockPcs, Listens, Rests, RefreshPcs,
      Moves, At, Ws, locks, books, proxy, rows, kernel, life
<1>5. CASE ClaimRefused(t)
  BY <1>5, <1>0 DEF ClaimRefused, Return, OwnStep, LockStep, LockPcs, Listens, Rests,
      RefreshPcs, Moves, At, Ws, locks, books, proxy, rows, kernel, life
<1>6. CASE RecordSlice(t)
  BY <1>6, <1>0 DEF RecordSlice, BuildOn, Fault, OwnStep, LockStep, LockPcs, Listens,
      Rests, RefreshPcs, Moves, At, Ws, locks, books, proxy, rows, kernel, life
<1>7. CASE RecordFails(t)
  BY <1>7, <1>0 DEF RecordFails, Return, Fault, OwnStep, LockStep, LockPcs, Listens,
      Rests, RefreshPcs, Moves, At, Ws, locks, books, proxy, rows, kernel, life
<1>8. CASE MakeTap(t)
  BY <1>8, <1>0 DEF MakeTap, Unwind, Fault, OwnStep, LockStep, LockPcs, Listens, Rests,
      RefreshPcs, Moves, At, Ws, locks, books, proxy, rows, kernel, life
<1>9. CASE InstallTable(t)
  BY <1>9, <1>0 DEF InstallTable, Unwind, Fault, OwnStep, LockStep, LockPcs, Listens,
      Rests, RefreshPcs, Moves, At, Ws, locks, books, proxy, rows, kernel, life
<1>10. CASE StartServices(t)
  BY <1>10, <1>0 DEF StartServices, Unwind, Fault, OwnStep, LockStep, LockPcs, Listens,
      Rests, RefreshPcs, Moves, At, Ws, locks, books, proxy, rows, kernel, life
<1>11. CASE PublishAttachment(t)
  BY <1>11, <1>0 DEF PublishAttachment, OwnStep, LockStep, LockPcs, Listens, Rests,
      RefreshPcs, Moves, At, Ws, locks, books, proxy, rows, kernel, life
<1>12. CASE ReplayVerdicts(t)
  BY <1>12, <1>0 DEF ReplayVerdicts, Unwind, Fault, OwnStep, LockStep, LockPcs, Listens,
      Rests, RefreshPcs, Moves, At, Ws, locks, books, proxy, rows, kernel, life
<1>13. CASE UnwindServices(t)
  BY <1>13, <1>0 DEF UnwindServices, OwnStep, LockStep, LockPcs, Listens, Rests,
      RefreshPcs, Moves, At, Ws, locks, books, proxy, rows, kernel, life
<1>14. CASE DetachNothing(t)
  BY <1>14, <1>0 DEF DetachNothing, OwnStep, LockStep, LockPcs, Listens, Rests,
      RefreshPcs, Moves, At, Ws, locks, books, proxy, rows, kernel, life
<1>15. CASE DetachPop(t)
  BY <1>15, <1>0 DEF DetachPop, Enter, OwnStep, LockStep, LockPcs, Listens, Rests,
      RefreshPcs, Moves, At, Ws, locks, books, proxy, rows, kernel, life
<1>16. CASE StopConsent(t)
  BY <1>16, <1>0 DEF StopConsent, Return, Fault, OwnStep, LockStep, LockPcs, Listens,
      Rests, RefreshPcs, Moves, At, Ws, locks, books, proxy, rows, kernel, life
<1>17. CASE UndoLock(t)
  BY <1>17, <1>0 DEF UndoLock, OwnStep, LockStep, LockPcs, Listens, Rests, RefreshPcs,
      Moves, At, Ws, locks, books, proxy, rows, kernel, life
<1>18. CASE Unlisten(t)
  BY <1>18, <1>0 DEF Unlisten, Return, Fault, OwnStep, LockStep, LockPcs, Listens,
      Rests, RefreshPcs, Moves, At, Ws, locks, books, proxy, rows, kernel, life
<1>19. CASE DeleteTable(t)
  BY <1>19, <1>0 DEF DeleteTable, Return, Fault, OwnStep, LockStep, LockPcs, Listens,
      Rests, RefreshPcs, Moves, At, Ws, locks, books, proxy, rows, kernel, life
<1>20. CASE RemoveTap(t)
  BY <1>20, <1>0 DEF RemoveTap, Return, Fault, OwnStep, LockStep, LockPcs, Listens,
      Rests, RefreshPcs, Moves, At, Ws, locks, books, proxy, rows, kernel, life
<1>21. CASE SwitchAbsent(t)
  BY <1>21, <1>0 DEF SwitchAbsent, OwnStep, LockStep, LockPcs, Listens, Rests,
      RefreshPcs, Moves, At, Ws, locks, books, proxy, rows, kernel, life
<1>22. CASE SwitchEnter(t)
  BY <1>22, <1>0 DEF SwitchEnter, Enter, OwnStep, LockStep, LockPcs, Listens, Rests,
      RefreshPcs, Moves, At, Ws, locks, books, proxy, rows, kernel, life
<1>23. CASE SwitchBind(t)
  BY <1>23, <1>0 DEF SwitchBind, Fresh, Return, Fault, OwnStep, LockStep, LockPcs,
      Listens, Rests, RefreshPcs, Moves, At, Ws, locks, books, proxy, rows, kernel, life
<1>24. CASE SwitchInstall(t)
  BY <1>24, <1>0 DEF SwitchInstall, Fresh, Return, Fault, OwnStep, LockStep, LockPcs,
      Listens, Rests, RefreshPcs, Moves, At, Ws, locks, books, proxy, rows, kernel, life
<1>25. CASE SwitchCommit(t)
  BY <1>25, <1>0 DEF SwitchCommit, Return, OwnStep, LockStep, LockPcs, Listens, Rests,
      RefreshPcs, Moves, At, Ws, locks, books, proxy, rows, kernel, life
<1>26. CASE SwitchPin(t)
  BY <1>26, <1>0 DEF SwitchPin, Return, Fault, OwnStep, LockStep, LockPcs, Listens,
      Rests, RefreshPcs, Moves, At, Ws, locks, books, proxy, rows, kernel, life
<1>27. CASE LockInterceptor(t)
  BY <1>27, <1>0 DEF LockInterceptor, OwnStep, LockStep, LockPcs, Listens, Rests,
      RefreshPcs, Moves, At, Ws, locks, books, proxy, rows, kernel, life
<1>28. CASE ReadRows(t)
  BY <1>28, <1>0 DEF ReadRows, Done, Raise, Unwind, RefreshFault, Fault, OwnStep,
      LockStep, LockPcs, Listens, Rests, RefreshPcs, Moves, At, Ws, locks, books,
      proxy, rows, kernel, life
<1>29. CASE Arm(t)
  BY <1>29, <1>0 DEF Arm, Raise, Unwind, RefreshFault, Fault, OwnStep, LockStep,
      LockPcs, Listens, Rests, RefreshPcs, Moves, At, Ws, locks, books, proxy, rows,
      kernel, life
<1>30. CASE ApplyModes(t)
  BY <1>30, <1>0 DEF ApplyModes, RefreshFault, Fault, RollBack, Raise, Unwind, OwnStep,
      LockStep, LockPcs, Listens, Rests, RefreshPcs, Moves, At, Ws, locks, books, proxy,
      rows, kernel, life
<1>31. CASE SwapEnter(t)
  BY <1>31, <1>0 DEF SwapEnter, Enter, OwnStep, LockStep, LockPcs, Listens, Rests,
      RefreshPcs, Moves, At, Ws, locks, books, proxy, rows, kernel, life
<1>32. CASE SwapAbsent(t)
  BY <1>32, <1>0 DEF SwapAbsent, Raise, Unwind, Done, OwnStep, LockStep, LockPcs,
      Listens, Rests, RefreshPcs, Moves, At, Ws, locks, books, proxy, rows, kernel, life
<1>33. CASE SwapInstall(t)
  BY <1>33, <1>0 DEF SwapInstall, Raise, Unwind, Done, Exit, RefreshFault, Fault,
      RollBack, OwnStep, LockStep, LockPcs, Listens, Rests, RefreshPcs, Moves, At, Ws,
      locks, books, proxy, rows, kernel, life
<1>. QED
  BY <1>1, <1>2, <1>3, <1>4, <1>5, <1>6, <1>7, <1>8, <1>9, <1>10, <1>11, <1>12, <1>13,
      <1>14, <1>15, <1>16, <1>17, <1>18, <1>19, <1>20, <1>21, <1>22, <1>23, <1>24,
      <1>25, <1>26, <1>27, <1>28, <1>29, <1>30, <1>31, <1>32, <1>33 DEF Step,
      AttachStep, DetachStep, SwitchStep, RefreshStep

\* What a step of one call leaves of all the rest.
Around(t) ==
  /\ Ws(t) \in Workspaces /\ Moves(t) /\ OwnStep(t) /\ LockStep(t)
  /\ \A u \in Tasks \ {t} : task'[u] = task[u]
  /\ \A w \in Workspaces \ {Ws(t)} : Same(w)
  /\ guard[Ws(t)].by \in {Nobody, t} \/ Same(Ws(t))
  /\ faults \subseteq faults'

\* Every step of a call leaves that.
LEMMA HaveAround ==
  ASSUME IInv, NEW t \in Tasks, Step(t)
  PROVE  Around(t)
<1>0. TypeOK /\ Fits(t) /\ Guarded(t)
  BY DEF IInv
<1>1. Ws(t) \in Workspaces
  BY <1>0, AtWork
<1>2. /\ \A u \in Tasks \ {t} : task'[u] = task[u]
      /\ \A w \in Workspaces \ {Ws(t)} : Same(w)
      /\ guard[Ws(t)].by \in {Nobody, t} \/ Same(Ws(t))
      /\ faults \subseteq faults'
  BY <1>0, <1>1, Locality
<1>3. Moves(t) /\ OwnStep(t) /\ LockStep(t)
  BY <1>0, HaveMoves, Footprint DEF TypeOK
<1>. QED  BY <1>1, <1>2, <1>3 DEF Around

\* A workspace stays under the steps pcs unless the call that steps leaves them.
LEMMA UnderKept ==
  ASSUME NEW t \in Tasks, Around(t), NEW w \in Workspaces, NEW pcs, "idle" \notin pcs,
         Under(w, pcs), Ws(t) = w /\ task[t].pc \in pcs => task'[t].pc \in pcs
  PROVE  Under(w, pcs)'
<1>1. PICK u \in Tasks : Ws(u) = w /\ task[u].pc \in pcs
  BY DEF Under
<1>2. CASE u = t
  BY <1>1, <1>2 DEF Under, Around, OwnStep, Ws
<1>3. CASE u # t
  BY <1>1, <1>3 DEF Under, Around, Ws
<1>. QED  BY <1>2, <1>3

\* A guard has one holder.
LEMMA OneHolder ==
  ASSUME IInv, NEW t \in Tasks, NEW u \in Tasks, Holding(t), Holding(u), Ws(t) = Ws(u)
  PROVE  t = u
<1>1. guard[Ws(t)] = [by |-> t, depth |-> Depth(t)]
  BY DEF IInv, Guarded
<1>2. guard[Ws(u)] = [by |-> u, depth |-> Depth(u)]
  BY DEF IInv, Guarded
<1>3. guard[Ws(t)].by = t /\ guard[Ws(u)].by = u
  BY <1>1, <1>2
<1>. QED  BY <1>3

\* Where a call stands says whether it is inside its guard.
LEMMA Inside ==
  ASSUME IInv, NEW t \in Tasks
  PROVE  /\ task[t].pc \in {"quiet", "undo", "unlisten", "delete", "untap", "unwind",
              "install", "exchange", "snapshot", "commit", "pin", "claim", "record", "tap", "table",
              "serve", "publish", "replay"} => Holding(t)
         /\ task[t].pc \in {"arm", "modes", "swap", "rows", "refresh"} /\ ~Holding(t) =>
              task[t].op = "refresh"
         /\ task[t].pc \in {"arm", "modes", "swap", "rows", "refresh"} /\ Holding(t) =>
              task[t].op = "attach"
         /\ task[t].pc \in {"claim", "record", "tap", "table", "serve", "publish"} =>
              task[t].op = "attach"
         /\ task[t].pc # "idle" => Ws(t) \in Workspaces
<1>. Fits(t) /\ task[t] \in TaskType
  BY DEF IInv, TypeOK
<1>. QED
  BY DEF Fits, TaskType, Holding, At, Ws, ClaimPcs, UndoPcs, SwitchPcs, RefreshPcs

\* While another call has the interceptor's lock, the books of listeners rest.
LEMMA LockedOut ==
  ASSUME TypeOK, NetAssumption, LockMeans, NEW t \in Tasks, NEW u \in Tasks, u # t, lock = u,
         Step(t)
  PROVE  Rests(t)
<1>. lock # Nobody /\ task[t].pc \notin LockPcs
  BY DEF LockMeans, NetAssumption
<1>. QED
  BY Footprint DEF Listens, LockPcs, At, UndoLock, LockInterceptor, ReadRows, Arm, ApplyModes,
       SwapEnter, SwapAbsent, SwapInstall

\* The lock is where the calls stand.
LEMMA LockKept ==
  ASSUME NetAssumption, LockMeans, NEW t \in Tasks, Around(t)
  PROVE  LockMeans'
BY DEF LockMeans, Around, LockStep, NetAssumption

\* A dead master is named.
LEMMA DeadKept ==
  ASSUME TypeOK, DeadNamed, NEW t \in Tasks, Step(t), faults \subseteq faults'
  PROVE  DeadNamed'
<1>1. CASE LockInterceptor(t)
  BY <1>1 DEF LockInterceptor, DeadNamed, proxy
<1>2. CASE Arm(t)
  BY <1>2 DEF Arm, DeadNamed, proxy
<1>3. CASE master' = master
  BY <1>3 DEF DeadNamed
<1>. QED
  BY <1>1, <1>2, <1>3, Footprint DEF Listens, Rests, UndoLock, ReadRows, ApplyModes, SwapEnter,
       SwapAbsent, SwapInstall, proxy

\* A step changes the books of listeners of its own workspace alone, short of the
\* end of the master.
LEMMA ArmedLocal ==
  ASSUME TypeOK, DeadNamed, NEW t \in Tasks, Step(t), NEW w \in Workspaces, w # Ws(t)
  PROVE  /\ w \in armed' => w \in armed
         /\ "master" \notin faults => (w \in armed' <=> w \in armed)
<1>1. CASE LockInterceptor(t)
  BY <1>1 DEF LockInterceptor, DeadNamed, proxy
<1>2. CASE Rests(t)
  BY <1>2 DEF Rests
<1>. QED
  BY <1>1, <1>2, Footprint DEF Listens, UndoLock, ReadRows, Done, Arm, RefreshFault, Raise,
       ApplyModes, RollBack, SwapEnter, SwapAbsent, SwapInstall, proxy

\* A refresh stays aimed at what the rows ask.
LEMMA AimedKept ==
  ASSUME NetAssumption, IInv, RedirectInv, NEW t \in Tasks, Step(t), Around(t)
  PROVE  \A u \in Tasks : Aimed(u)'
<1>0. TypeOK /\ LockMeans /\ Aimed(t) /\ Moves(t) /\ wanted' = wanted
  BY DEF IInv, RedirectInv, Around, OwnStep
<1>1. ASSUME NEW u \in Tasks \ {t} PROVE Aimed(u)'
  <2>0. Aimed(u) /\ task'[u] = task[u] /\ Ws(u)' = Ws(u) /\ (At(u, "arm")' <=> At(u, "arm"))
    BY DEF RedirectInv, Around, Ws, At
  <2>1. CASE task[u].pc \in {"arm", "modes", "swap", "install"}
    <3>1. lock = u
      BY <2>1, <1>0 DEF LockMeans, LockPcs
    <3>2. Rests(t)
      BY <3>1, <1>0, LockedOut
    <3>3. Ws(u) \in Workspaces
      BY <2>1, Inside
    <3>4. Under(Ws(u), {"refresh"}) => Under(Ws(u), {"refresh"})'
      <4>1. ASSUME NEW w \in Workspaces, Under(w, {"refresh"}) PROVE Under(w, {"refresh"})'
        BY <4>1, <3>2, UnderKept, Zenon DEF Rests, RefreshPcs
      <4>. QED  BY <4>1, <3>3, <2>0 DEF Under
    <3>. QED  BY <3>2, <3>4, <2>0, <1>0 DEF Aimed, Rests
  <2>2. CASE task[u].pc \notin {"arm", "modes", "swap", "install"}
    BY <2>2, <2>0 DEF Aimed, At
  <2>. QED  BY <2>1, <2>2
<1>2. Aimed(t)'
  <2>1. CASE Rests(t)
    BY <2>1 DEF Rests, RefreshPcs, Aimed, At
  <2>2. CASE UndoLock(t) \/ LockInterceptor(t)
    BY <2>2, <1>0 DEF UndoLock, LockInterceptor, Moves, Aimed, At
  <2>3. CASE ReadRows(t)
    BY <2>3, <1>0 DEF ReadRows, Done, Raise, Unwind, RefreshFault, Fault, Moves,
        Aimed, At, Ws
  <2>4. CASE Arm(t)
    BY <2>4, <1>0 DEF Arm, Raise, Unwind, Moves, Aimed, At, Ws
  <2>5. CASE ApplyModes(t)
    BY <2>5, <1>0 DEF ApplyModes, RollBack, Raise, Unwind, Moves, Aimed, At, Ws
  <2>6. CASE SwapEnter(t) \/ SwapAbsent(t)
    BY <2>6, <1>0 DEF SwapEnter, SwapAbsent, Done, Raise, Unwind, Moves, Aimed, At, Ws, proxy
  <2>7. CASE SwapInstall(t)
    BY <2>7, <1>0 DEF SwapInstall, Done, RollBack, Raise, Unwind, Moves, Aimed, At, Ws
  <2>. QED  BY <2>1, <2>2, <2>3, <2>4, <2>5, <2>6, <2>7, <1>0, Footprint DEF Listens
<1>. QED  BY <1>1, <1>2

\* What changes an attachment.
LEMMA AttachedRests ==
  ASSUME TypeOK, NEW t \in Tasks, Step(t)
  PROVE  \/ PublishAttachment(t) \/ DetachPop(t) \/ attached' = attached
BY DEF Step, AttachStep, DetachStep, SwitchStep, RefreshStep, AttachExisting, AttachBuild,
   ClaimRecorded, ClaimFresh, ClaimRefused, RecordSlice, RecordFails, MakeTap,
   InstallTable, StartServices, ReplayVerdicts, UnwindServices, DetachNothing,
   StopConsent, UndoLock, Unlisten, DeleteTable, RemoveTap, SwitchAbsent, SwitchEnter,
   SwitchBind, SwitchInstall, SwitchCommit, SwitchPin, LockInterceptor, ReadRows, Arm,
   ApplyModes, SwapEnter, SwapAbsent, SwapInstall, BuildOn, Enter, books

\* What leaves the first steps of a detach.
LEMMA QuietLeft ==
  ASSUME TypeOK, NEW t \in Tasks, Step(t), task[t].pc \in {"quiet", "undo"}
  PROVE  \/ UndoLock(t)
         \/ task'[t].pc = "undo" \/ "teardown" \in faults'
<1>1. CASE StopConsent(t)
  BY <1>1, HaveMoves DEF StopConsent, Fault, Moves, TypeOK
<1>. QED
  BY <1>1 DEF Step, AttachStep, DetachStep, SwitchStep, RefreshStep, AttachExisting, AttachBuild,
   ClaimRecorded, ClaimFresh, ClaimRefused, RecordSlice, RecordFails, MakeTap,
   InstallTable, StartServices, PublishAttachment, ReplayVerdicts, UnwindServices,
   DetachNothing, DetachPop, Unlisten, DeleteTable, RemoveTap, SwitchAbsent,
   SwitchEnter, SwitchBind, SwitchInstall, SwitchCommit, SwitchPin, LockInterceptor,
   ReadRows, Arm, ApplyModes, SwapEnter, SwapAbsent, SwapInstall, At

\* What leaves the steps before the armed state is settled.
LEMMA DueLeft ==
  ASSUME TypeOK, NEW t \in Tasks, Step(t), task[t].pc \in {"replay", "refresh", "rows", "arm"}
  PROVE  \/ ReplayVerdicts(t) \/ LockInterceptor(t)
         \/ ReadRows(t) \/ Arm(t)
BY DEF Step, AttachStep, DetachStep, SwitchStep, RefreshStep, AttachExisting, AttachBuild,
   ClaimRecorded, ClaimFresh, ClaimRefused, RecordSlice, RecordFails, MakeTap,
   InstallTable, StartServices, PublishAttachment, UnwindServices, DetachNothing,
   DetachPop, StopConsent, UndoLock, Unlisten, DeleteTable, RemoveTap, SwitchAbsent,
   SwitchEnter, SwitchBind, SwitchInstall, SwitchCommit, SwitchPin, ReadRows, Arm,
   ApplyModes, SwapEnter, SwapAbsent, SwapInstall, At

\* A refresh keeps its lease.
LEMMA LeasedKept ==
  ASSUME NetAssumption, IInv, RedirectInv, NEW t \in Tasks, Step(t), Around(t)
  PROVE  \A u \in Tasks : Leased(u)'
<1>. SUFFICES ASSUME Never({"teardown", "late"})', NEW u \in Tasks,
                     task'[u].pc \in {"rows", "arm", "modes", "swap"}
              PROVE  Attached(Ws(u))' \/ Under(Ws(u), {"quiet", "undo"})'
  BY DEF Leased
<1>0. /\ TypeOK /\ LockMeans /\ Leased(u) /\ Moves(t) /\ Never({"teardown", "late"})
      /\ faults' \cap {"teardown", "late"} = {} /\ DOMAIN attached = Workspaces
  BY DEF IInv, RedirectInv, Around, Never, TypeOK
<1>1. CASE u # t
  <2>0. /\ task'[u] = task[u] /\ Ws(u)' = Ws(u) /\ Ws(u) \in Workspaces
        /\ Ws(t) \in Workspaces /\ lock = u
    BY <1>1, <1>0, Inside DEF Around, Ws, LockMeans, LockPcs
  <2>1. Rests(t)
    BY <2>0, <1>0, <1>1, LockedOut
  <2>2. CASE Attached(Ws(u))
    <3>1. CASE attached'[Ws(u)] = attached[Ws(u)]
      BY <3>1, <2>2, <2>0 DEF Attached
    <3>2. CASE DetachPop(t) /\ Ws(t) = Ws(u)
      <4>1. task'[t].pc = "quiet" /\ task'[t].ws = Ws(t)
        BY <3>2, <1>0 DEF DetachPop, Moves, Ws
      <4>. QED  BY <4>1, <3>2, <2>0 DEF Under, Ws
    <3>3. CASE PublishAttachment(t)
      <4>1. task[t].slice \in Slices
        <5>. Fits(t)
          BY DEF IInv
        <5>. QED  BY <3>3 DEF PublishAttachment, Fits, At
      <4>. QED  BY <4>1, <3>3, <2>2, <2>0, <1>0 DEF PublishAttachment, Attached, NetAssumption
    <3>4. Ws(u) # Ws(t) => attached'[Ws(u)] = attached[Ws(u)]
      BY <2>0 DEF Around, Same
    <3>. QED  BY <3>1, <3>2, <3>3, <3>4, <2>0, <1>0, AttachedRests
  <2>3. CASE Under(Ws(u), {"quiet", "undo"})
    <3>1. task[t].pc \in {"quiet", "undo"} => task'[t].pc \in {"quiet", "undo"}
      BY <2>1, <1>0, QuietLeft DEF Rests, UndoLock, At
    <3>2. ASSUME NEW w \in Workspaces, Under(w, {"quiet", "undo"})
          PROVE  Under(w, {"quiet", "undo"})'
      BY <3>1, <3>2, UnderKept, Zenon
    <3>. QED  BY <2>3, <3>2, <2>0 DEF Under
  <2>. QED  BY <2>2, <2>3, <2>0, <1>0 DEF Leased
<1>2. CASE u = t
  <2>0. task'[t].ws = Ws(t) /\ Ws(t) \in Workspaces
    BY <1>2 DEF Around, OwnStep
  <2>1. CASE LockInterceptor(t)
    BY <2>1, <2>0, <1>2, <1>0 DEF LockInterceptor, Moves, Attached, Ws, books
  <2>2. CASE task[t].pc \in {"rows", "arm", "modes", "swap"}
    <3>1. attached' = attached
      BY <2>2, <1>0, AttachedRests DEF PublishAttachment, DetachPop, At
    <3>2. ASSUME NEW w \in Workspaces, Under(w, {"quiet", "undo"})
          PROVE  Under(w, {"quiet", "undo"})'
      BY <2>2, <3>2, UnderKept, Zenon
    <3>3. Attached(Ws(t)) \/ Under(Ws(t), {"quiet", "undo"})
      BY <2>2, <1>0, <1>2 DEF Leased
    <3>. QED  BY <3>1, <3>2, <3>3, <2>0, <1>2 DEF Attached, Ws
  <2>3. CASE SwapInstall(t)
    <3>1. Staged(t) /\ attached' = attached
      BY <2>3 DEF IInv, SwapInstall, books
    <3>2. Attached(Ws(t))
      BY <2>3, <3>1 DEF Staged, SwapInstall, At
    <3>. QED  BY <3>1, <3>2, <2>0, <1>2 DEF Attached, Ws
  <2>4. CASE Rests(t) \/ UndoLock(t)
    BY <2>4, <1>0, <1>2 DEF Rests, RefreshPcs, UndoLock, Moves
  <2>. QED
    BY <2>1, <2>2, <2>3, <2>4, <1>0, Footprint DEF Listens, ReadRows, Arm, ApplyModes, SwapEnter,
         SwapAbsent, At
<1>. QED  BY <1>1, <1>2

\* The books of listeners stay backed.
LEMMA BackedKept ==
  ASSUME NetAssumption, IInv, RedirectInv, NEW t \in Tasks, Step(t), Around(t)
  PROVE  \A w \in Workspaces : ArmedBacked(w)'
<1>. SUFFICES ASSUME Never({"teardown", "late"})', NEW w \in Workspaces, w \in armed'
              PROVE  Attached(w)' \/ Under(w, {"quiet", "undo"})'
  BY DEF ArmedBacked
<1>0. /\ TypeOK /\ DeadNamed /\ ArmedBacked(w) /\ Leased(t) /\ Moves(t)
      /\ Never({"teardown", "late"}) /\ faults' \cap {"teardown", "late"} = {}
      /\ DOMAIN attached = Workspaces /\ Ws(t) \in Workspaces
  BY DEF IInv, RedirectInv, Around, Never, TypeOK
<1>1. CASE w # Ws(t)
  <2>1. w \in armed /\ attached'[w] = attached[w]
    BY <1>1, <1>0, ArmedLocal DEF Around, Same
  <2>2. Under(w, {"quiet", "undo"}) => Under(w, {"quiet", "undo"})'
    BY <1>1, UnderKept, Zenon
  <2>. QED  BY <2>1, <2>2, <1>0 DEF ArmedBacked, Attached
<1>2. CASE w = Ws(t)
  <2>1. Attached(w) \/ Under(w, {"quiet", "undo"})
    <3>1. CASE w \in armed
      BY <3>1, <1>0 DEF ArmedBacked
    <3>2. CASE w \notin armed
      <4>1. Arm(t)
        BY <3>2, <1>0, Footprint DEF Listens, Rests, UndoLock, LockInterceptor, ReadRows,
          ApplyModes, RollBack, SwapEnter, SwapAbsent, SwapInstall, proxy
      <4>. QED  BY <4>1, <1>0, <1>2 DEF Leased, Arm, At
    <3>. QED  BY <3>1, <3>2
  <2>2. ~UndoLock(t)
    BY <1>2 DEF UndoLock
  <2>3. CASE Attached(w)
    <3>1. CASE attached'[w] = attached[w]
      BY <3>1, <2>3 DEF Attached
    <3>2. CASE DetachPop(t)
      <4>1. task'[t].pc = "quiet" /\ task'[t].ws = Ws(t)
        BY <3>2, <1>0 DEF DetachPop, Moves, Ws
      <4>. QED  BY <4>1, <3>2, <1>2 DEF Under, Ws
    <3>3. CASE PublishAttachment(t)
      <4>1. task[t].slice \in Slices
        <5>. Fits(t)
          BY DEF IInv
        <5>. QED  BY <3>3 DEF PublishAttachment, Fits, At
      <4>. QED  BY <4>1, <3>3, <1>2, <1>0 DEF PublishAttachment, Attached, NetAssumption
    <3>. QED  BY <3>1, <3>2, <3>3, <1>0, AttachedRests
  <2>4. CASE Under(w, {"quiet", "undo"})
    <3>1. task[t].pc \in {"quiet", "undo"} => task'[t].pc \in {"quiet", "undo"}
      BY <2>2, <1>0, QuietLeft
    <3>. QED  BY <3>1, <2>4, UnderKept, Zenon
  <2>. QED  BY <2>1, <2>3, <2>4
<1>. QED  BY <1>1, <1>2

\* The books follow the rows, or a refresh is on its way.
LEMMA BooksKept ==
  ASSUME NetAssumption, IInv, RedirectInv, NEW t \in Tasks, Step(t), Around(t)
  PROVE  \A w \in Workspaces : BooksFollow(w)'
<1>. DEFINE due == {"replay", "refresh", "rows", "arm"}
<1>. SUFFICES ASSUME Never({"master", "rearm", "late"})', NEW w \in Workspaces, Attached(w)',
                     ~(w \in armed' <=> w \in wanted')
              PROVE  Under(w, due)'
  BY DEF BooksFollow
<1>0. /\ TypeOK /\ DeadNamed /\ BooksFollow(w) /\ Aimed(t) /\ Moves(t)
      /\ Never({"master", "rearm", "late"}) /\ faults' \cap {"master", "rearm", "late"} = {}
      /\ faults \cap {"master", "rearm", "late"} = {} /\ wanted' = wanted /\ Staged(t)
      /\ DOMAIN attached = Workspaces /\ Ws(t) \in Workspaces
  BY DEF IInv, RedirectInv, Around, OwnStep, Never, TypeOK
<1>1. CASE w # Ws(t)
  <2>1. (w \in armed' <=> w \in armed) /\ attached'[w] = attached[w]
    BY <1>1, <1>0, ArmedLocal DEF Around, Same
  <2>2. Under(w, due) => Under(w, due)'
    BY <1>1, UnderKept, Zenon
  <2>. QED  BY <2>1, <2>2, <1>0 DEF BooksFollow, Attached
<1>2. CASE w = Ws(t)
  <2>1. ASSUME task'[t].pc \in due PROVE Under(w, due)'
    <3>1. task'[t].ws = Ws(t)
      BY <2>1 DEF Around, OwnStep
    <3>. QED  BY <3>1, <2>1, <1>2 DEF Under, Ws
  <2>2. CASE ~Attached(w)
    <3>1. PublishAttachment(t)
      BY <2>2, <1>0, <1>2, AttachedRests DEF Attached, DetachPop
    <3>2. task'[t].pc \in due
      BY <3>1, <1>0 DEF PublishAttachment, Moves
    <3>. QED  BY <3>2, <2>1
  <2>3. CASE Attached(w) /\ task[t].pc \in {"replay", "refresh"}
    <3>1. CASE ReplayVerdicts(t)
      BY <3>1, <2>1, <1>0 DEF ReplayVerdicts, Fault, Moves
    <3>2. CASE LockInterceptor(t)
      BY <3>2, <2>1, <2>3, <1>2, <1>0 DEF LockInterceptor, Moves, Attached
    <3>. QED  BY <3>1, <3>2, <2>3, <1>0, DueLeft DEF ReadRows, Arm, At
  <2>4. CASE Attached(w) /\ ReadRows(t)
    BY <2>4, <2>1, <1>2, <1>0 DEF ReadRows, RefreshFault, Fault, Moves, Ws
  <2>5. CASE Attached(w) /\ Arm(t)
    <3>1. w \in armed'
      BY <2>5, <1>2, <1>0 DEF Arm, RefreshFault, Fault
    <3>2. Under(w, {"refresh"})
      BY <3>1, <2>5, <1>2, <1>0 DEF Aimed, Arm
    <3>3. PICK u \in Tasks : Ws(u) = w /\ task[u].pc = "refresh"
      BY <3>2 DEF Under
    <3>4. u # t
      BY <3>3, <2>5 DEF Arm, At
    <3>. QED  BY <3>3, <3>4 DEF Under, Around, Ws
  <2>6. CASE Attached(w) /\ task[t].pc \notin due
    <3>1. armed' = armed
      <4>1. CASE UndoLock(t)
        BY <4>1, <2>6, <1>2, <1>0 DEF UndoLock, Staged, UndoPcs, At
      <4>2. CASE ApplyModes(t)
        BY <4>2, <1>0 DEF ApplyModes, RefreshFault, Fault
      <4>3. CASE SwapInstall(t)
        BY <4>3, <1>0 DEF SwapInstall, RefreshFault, Fault
      <4>. QED
        BY <4>1, <4>2, <4>3, <2>6, <1>0, Footprint DEF Listens, Rests, LockInterceptor, ReadRows,
          Arm, SwapEnter, SwapAbsent, proxy, At
    <3>2. Under(w, due)
      BY <3>1, <2>6, <1>0 DEF BooksFollow
    <3>. QED  BY <3>2, <2>6, UnderKept, Zenon
  <2>7. task[t].pc \in {"rows", "arm"} => ReadRows(t) \/ Arm(t)
    BY <1>0, DueLeft DEF ReplayVerdicts, LockInterceptor, At
  <2>8. task[t].pc \in due => task[t].pc \in {"replay", "refresh"} \/ task[t].pc \in {"rows", "arm"}
    OBVIOUS
  <2>. HIDE DEF due
  <2>. QED  BY <2>2, <2>3, <2>4, <2>5, <2>6, <2>7, <2>8
<1>. QED  BY <1>1, <1>2

\* What changes a table.
LEMMA TableRests ==
  ASSUME TypeOK, NEW t \in Tasks, Step(t)
  PROVE  \/ InstallTable(t) \/ DeleteTable(t) \/ SwitchInstall(t) \/ SwapInstall(t)
         \/ table' = table
BY DEF Step, AttachStep, DetachStep, SwitchStep, RefreshStep, AttachExisting, AttachBuild,
   ClaimRecorded, ClaimFresh, ClaimRefused, RecordSlice, RecordFails, MakeTap,
   StartServices, PublishAttachment, ReplayVerdicts, UnwindServices, DetachNothing,
   DetachPop, StopConsent, UndoLock, Unlisten, RemoveTap, SwitchAbsent, SwitchEnter,
   SwitchBind, SwitchCommit, SwitchPin, LockInterceptor, ReadRows, Arm, ApplyModes,
   SwapEnter, SwapAbsent, BuildOn, Enter, kernel

\* What leaves the steps of a swap.
LEMMA SwapLeft ==
  ASSUME TypeOK, NEW t \in Tasks, Step(t), task[t].pc \in {"modes", "swap", "install"}
  PROVE  ApplyModes(t) \/ SwapEnter(t) \/ SwapAbsent(t) \/ SwapInstall(t)
BY DEF Step, AttachStep, DetachStep, SwitchStep, RefreshStep, AttachExisting, AttachBuild,
   ClaimRecorded, ClaimFresh, ClaimRefused, RecordSlice, RecordFails, MakeTap,
   InstallTable, StartServices, PublishAttachment, ReplayVerdicts, UnwindServices,
   DetachNothing, DetachPop, StopConsent, UndoLock, Unlisten, DeleteTable, RemoveTap,
   SwitchAbsent, SwitchEnter, SwitchBind, SwitchInstall, SwitchCommit, SwitchPin,
   LockInterceptor, ReadRows, Arm, At

\* A swap finds its workspace gone only when the guard is another's.
LEMMA SwapPresent ==
  ASSUME NetAssumption, IInv, NEW t \in Tasks, Attached(Ws(t)), "late" \notin faults
  PROVE  ~SwapAbsent(t)
<1>. SUFFICES ASSUME SwapAbsent(t) PROVE FALSE
  OBVIOUS
<1>0. /\ Staged(t) /\ At(t, "swap") /\ Ws(t) \in Workspaces /\ Nobody \notin Tasks
      /\ Sound(Ws(t)) /\ GuardMeans(Ws(t)) /\ guard[Ws(t)].by \in {Nobody, t}
      /\ services[Ws(t)] = "none"
  BY Inside DEF IInv, SwapAbsent, At, NetAssumption, Attached
<1>1. CASE Holding(t)
  <2>1. task[t].op = "attach"
    BY <1>1, <1>0, Inside DEF At
  <2>. QED  BY <2>1, <1>0 DEF Staged, At, RefreshPcs
<1>2. CASE ~Holding(t)
  <2>1. guard[Ws(t)].by = Nobody
    BY <1>2, <1>0 DEF GuardMeans
  <2>. QED  BY <2>1, <1>0 DEF Sound, Never
<1>. QED  BY <1>1, <1>2

\* A build's table stays bare.
LEMMA BareKept ==
  ASSUME NetAssumption, IInv, RedirectInv, NEW t \in Tasks, Step(t), Around(t)
  PROVE  \A u \in Tasks : BuiltBare(u)'
<1>. SUFFICES ASSUME NEW u \in Tasks, task'[u].pc \in {"serve", "publish"}
              PROVE  ~table'[Ws(u)'].redirect
  BY DEF BuiltBare
<1>0. /\ TypeOK /\ BuiltBare(u) /\ Moves(t) /\ Ws(t) \in Workspaces /\ DOMAIN table = Workspaces
      /\ Nobody \notin Tasks
  BY DEF IInv, RedirectInv, Around, TypeOK, NetAssumption
<1>1. CASE u # t
  <2>1. task'[u] = task[u] /\ Ws(u)' = Ws(u) /\ Ws(u) \in Workspaces /\ Holding(u)
    BY <1>1, Inside DEF Around, Ws
  <2>2. guard[Ws(u)] = [by |-> u, depth |-> Depth(u)]
    BY <2>1 DEF IInv, Guarded
  <2>3. Same(Ws(u))
    BY <2>1, <2>2, <1>0, <1>1 DEF Around
  <2>. QED  BY <2>1, <2>3, <1>0 DEF BuiltBare, Same
<1>2. CASE u = t
  <2>0. Ws(t)' = Ws(t)
    BY <1>2 DEF Around, OwnStep, Ws
  <2>1. CASE InstallTable(t)
    BY <2>1, <2>0, <1>2, <1>0 DEF InstallTable, Unwind, Moves
  <2>2. CASE StartServices(t)
    BY <2>2, <2>0, <1>2, <1>0 DEF StartServices, BuiltBare, kernel, At
  <2>3. task'[t].pc \in {"serve", "publish"} => InstallTable(t) \/ StartServices(t)
    <3>1. ASSUME AttachStep(t), task'[t].pc \in {"serve", "publish"}
          PROVE  InstallTable(t) \/ StartServices(t)
      BY <3>1, <1>0 DEF AttachStep, AttachExisting, AttachBuild, ClaimRecorded, ClaimFresh,
         ClaimRefused, RecordSlice, RecordFails, MakeTap, PublishAttachment,
         ReplayVerdicts, UnwindServices, BuildOn, Return, Unwind, Moves
    <3>2. DetachStep(t) => task'[t].pc \notin {"serve", "publish"}
      BY <1>0 DEF DetachStep, DetachNothing, DetachPop, StopConsent, UndoLock, Unlisten,
         DeleteTable, RemoveTap, Return, Unwind, Moves
    <3>3. SwitchStep(t) => task'[t].pc \notin {"serve", "publish"}
      BY <1>0 DEF SwitchStep, SwitchAbsent, SwitchEnter, SwitchBind, SwitchInstall,
         SwitchCommit, SwitchPin, Return, Moves
    <3>4. RefreshStep(t) => task'[t].pc \notin {"serve", "publish"}
      BY <1>0 DEF RefreshStep, LockInterceptor, ReadRows, Arm, ApplyModes, SwapEnter,
         SwapAbsent, SwapInstall, RollBack, Done, Raise, Return, Unwind, Moves
    <3>. QED  BY <3>1, <3>2, <3>3, <3>4 DEF Step
  <2>. QED  BY <2>1, <2>2, <2>3, <1>2
<1>. QED  BY <1>1, <1>2

\* Only the exchange of the bindings leads to the swap of the table.
LEMMA SwitchArrives ==
  ASSUME TypeOK, NEW t \in Tasks, Step(t), Moves(t), At(t, "exchange")'
  PROVE  SwitchBind(t)
<1>1. ~AttachStep(t)
  BY DEF AttachStep, AttachExisting, AttachBuild, ClaimRecorded, ClaimFresh, ClaimRefused,
     RecordSlice, RecordFails, MakeTap, InstallTable, StartServices, PublishAttachment,
     ReplayVerdicts, UnwindServices, BuildOn, Return, Unwind, Moves, At
<1>2. ~DetachStep(t)
  BY DEF DetachStep, DetachNothing, DetachPop, StopConsent, UndoLock, Unlisten, DeleteTable,
     RemoveTap, Return, Unwind, Moves, At
<1>3. ~RefreshStep(t)
  BY DEF RefreshStep, LockInterceptor, ReadRows, Arm, ApplyModes, SwapEnter, SwapAbsent,
     SwapInstall, RollBack, Done, Raise, Return, Unwind, Moves, At
<1>4. SwitchStep(t)
  BY <1>1, <1>2, <1>3 DEF Step
<1>. QED
  BY <1>4 DEF SwitchStep, SwitchAbsent, SwitchEnter, SwitchInstall, SwitchCommit, SwitchPin,
     Return, Moves, At

\* A switch of posture keeps what it read of the listeners, or a swap waits
\* behind it.
LEMMA SwitchKept ==
  ASSUME NetAssumption, IInv, RedirectInv, NEW t \in Tasks, Step(t), Around(t)
  PROVE  \A u \in Tasks : SwitchFollows(u)'
<1>. SUFFICES ASSUME Never({"master", "rearm", "late"})', NEW u \in Tasks, At(u, "exchange")',
                     ~(task'[u].goal = "on" <=> Ws(u)' \in armed')
              PROVE  Under(Ws(u), {"modes", "swap"})'
  BY DEF SwitchFollows
<1>0. /\ TypeOK /\ DeadNamed /\ SwitchFollows(u) /\ Moves(t) /\ Never({"master", "rearm", "late"})
      /\ faults' \cap {"master", "rearm", "late"} = {}
      /\ faults \cap {"master", "rearm", "late"} = {}
      /\ Ws(t) \in Workspaces /\ Nobody \notin Tasks
  BY DEF IInv, RedirectInv, Around, Never, NetAssumption
<1>1. CASE u # t
  <2>0. task'[u] = task[u] /\ Ws(u)' = Ws(u) /\ At(u, "exchange")
    BY <1>1 DEF Around, Ws, At
  <2>1. PICK w \in Workspaces : w = Ws(u)
    BY <2>0, Inside DEF At
  <2>2. Holding(u) /\ guard[w] = [by |-> u, depth |-> Depth(u)]
    BY <2>0, <2>1, Inside DEF IInv, Guarded, At
  <2>3. guard[w].by = u
    BY <2>2
  <2>4. CASE w # Ws(t)
    <3>1. w \in armed' <=> w \in armed
      BY <2>4, <1>0, ArmedLocal
    <3>2. Under(w, {"modes", "swap"}) => Under(w, {"modes", "swap"})'
      BY <2>4, UnderKept, Zenon
    <3>. QED  BY <3>1, <3>2, <2>0, <2>1, <1>0 DEF SwitchFollows, Under
  <2>5. CASE w = Ws(t)
    <3>0. ~Holding(t)
      BY <2>5, <2>1, <2>2, <1>1, OneHolder
    <3>1. ~UndoLock(t) /\ ~SwapInstall(t)
      BY <3>0, Inside DEF UndoLock, SwapInstall, At
    <3>2. ~SwapEnter(t) /\ ~SwapAbsent(t)
      BY <2>3, <2>5, <1>0, <1>1 DEF SwapEnter, Enter, SwapAbsent
    <3>3. ASSUME task'[t].pc \in {"modes", "swap"} PROVE Under(w, {"modes", "swap"})'
      <4>1. task'[t].ws = Ws(t)
        BY <3>3 DEF Around, OwnStep
      <4>. QED  BY <4>1, <3>3, <2>5 DEF Under, Ws
    <3>4. CASE task'[t].pc \in {"modes", "swap"}
      BY <3>3, <3>4, <2>0, <2>1 DEF Under
    <3>5. CASE task'[t].pc \notin {"modes", "swap"}
      <4>1. armed' = armed
        <5>1. CASE LockInterceptor(t)
          BY <5>1, <1>0 DEF LockInterceptor, DeadNamed, proxy
        <5>2. CASE ReadRows(t)
          BY <5>2, <3>5, <1>0 DEF ReadRows, Done, Raise, Unwind, RefreshFault, Fault,
              Moves
        <5>3. CASE Arm(t)
          BY <5>3, <3>5, <1>0 DEF Arm, Moves, proxy
        <5>4. CASE ApplyModes(t)
          BY <5>4, <3>5, <1>0 DEF ApplyModes, RefreshFault, Fault
        <5>. QED  BY <5>1, <5>2, <5>3, <5>4, <3>1, <3>2, <1>0, Footprint DEF Listens, Rests
      <4>2. task[t].pc \notin {"modes", "swap"}
        <5>1. CASE ApplyModes(t)
          BY <5>1, <3>5, <1>0 DEF ApplyModes, RefreshFault, Fault, Moves
        <5>. QED  BY <5>1, <3>1, <3>2, <1>0, SwapLeft
      <4>3. Under(w, {"modes", "swap"}) => Under(w, {"modes", "swap"})'
        BY <4>2, UnderKept, Zenon
      <4>. QED  BY <4>1, <4>3, <2>0, <2>1, <1>0 DEF SwitchFollows, Under
    <3>. QED  BY <3>4, <3>5
  <2>. QED  BY <2>4, <2>5
<1>2. CASE u = t
  <2>1. SwitchBind(t)
    BY <1>2, <1>0, SwitchArrives
  <2>2. Ws(t)' = Ws(t) /\ armed' = armed
    BY <2>1, <1>2 DEF SwitchBind, proxy, Around, OwnStep, Ws, At
  <2>3. task'[t].goal = "on" <=> Ws(t) \in armed
    BY <2>1, <1>2, <1>0 DEF SwitchBind, Return, Moves, At
  <2>. QED  BY <2>2, <2>3, <1>2
<1>. QED  BY <1>1, <1>2

\* The table follows the books, or a swap is on its way.
LEMMA TableKept ==
  ASSUME NetAssumption, IInv, RedirectInv, NEW t \in Tasks, Step(t), Around(t)
  PROVE  \A w \in Workspaces : TableFollows(w)'
<1>. DEFINE swapping == {"modes", "swap", "install"}
<1>. SUFFICES ASSUME Never({"master", "rearm", "late", "teardown"})', NEW w \in Workspaces,
                     Attached(w)', ~(table'[w].redirect <=> w \in armed')
              PROVE  Under(w, swapping)'
  BY DEF TableFollows
<1>0. /\ TypeOK /\ DeadNamed /\ TableFollows(w) /\ Aimed(t) /\ Moves(t) /\ Staged(t)
      /\ Never({"master", "rearm", "late", "teardown"})
      /\ faults' \cap {"master", "rearm", "late", "teardown"} = {}
      /\ faults \cap {"master", "rearm", "late", "teardown"} = {}
      /\ DOMAIN attached = Workspaces /\ DOMAIN table = Workspaces /\ Ws(t) \in Workspaces
      /\ SwitchFollows(t) /\ BuiltBare(t) /\ ArmedBacked(w)
  BY DEF IInv, RedirectInv, Around, Never, TypeOK
<1>1. CASE w # Ws(t)
  <2>1. (w \in armed' <=> w \in armed) /\ attached'[w] = attached[w] /\ table'[w] = table[w]
    BY <1>1, <1>0, ArmedLocal DEF Around, Same
  <2>2. Under(w, swapping) => Under(w, swapping)'
    BY <1>1, UnderKept, Zenon
  <2>. QED  BY <2>1, <2>2, <1>0 DEF TableFollows, Attached
<1>2. CASE w = Ws(t)
  <2>1. ASSUME task'[t].pc \in swapping PROVE Under(w, swapping)'
    <3>1. task'[t].ws = Ws(t)
      BY <2>1 DEF Around, OwnStep
    <3>. QED  BY <3>1, <2>1, <1>2 DEF Under, Ws
  <2>2. CASE ~Attached(w)
    <3>1. PublishAttachment(t)
      BY <2>2, <1>0, <1>2, AttachedRests DEF Attached, DetachPop
    <3>2. ~table[w].redirect /\ table' = table /\ armed' = armed
      BY <3>1, <1>0, <1>2 DEF PublishAttachment, BuiltBare, At, kernel, proxy
    <3>3. w \notin armed
      <4>1. ASSUME NEW u \in Tasks, Ws(u) = w, task[u].pc \in {"quiet", "undo"} PROVE FALSE
        <5>1. Holding(u) /\ Holding(t) /\ u # t
          BY <4>1, <3>1, Inside DEF PublishAttachment, At
        <5>. QED  BY <5>1, <4>1, <1>2, OneHolder
      <4>. QED  BY <4>1, <2>2, <1>0 DEF ArmedBacked, Under, Never
    <3>. QED  BY <3>2, <3>3
  <2>3. CASE Attached(w)
    <3>1. CASE SwitchInstall(t)
      <4>1. armed' = armed
        BY <3>1 DEF SwitchInstall, proxy
      <4>2. task[t].pc \notin swapping
        BY <3>1 DEF SwitchInstall, At
      <4>3. Under(w, swapping) => Under(w, swapping)'
        BY <4>2, UnderKept, Zenon
      <4>4. Under(w, {"modes", "swap"}) => Under(w, swapping)
        BY DEF Under
      <4>5. table' = table \/ table'[w].redirect = (task[t].goal = "on")
        BY <3>1, <1>0, <1>2 DEF SwitchInstall
      <4>6. (task[t].goal = "on" <=> w \in armed) \/ Under(w, {"modes", "swap"})
        BY <3>1, <1>0, <1>2 DEF SwitchInstall, SwitchFollows, Never
      <4>. QED  BY <4>1, <4>3, <4>4, <4>5, <4>6, <2>3, <1>0 DEF TableFollows
    <3>2. CASE SwapInstall(t)
      <4>1. armed' = armed /\ table'[w].redirect = (task[t].goal = "on")
        BY <3>2, <1>0, <1>2 DEF SwapInstall, RefreshFault, Fault
      <4>2. task[t].goal = "on" <=> w \in armed
        BY <3>2, <1>0, <1>2 DEF SwapInstall, Aimed, At
      <4>. QED  BY <4>1, <4>2
    <3>3. CASE task'[t].pc \in swapping
      BY <3>3, <2>1
    <3>4. CASE ~SwitchInstall(t) /\ ~SwapInstall(t) /\ task'[t].pc \notin swapping
      <4>0. ~SwapAbsent(t)
        BY <2>3, <1>2, <1>0, SwapPresent
      <4>1. table' = table
        <5>1. ~InstallTable(t)
          BY <2>3, <1>2, <1>0, Inside DEF Staged, InstallTable, At, ClaimPcs
        <5>2. ~DeleteTable(t)
          BY <2>3, <1>2, <1>0 DEF Staged, DeleteTable, At, UndoPcs
        <5>. QED  BY <5>1, <5>2, <3>4, <1>0, TableRests
      <4>2. armed' = armed
        <5>1. CASE LockInterceptor(t)
          BY <5>1, <1>0 DEF LockInterceptor, DeadNamed, proxy
        <5>2. CASE ReadRows(t)
          BY <5>2, <3>4, <1>0 DEF ReadRows, Done, Raise, Unwind, RefreshFault, Fault,
              Moves
        <5>3. CASE Arm(t)
          BY <5>3, <3>4, <1>0 DEF Arm, Moves, proxy
        <5>4. CASE ApplyModes(t)
          BY <5>4, <1>0 DEF ApplyModes, RefreshFault, Fault
        <5>5. CASE SwapEnter(t)
          BY <5>5 DEF SwapEnter, proxy
        <5>6. ~UndoLock(t)
          BY <2>3, <1>2, <1>0 DEF UndoLock, Staged, UndoPcs, At
        <5>. QED  BY <5>1, <5>2, <5>3, <5>4, <5>5, <5>6, <4>0, <3>4, <1>0, Footprint
               DEF Listens, Rests
      <4>3. task[t].pc \notin swapping
        <5>1. ~ApplyModes(t)
          BY <3>4, <1>0 DEF ApplyModes, RefreshFault, Fault, Moves
        <5>2. ~SwapEnter(t)
          BY <3>4, <1>0 DEF SwapEnter, Moves
        <5>. QED  BY <5>1, <5>2, <4>0, <3>4, <1>0, SwapLeft
      <4>4. Under(w, swapping) => Under(w, swapping)'
        BY <4>3, UnderKept, Zenon
      <4>. QED  BY <4>1, <4>2, <4>4, <2>3, <1>0 DEF TableFollows
    <3>. QED  BY <3>1, <3>2, <3>3, <3>4
  <2>. QED  BY <2>2, <2>3
<1>. QED  BY <1>1, <1>2

\* What a step does to the slices: it takes one up in its own hand, gives up its
\* own or hands it to the attachment, or takes the attachment's.
SliceHands(t) ==
  \/ faults' \cap {"record", "teardown", "late"} # {}
  \/ /\ \A s \in used' : s \in used \/ (Owns(t)' /\ task'[t].slice = s)
     /\ Owns(t) =>
          \/ Owns(t)' /\ task'[t].slice = task[t].slice
          \/ task[t].slice \notin used'
          \/ attached'[Ws(t)] = task[t].slice
     /\ Attached(Ws(t)) =>
          \/ attached'[Ws(t)] = attached[Ws(t)]
          \/ Owns(t)' /\ task'[t].slice = attached[Ws(t)]

\* What a step leaves of the queue of its workspace: owned by a service, by the
\* call itself, or by another as before.
QueueHands(t) ==
  LET w == Ws(t) IN
  w \in bound' /\ faults' \cap {"teardown", "late", "upstream"} = {} =>
    \/ services'[w] # "none" \/ Binds(t)'
    \/ w \in bound /\ services[w] = "none" /\ ~Binds(t)

\* The tap
TapHands(t) ==
  LET w == Ws(t) IN
  w \in taps' /\ faults' \cap {"teardown", "late"} = {} =>
    \/ attached'[w] # NoSlice \/ task'[t].pc \in TapPcs
    \/ w \in taps /\ ~Attached(w) /\ task[t].pc \notin TapPcs

\* and the table, likewise.
TableHands(t) ==
  LET w == Ws(t) IN
  table'[w] # NoTable /\ faults' \cap {"teardown", "late"} = {} =>
    \/ attached'[w] # NoSlice \/ task'[t].pc \in TablePcs
    \/ table[w] # NoTable /\ ~Attached(w) /\ task[t].pc \notin TablePcs

\* All four.
Hands(t) == SliceHands(t) /\ QueueHands(t) /\ TapHands(t) /\ TableHands(t)

\* The kinds of call at each step.
KindsOfCall(t) ==
  LET q == task[t] IN
  /\ q.op = "refresh" => q.pc \in RefreshPcs
  /\ q.op = "attach" => q.pc \in
       {"attach", "replay", "unwind"} \cup ClaimPcs \cup UndoPcs \cup RefreshPcs
  /\ q.op = "detach" => q.pc \in {"detach", "quiet"} \cup UndoPcs
  /\ q.pc \in RefreshPcs => q.op \in {"attach", "refresh"}
  /\ q.pc \in {"unwind", "replay"} \cup ClaimPcs => q.op = "attach"
  /\ q.pc \in {"detach", "quiet"} => q.op = "detach"
  /\ q.pc \in SwitchPcs => q.op = "switch"
  /\ q.op \in {"attach", "switch"} => q.mode # "none"
  /\ q.pc \in {"record", "tap", "table", "serve", "publish"} => q.slice # NoSlice

\* Every step treats slices, queue, tap and table in these ways.
LEMMA HandsOfStep ==
  ASSUME NetAssumption, TypeOK, NEW t \in Tasks, Fits(t), Ws(t) \in Workspaces, Staged(t),
         Sound(Ws(t)), Step(t)
  PROVE  Hands(t)
<1>0. Moves(t) /\ Domains /\ KindsOfCall(t)
  <2>1. Moves(t) /\ Domains /\ task[t] \in TaskType /\ NoSlice \notin Slices
    BY HaveMoves, HaveDomains DEF TypeOK, NetAssumption
  <2>. QED
    BY <2>1 DEF Fits, KindsOfCall, TaskType, ClaimPcs, UndoPcs, SwitchPcs, RefreshPcs,
         AllModes
<1>a. guard[Ws(t)].by = Nobody /\ attached[Ws(t)] = NoSlice => services[Ws(t)] = "none"
  BY DEF Sound, Attached
<1>1. CASE AttachExisting(t)
  BY <1>1, <1>0, <1>a DEF AttachExisting, KindsOfCall, Hands, SliceHands, QueueHands,
      TapHands, TableHands, Owns, Binds, TapPcs, TablePcs, Staged, Attached, Domains,
      ClaimPcs, UndoPcs, SwitchPcs, RefreshPcs, Moves, At, Ws, locks, books, proxy,
      rows, kernel, life
<1>2. CASE AttachBuild(t)
  BY <1>2, <1>0, <1>a DEF AttachBuild, Enter, KindsOfCall, Hands, SliceHands,
      QueueHands, TapHands, TableHands, Owns, Binds, TapPcs, TablePcs, Staged, Attached,
      Domains, ClaimPcs, UndoPcs, SwitchPcs, RefreshPcs, Moves, At, Ws, locks, books,
      proxy, rows, kernel, life
<1>3. CASE ClaimRecorded(t)
  BY <1>3, <1>0, <1>a DEF ClaimRecorded, BuildOn, Fault, KindsOfCall, Hands, SliceHands,
      QueueHands, TapHands, TableHands, Owns, Binds, TapPcs, TablePcs, Staged, Attached,
      Domains, ClaimPcs, UndoPcs, SwitchPcs, RefreshPcs, Moves, At, Ws, locks, books,
      proxy, rows, kernel, life
<1>4. CASE ClaimFresh(t)
  BY <1>4, <1>0, <1>a DEF ClaimFresh, KindsOfCall, Hands, SliceHands, QueueHands,
      TapHands, TableHands, Owns, Binds, TapPcs, TablePcs, Staged, Attached, Domains,
      ClaimPcs, UndoPcs, SwitchPcs, RefreshPcs, Moves, At, Ws, locks, books, proxy,
      rows, kernel, life
<1>5. CASE ClaimRefused(t)
  BY <1>5, <1>0, <1>a DEF ClaimRefused, Return, KindsOfCall, Hands, SliceHands,
      QueueHands, TapHands, TableHands, Owns, Binds, TapPcs, TablePcs, Staged, Attached,
      Domains, ClaimPcs, UndoPcs, SwitchPcs, RefreshPcs, Moves, At, Ws, locks, books,
      proxy, rows, kernel, life
<1>6. CASE RecordSlice(t)
  BY <1>6, <1>0, <1>a DEF RecordSlice, BuildOn, Fault, KindsOfCall, Hands, SliceHands,
      QueueHands, TapHands, TableHands, Owns, Binds, TapPcs, TablePcs, Staged, Attached,
      Domains, ClaimPcs, UndoPcs, SwitchPcs, RefreshPcs, Moves, At, Ws, locks, books,
      proxy, rows, kernel, life
<1>7. CASE RecordFails(t)
  BY <1>7, <1>0, <1>a DEF RecordFails, Return, Fault, KindsOfCall, Hands, SliceHands,
      QueueHands, TapHands, TableHands, Owns, Binds, TapPcs, TablePcs, Staged, Attached,
      Domains, ClaimPcs, UndoPcs, SwitchPcs, RefreshPcs, Moves, At, Ws, locks, books,
      proxy, rows, kernel, life
<1>8. CASE MakeTap(t)
  BY <1>8, <1>0, <1>a DEF MakeTap, Unwind, Fault, KindsOfCall, Hands, SliceHands,
      QueueHands, TapHands, TableHands, Owns, Binds, TapPcs, TablePcs, Staged, Attached,
      Domains, ClaimPcs, UndoPcs, SwitchPcs, RefreshPcs, Moves, At, Ws, locks, books,
      proxy, rows, kernel, life
<1>9. CASE InstallTable(t)
  BY <1>9, <1>0, <1>a DEF InstallTable, Unwind, Fault, KindsOfCall, Hands, SliceHands,
      QueueHands, TapHands, TableHands, Owns, Binds, TapPcs, TablePcs, Staged, Attached,
      Domains, ClaimPcs, UndoPcs, SwitchPcs, RefreshPcs, Moves, At, Ws, locks, books,
      proxy, rows, kernel, life
<1>10. CASE StartServices(t)
  BY <1>10, <1>0, <1>a DEF StartServices, Unwind, Fault, KindsOfCall, Hands, SliceHands,
      QueueHands, TapHands, TableHands, Owns, Binds, TapPcs, TablePcs, Staged, Attached,
      Domains, ClaimPcs, UndoPcs, SwitchPcs, RefreshPcs, Moves, At, Ws, locks, books,
      proxy, rows, kernel, life
<1>11. CASE PublishAttachment(t)
  BY <1>11, <1>0, <1>a DEF PublishAttachment, KindsOfCall, Hands, SliceHands,
      QueueHands, TapHands, TableHands, Owns, Binds, TapPcs, TablePcs, Staged, Attached,
      Domains, ClaimPcs, UndoPcs, SwitchPcs, RefreshPcs, Moves, At, Ws, locks, books,
      proxy, rows, kernel, life
<1>12. CASE ReplayVerdicts(t)
  BY <1>12, <1>0, <1>a DEF ReplayVerdicts, Unwind, Fault, KindsOfCall, Hands,
      SliceHands, QueueHands, TapHands, TableHands, Owns, Binds, TapPcs, TablePcs,
      Staged, Attached, Domains, ClaimPcs, UndoPcs, SwitchPcs, RefreshPcs, Moves, At,
      Ws, locks, books, proxy, rows, kernel, life
<1>13. CASE UnwindServices(t)
  BY <1>13, <1>0, <1>a DEF UnwindServices, KindsOfCall, Hands, SliceHands, QueueHands,
      TapHands, TableHands, Owns, Binds, TapPcs, TablePcs, Staged, Attached, Domains,
      ClaimPcs, UndoPcs, SwitchPcs, RefreshPcs, Moves, At, Ws, locks, books, proxy,
      rows, kernel, life
<1>14. CASE DetachNothing(t)
  BY <1>14, <1>0, <1>a DEF DetachNothing, KindsOfCall, Hands, SliceHands, QueueHands,
      TapHands, TableHands, Owns, Binds, TapPcs, TablePcs, Staged, Attached, Domains,
      ClaimPcs, UndoPcs, SwitchPcs, RefreshPcs, Moves, At, Ws, locks, books, proxy,
      rows, kernel, life
<1>15. CASE DetachPop(t)
  BY <1>15, <1>0, <1>a DEF DetachPop, Enter, KindsOfCall, Hands, SliceHands, QueueHands,
      TapHands, TableHands, Owns, Binds, TapPcs, TablePcs, Staged, Attached, Domains,
      ClaimPcs, UndoPcs, SwitchPcs, RefreshPcs, Moves, At, Ws, locks, books, proxy,
      rows, kernel, life
<1>16. CASE StopConsent(t)
  BY <1>16, <1>0, <1>a DEF StopConsent, Return, Fault, KindsOfCall, Hands, SliceHands,
      QueueHands, TapHands, TableHands, Owns, Binds, TapPcs, TablePcs, Staged, Attached,
      Domains, ClaimPcs, UndoPcs, SwitchPcs, RefreshPcs, Moves, At, Ws, locks, books,
      proxy, rows, kernel, life
<1>17. CASE UndoLock(t)
  BY <1>17, <1>0, <1>a DEF UndoLock, KindsOfCall, Hands, SliceHands, QueueHands,
      TapHands, TableHands, Owns, Binds, TapPcs, TablePcs, Staged, Attached, Domains,
      ClaimPcs, UndoPcs, SwitchPcs, RefreshPcs, Moves, At, Ws, locks, books, proxy,
      rows, kernel, life
<1>18. CASE Unlisten(t)
  BY <1>18, <1>0, <1>a DEF Unlisten, Return, Fault, KindsOfCall, Hands, SliceHands,
      QueueHands, TapHands, TableHands, Owns, Binds, TapPcs, TablePcs, Staged, Attached,
      Domains, ClaimPcs, UndoPcs, SwitchPcs, RefreshPcs, Moves, At, Ws, locks, books,
      proxy, rows, kernel, life
<1>19. CASE DeleteTable(t)
  BY <1>19, <1>0, <1>a DEF DeleteTable, Return, Fault, KindsOfCall, Hands, SliceHands,
      QueueHands, TapHands, TableHands, Owns, Binds, TapPcs, TablePcs, Staged, Attached,
      Domains, ClaimPcs, UndoPcs, SwitchPcs, RefreshPcs, Moves, At, Ws, locks, books,
      proxy, rows, kernel, life
<1>20. CASE RemoveTap(t)
  BY <1>20, <1>0, <1>a DEF RemoveTap, Return, Fault, KindsOfCall, Hands, SliceHands,
      QueueHands, TapHands, TableHands, Owns, Binds, TapPcs, TablePcs, Staged, Attached,
      Domains, ClaimPcs, UndoPcs, SwitchPcs, RefreshPcs, Moves, At, Ws, locks, books,
      proxy, rows, kernel, life
<1>21. CASE SwitchAbsent(t)
  BY <1>21, <1>0, <1>a DEF SwitchAbsent, KindsOfCall, Hands, SliceHands, QueueHands,
      TapHands, TableHands, Owns, Binds, TapPcs, TablePcs, Staged, Attached, Domains,
      ClaimPcs, UndoPcs, SwitchPcs, RefreshPcs, Moves, At, Ws, locks, books, proxy,
      rows, kernel, life
<1>22. CASE SwitchEnter(t)
  BY <1>22, <1>0, <1>a DEF SwitchEnter, Enter, KindsOfCall, Hands, SliceHands,
      QueueHands, TapHands, TableHands, Owns, Binds, TapPcs, TablePcs, Staged, Attached,
      Domains, ClaimPcs, UndoPcs, SwitchPcs, RefreshPcs, Moves, At, Ws, locks, books,
      proxy, rows, kernel, life
<1>23. CASE SwitchBind(t)
  BY <1>23, <1>0, <1>a DEF SwitchBind, Fresh, Return, Fault, KindsOfCall, Hands,
      SliceHands, QueueHands, TapHands, TableHands, Owns, Binds, TapPcs, TablePcs,
      Staged, Attached, Domains, ClaimPcs, UndoPcs, SwitchPcs, RefreshPcs, Moves, At,
      Ws, locks, books, proxy, rows, kernel, life
<1>24. CASE SwitchInstall(t)
  BY <1>24, <1>0, <1>a DEF SwitchInstall, Fresh, Return, Fault, KindsOfCall, Hands,
      SliceHands, QueueHands, TapHands, TableHands, Owns, Binds, TapPcs, TablePcs,
      Staged, Attached, Domains, ClaimPcs, UndoPcs, SwitchPcs, RefreshPcs, Moves, At,
      Ws, locks, books, proxy, rows, kernel, life
<1>25. CASE SwitchCommit(t)
  BY <1>25, <1>0, <1>a DEF SwitchCommit, Return, KindsOfCall, Hands, SliceHands,
      QueueHands, TapHands, TableHands, Owns, Binds, TapPcs, TablePcs, Staged, Attached,
      Domains, ClaimPcs, UndoPcs, SwitchPcs, RefreshPcs, Moves, At, Ws, locks, books,
      proxy, rows, kernel, life
<1>26. CASE SwitchPin(t)
  BY <1>26, <1>0, <1>a DEF SwitchPin, Return, Fault, KindsOfCall, Hands, SliceHands,
      QueueHands, TapHands, TableHands, Owns, Binds, TapPcs, TablePcs, Staged, Attached,
      Domains, ClaimPcs, UndoPcs, SwitchPcs, RefreshPcs, Moves, At, Ws, locks, books,
      proxy, rows, kernel, life
<1>27. CASE LockInterceptor(t)
  BY <1>27, <1>0, <1>a DEF LockInterceptor, KindsOfCall, Hands, SliceHands, QueueHands,
      TapHands, TableHands, Owns, Binds, TapPcs, TablePcs, Staged, Attached, Domains,
      ClaimPcs, UndoPcs, SwitchPcs, RefreshPcs, Moves, At, Ws, locks, books, proxy,
      rows, kernel, life
<1>28. CASE ReadRows(t)
  BY <1>28, <1>0, <1>a DEF ReadRows, Done, Raise, Unwind, RefreshFault, Fault,
      KindsOfCall, Hands, SliceHands, QueueHands, TapHands, TableHands, Owns, Binds,
      TapPcs, TablePcs, Staged, Attached, Domains,
      ClaimPcs, UndoPcs, SwitchPcs, RefreshPcs, Moves, At, Ws, locks, books, proxy,
      rows, kernel, life
<1>29. CASE Arm(t)
  BY <1>29, <1>0, <1>a DEF Arm, Raise, Unwind, RefreshFault, Fault, KindsOfCall, Hands,
      SliceHands, QueueHands, TapHands, TableHands, Owns, Binds, TapPcs, TablePcs,
      Staged, Attached, Domains, ClaimPcs, UndoPcs, SwitchPcs, RefreshPcs, Moves, At,
      Ws, locks, books, proxy, rows, kernel, life
<1>30. CASE ApplyModes(t)
  BY <1>30, <1>0, <1>a DEF ApplyModes, RefreshFault, Fault, RollBack, Raise, Unwind,
      KindsOfCall, Hands, SliceHands, QueueHands, TapHands, TableHands, Owns, Binds,
      TapPcs, TablePcs, Staged, Attached, Domains, ClaimPcs, UndoPcs, SwitchPcs,
      RefreshPcs, Moves, At, Ws, locks, books, proxy, rows, kernel, life
<1>31. CASE SwapEnter(t)
  BY <1>31, <1>0, <1>a DEF SwapEnter, Enter, KindsOfCall, Hands, SliceHands, QueueHands,
      TapHands, TableHands, Owns, Binds, TapPcs, TablePcs, Staged, Attached, Domains,
      ClaimPcs, UndoPcs, SwitchPcs, RefreshPcs, Moves, At, Ws, locks, books, proxy,
      rows, kernel, life
<1>32. CASE SwapAbsent(t)
  BY <1>32, <1>0, <1>a DEF SwapAbsent, Raise, Unwind, Done, KindsOfCall, Hands,
      SliceHands, QueueHands, TapHands, TableHands, Owns, Binds, TapPcs, TablePcs,
      Staged, Attached, Domains, ClaimPcs, UndoPcs, SwitchPcs, RefreshPcs, Moves, At,
      Ws, locks, books, proxy, rows, kernel, life
<1>33. CASE SwapInstall(t)
  BY <1>33, <1>0, <1>a DEF SwapInstall, Raise, Unwind, Done, Exit, RefreshFault, Fault,
      RollBack, KindsOfCall, Hands, SliceHands, QueueHands, TapHands, TableHands, Owns,
      Binds, TapPcs, TablePcs, Staged, Attached, Domains, ClaimPcs, UndoPcs, SwitchPcs,
      RefreshPcs, Moves, At, Ws, locks, books, proxy, rows, kernel, life
<1>. QED
  BY <1>1, <1>2, <1>3, <1>4, <1>5, <1>6, <1>7, <1>8, <1>9, <1>10, <1>11, <1>12, <1>13,
      <1>14, <1>15, <1>16, <1>17, <1>18, <1>19, <1>20, <1>21, <1>22, <1>23, <1>24,
      <1>25, <1>26, <1>27, <1>28, <1>29, <1>30, <1>31, <1>32, <1>33 DEF Step,
      AttachStep, DetachStep, SwitchStep, RefreshStep

\* Every slice stays owned,
LEMMA SlicesOwnedKept ==
  ASSUME NetAssumption, IInv, SlicesOwned, NEW t \in Tasks, Around(t), SliceHands(t)
  PROVE  SlicesOwned'
<1>. SUFFICES ASSUME Never({"record", "teardown", "late"})', NEW s \in used'
              PROVE  \/ \E w \in Workspaces : attached'[w] = s
                     \/ \E u \in Tasks : Owns(u)' /\ task'[u].slice = s
  BY DEF SlicesOwned
<1>0. /\ Never({"record", "teardown", "late"}) /\ Ws(t) \in Workspaces
      /\ \A u \in Tasks \ {t} : (Owns(u)' <=> Owns(u)) /\ task'[u].slice = task[u].slice
      /\ \A w \in Workspaces \ {Ws(t)} : attached'[w] = attached[w]
      /\ \A r \in used' : r \in used \/ (Owns(t)' /\ task'[t].slice = r)
      /\ Owns(t) =>
           \/ Owns(t)' /\ task'[t].slice = task[t].slice
           \/ task[t].slice \notin used'
           \/ attached'[Ws(t)] = task[t].slice
      /\ Attached(Ws(t)) =>
           \/ attached'[Ws(t)] = attached[Ws(t)]
           \/ Owns(t)' /\ task'[t].slice = attached[Ws(t)]
  BY DEF Never, Around, Owns, Same, SliceHands
<1>1. CASE s \notin used
  BY <1>1, <1>0
<1>2. ASSUME s \in used, NEW w \in Workspaces, attached[w] = s
      PROVE  \/ \E v \in Workspaces : attached'[v] = s
             \/ \E u \in Tasks : Owns(u)' /\ task'[u].slice = s
  <2>1. Attached(w)
    BY <1>2 DEF IInv, TypeOK, NetAssumption, Attached
  <2>. QED  BY <2>1, <1>2, <1>0
<1>3. ASSUME s \in used, NEW u \in Tasks, Owns(u), task[u].slice = s
      PROVE  \/ \E v \in Workspaces : attached'[v] = s
             \/ \E v \in Tasks : Owns(v)' /\ task'[v].slice = s
  BY <1>3, <1>0
<1>4. s \in used =>
        \/ \E w \in Workspaces : attached[w] = s
        \/ \E u \in Tasks : Owns(u) /\ task[u].slice = s
  BY <1>0 DEF SlicesOwned
<1>. QED  BY <1>1, <1>2, <1>3, <1>4

\* and with it every queue,
LEMMA QueueOwnedKept ==
  ASSUME NEW t \in Tasks, Around(t), QueueHands(t), \A w \in Workspaces : QueueOwned(w)
  PROVE  \A w \in Workspaces : QueueOwned(w)'
<1>. SUFFICES ASSUME NEW w \in Workspaces, w \in bound',
                     Never({"teardown", "late", "upstream"})', services'[w] = "none"
              PROVE  \E u \in Tasks : Ws(u)' = w /\ Binds(u)'
  BY DEF QueueOwned
<1>0. /\ Never({"teardown", "late", "upstream"}) /\ Ws(t) \in Workspaces
      /\ faults' \cap {"teardown", "late", "upstream"} = {}
      /\ \A u \in Tasks \ {t} : (Binds(u)' <=> Binds(u)) /\ Ws(u)' = Ws(u)
  BY DEF Never, Around, Binds, Ws
<1>1. CASE w # Ws(t)
  <2>1. w \in bound /\ services[w] = "none"
    BY <1>1 DEF Around, Same
  <2>2. PICK u \in Tasks : Ws(u) = w /\ Binds(u)
    BY <2>1, <1>0 DEF QueueOwned
  <2>. QED  BY <2>2, <1>0, <1>1
<1>2. CASE w = Ws(t)
  <2>1. CASE Binds(t)'
    <3>1. task'[t].ws = Ws(t)
      BY <2>1 DEF Binds, Around, OwnStep
    <3>. QED  BY <3>1, <2>1, <1>2 DEF Ws
  <2>2. CASE w \in bound /\ services[w] = "none" /\ ~Binds(t)
    <3>1. PICK u \in Tasks : Ws(u) = w /\ Binds(u)
      BY <2>2, <1>0 DEF QueueOwned
    <3>. QED  BY <3>1, <2>2, <1>0
  <2>. QED  BY <2>1, <2>2, <1>0, <1>2 DEF QueueHands
<1>. QED  BY <1>1, <1>2

\* every tap
LEMMA TapOwnedKept ==
  ASSUME NEW t \in Tasks, Around(t), TapHands(t), \A w \in Workspaces : TapOwned(w)
  PROVE  \A w \in Workspaces : TapOwned(w)'
<1>. SUFFICES ASSUME NEW w \in Workspaces, w \in taps', restarts' = 0,
                     Never({"teardown", "late"})', ~Attached(w)'
              PROVE  Under(w, TapPcs)'
  BY DEF TapOwned
<1>0. /\ Never({"teardown", "late"}) /\ Ws(t) \in Workspaces /\ restarts = 0
      /\ faults' \cap {"teardown", "late"} = {} /\ attached'[w] = NoSlice
  BY DEF Never, Around, OwnStep, Attached
<1>1. CASE w # Ws(t)
  <2>1. w \in taps /\ ~Attached(w)
    BY <1>0, <1>1 DEF Around, Same, Attached
  <2>2. Under(w, TapPcs)
    BY <2>1, <1>0 DEF TapOwned
  <2>. QED  BY <2>2, <1>1, UnderKept DEF TapPcs, UndoPcs
<1>2. CASE w = Ws(t)
  <2>1. CASE task'[t].pc \in TapPcs
    <3>1. task'[t].ws = Ws(t)
      BY <2>1 DEF TapPcs, UndoPcs, Around, OwnStep
    <3>. QED  BY <3>1, <2>1, <1>2 DEF Under, Ws, TapPcs, UndoPcs
  <2>2. CASE w \in taps /\ ~Attached(w) /\ task[t].pc \notin TapPcs
    <3>1. Under(w, TapPcs)
      BY <2>2, <1>0 DEF TapOwned
    <3>. QED  BY <3>1, <2>2, UnderKept DEF TapPcs, UndoPcs
  <2>. QED  BY <2>1, <2>2, <1>0, <1>2 DEF TapHands
<1>. QED  BY <1>1, <1>2

\* and every table.
LEMMA TableOwnedKept ==
  ASSUME NEW t \in Tasks, Around(t), TableHands(t), \A w \in Workspaces : TableOwned(w)
  PROVE  \A w \in Workspaces : TableOwned(w)'
<1>. SUFFICES ASSUME NEW w \in Workspaces, table'[w] # NoTable, restarts' = 0,
                     Never({"teardown", "late"})', ~Attached(w)'
              PROVE  Under(w, TablePcs)'
  BY DEF TableOwned, NoTable
<1>0. /\ Never({"teardown", "late"}) /\ Ws(t) \in Workspaces /\ restarts = 0
      /\ faults' \cap {"teardown", "late"} = {} /\ attached'[w] = NoSlice
  BY DEF Never, Around, OwnStep, Attached
<1>1. CASE w # Ws(t)
  <2>1. table[w] # NoTable /\ ~Attached(w)
    BY <1>0, <1>1 DEF Around, Same, Attached
  <2>2. Under(w, TablePcs)
    BY <2>1, <1>0 DEF TableOwned
  <2>. QED  BY <2>2, <1>1, UnderKept DEF TablePcs, TapPcs, UndoPcs
<1>2. CASE w = Ws(t)
  <2>1. CASE task'[t].pc \in TablePcs
    <3>1. task'[t].ws = Ws(t)
      BY <2>1 DEF TablePcs, TapPcs, UndoPcs, Around, OwnStep
    <3>. QED  BY <3>1, <2>1, <1>2 DEF Under, Ws, TablePcs, TapPcs, UndoPcs
  <2>2. CASE table[w] # NoTable /\ ~Attached(w) /\ task[t].pc \notin TablePcs
    <3>1. Under(w, TablePcs)
      BY <2>2, <1>0 DEF TableOwned
    <3>. QED  BY <3>1, <2>2, UnderKept DEF TablePcs, TapPcs, UndoPcs
  <2>. QED  BY <2>1, <2>2, <1>0, <1>2 DEF TableHands
<1>. QED  BY <1>1, <1>2

-------------------------------------------------------------------------------
\* The inductive invariant, beside that of NetAttachProofs.
EndInv == RedirectInv /\ ResidueInv

\* A call's step keeps it,
LEMMA StepEnds ==
  ASSUME NetAssumption, IInv, EndInv, NEW t \in Tasks, Step(t)
  PROVE  EndInv'
<1>0. Around(t) /\ TypeOK /\ RedirectInv
  BY HaveAround DEF IInv, EndInv
<1>1. LockMeans' /\ DeadNamed'
  BY <1>0, LockKept, DeadKept DEF RedirectInv, Around
<1>2. /\ \A u \in Tasks : Aimed(u)' /\ Leased(u)' /\ SwitchFollows(u)' /\ BuiltBare(u)'
      /\ \A w \in Workspaces : ArmedBacked(w)' /\ BooksFollow(w)' /\ TableFollows(w)'
  BY <1>0, AimedKept, LeasedKept, SwitchKept, BareKept, BackedKept, BooksKept, TableKept
<1>3. Hands(t)
  BY <1>0, HandsOfStep DEF IInv, Around
<1>4. ResidueInv'
  BY <1>0, <1>3, SlicesOwnedKept, QueueOwnedKept, TapOwnedKept, TableOwnedKept
  DEF EndInv, ResidueInv, Hands
<1>. QED  BY <1>1, <1>2, <1>4 DEF EndInv, RedirectInv

\* one that comes in,
LEMMA CallEnds ==
  ASSUME NetAssumption, IInv, EndInv, NEW t \in Tasks, Call(t)
  PROVE  EndInv'
<1>1. PICK w \in Workspaces, op \in {"attach", "switch", "detach", "refresh"},
           m \in AllModes \cup {"none"} :
        /\ At(t, "idle") /\ task' = [task EXCEPT ![t] = CallOf(op, w, m)]
        /\ UNCHANGED <<locks, books, used, bound, proxy, recorded, kernel, life>>
        /\ wanted' # wanted =>
             op = "refresh" /\ \A v \in Workspaces \ {w} : v \in wanted' <=> v \in wanted
  <2>1. PICK w \in Workspaces :
          \/ \E op \in {"attach", "switch"}, m \in Modes[w] : Begin(t, op, w, m)
          \/ Begin(t, "detach", w, "none")
          \/ \E covered \in BOOLEAN : BeginRefresh(t, w, covered)
    BY DEF Call
  <2>2. Modes[w] \subseteq AllModes
    BY DEF NetAssumption
  <2>3. CASE \E op \in {"attach", "switch"}, m \in Modes[w] : Begin(t, op, w, m)
    BY <2>2, <2>3 DEF Begin, rows
  <2>4. CASE Begin(t, "detach", w, "none")
    BY <2>4 DEF Begin, rows
  <2>5. CASE \E covered \in BOOLEAN : BeginRefresh(t, w, covered)
    BY <2>5 DEF BeginRefresh
  <2>. QED  BY <2>1, <2>3, <2>4, <2>5
<1>2. /\ task'[t].op = op /\ task'[t].ws = w /\ task'[t].pc = op /\ task[t].pc = "idle"
      /\ \A u \in Tasks \ {t} :
           task'[u] = task[u] /\ Ws(u)' = Ws(u) /\ (Owns(u)' <=> Owns(u)) /\ (Binds(u)' <=> Binds(u))
      /\ ~Owns(t)
  <2>. /\ DOMAIN task = Tasks /\ Fits(t)
    BY DEF IInv, TypeOK
  <2>1. \A u \in Tasks \ {t} : task'[u] = task[u]
    BY <1>1
  <2>. QED  BY <1>1, <2>1 DEF CallOf, Ws, Owns, Binds, At, Fits, ClaimPcs, UndoPcs
<1>3. ASSUME NEW v \in Workspaces, NEW pcs, "idle" \notin pcs, Under(v, pcs)
      PROVE  Under(v, pcs)'
  BY <1>2, <1>3 DEF Under
<1>4. op = "refresh" => Under(w, {"refresh"})'
  BY <1>2 DEF Under, Ws
<1>5. LockMeans' /\ DeadNamed'
  BY <1>1, <1>2 DEF EndInv, RedirectInv, LockMeans, LockPcs, DeadNamed, locks, proxy, life
<1>6. ASSUME NEW u \in Tasks PROVE Aimed(u)' /\ Leased(u)' /\ SwitchFollows(u)' /\ BuiltBare(u)'
  <2>1. CASE u = t
    BY <2>1, <1>2 DEF Aimed, Leased, SwitchFollows, BuiltBare, At
  <2>2. CASE u # t
    <3>0. /\ Aimed(u) /\ Leased(u) /\ SwitchFollows(u) /\ BuiltBare(u)
          /\ task'[u] = task[u] /\ Ws(u)' = Ws(u) /\ armed' = armed /\ attached' = attached
          /\ table' = table /\ faults' = faults
      BY <2>2, <1>1, <1>2 DEF EndInv, RedirectInv, proxy, books, kernel, life
    <3>1. ASSUME task[u].pc # "idle", NEW pcs, "idle" \notin pcs, Under(Ws(u), pcs)
          PROVE  Under(Ws(u), pcs)'
      <4>1. PICK v \in Workspaces : v = Ws(u)
        BY <3>1, Inside
      <4>2. Under(v, pcs)'
        BY <3>1, <4>1, <1>3
      <4>. QED  BY <4>1, <4>2, <3>0 DEF Under
    <3>2. Aimed(u)'
      <4>1. ASSUME At(u, "arm") PROVE Ws(u) \in wanted' \/ Under(Ws(u), {"refresh"})'
        <5>1. Under(Ws(u), {"refresh"}) => Under(Ws(u), {"refresh"})'
          BY <3>1, <4>1 DEF At
        <5>2. CASE wanted' # wanted /\ Ws(u) = w
          BY <5>2, <1>1, <1>4, <3>0 DEF Under
        <5>3. CASE wanted' = wanted \/ Ws(u) # w
          <6>1. Ws(u) \in Workspaces
            BY <4>1, Inside DEF At
          <6>. QED  BY <5>1, <5>3, <6>1, <4>1, <1>1, <3>0 DEF Aimed
        <5>. QED  BY <5>2, <5>3
      <4>. QED  BY <4>1, <3>0 DEF Aimed, At
    <3>3. Leased(u)'
      <4>1. task[u].pc # "idle" /\ Under(Ws(u), {"quiet", "undo"}) => Under(Ws(u), {"quiet", "undo"})'
        BY <3>1
      <4>. QED  BY <4>1, <3>0 DEF Leased, Attached, Never
    <3>4. SwitchFollows(u)'
      <4>1. task[u].pc # "idle" /\ Under(Ws(u), {"modes", "swap"}) => Under(Ws(u), {"modes", "swap"})'
        BY <3>1
      <4>. QED  BY <4>1, <3>0 DEF SwitchFollows, Never, At
    <3>. QED  BY <3>0, <3>2, <3>3, <3>4 DEF BuiltBare
  <2>. QED  BY <2>1, <2>2
<1>7. ASSUME NEW v \in Workspaces PROVE ArmedBacked(v)' /\ BooksFollow(v)' /\ TableFollows(v)'
  <2>0. /\ ArmedBacked(v) /\ BooksFollow(v) /\ TableFollows(v) /\ armed' = armed
        /\ attached' = attached /\ table' = table /\ faults' = faults
    BY <1>1 DEF EndInv, RedirectInv, proxy, books, kernel, life
  <2>1. ArmedBacked(v)'
    <3>1. Under(v, {"quiet", "undo"}) => Under(v, {"quiet", "undo"})'
      BY <1>3
    <3>. QED  BY <3>1, <2>0 DEF ArmedBacked, Attached, Never
  <2>2. BooksFollow(v)'
    <3>1. Under(v, {"replay", "refresh", "rows", "arm"}) =>
            Under(v, {"replay", "refresh", "rows", "arm"})'
      BY <1>3
    <3>2. Under(v, {"refresh"})' => Under(v, {"replay", "refresh", "rows", "arm"})'
      BY DEF Under
    <3>. QED  BY <3>1, <3>2, <2>0, <1>1, <1>4 DEF BooksFollow, Attached, Never
  <2>3. TableFollows(v)'
    <3>1. Under(v, {"modes", "swap", "install"}) => Under(v, {"modes", "swap", "install"})'
      BY <1>3
    <3>. QED  BY <3>1, <2>0 DEF TableFollows, Attached, Never
  <2>. QED  BY <2>1, <2>2, <2>3
<1>8. SlicesOwned'
  <2>1. used' = used /\ attached' = attached /\ faults' = faults
    BY <1>1 DEF books, life
  <2>. QED  BY <2>1, <1>2 DEF EndInv, ResidueInv, SlicesOwned, Never
<1>9. ASSUME NEW v \in Workspaces PROVE QueueOwned(v)' /\ TapOwned(v)' /\ TableOwned(v)'
  <2>0. /\ QueueOwned(v) /\ TapOwned(v) /\ TableOwned(v) /\ bound' = bound /\ taps' = taps
        /\ attached' = attached /\ table' = table /\ faults' = faults /\ services' = services
        /\ restarts' = restarts
    BY <1>1 DEF EndInv, ResidueInv, books, kernel, life
  <2>1. QueueOwned(v)'
    <3>1. ASSUME NEW u \in Tasks, Ws(u) = v, Binds(u) PROVE Ws(u)' = v /\ Binds(u)'
      <4>1. u # t
        BY <3>1, <1>2 DEF Binds, IInv, Fits
      <4>. QED  BY <3>1, <4>1, <1>2
    <3>. QED  BY <3>1, <2>0 DEF QueueOwned, Never
  <2>2. TapOwned(v)'
    <3>1. Under(v, TapPcs) => Under(v, TapPcs)'
      BY <1>3 DEF TapPcs, UndoPcs
    <3>. QED  BY <3>1, <2>0 DEF TapOwned, Attached, Never
  <2>3. TableOwned(v)'
    <3>1. Under(v, TablePcs) => Under(v, TablePcs)'
      BY <1>3 DEF TablePcs, TapPcs, UndoPcs
    <3>. QED  BY <3>1, <2>0 DEF TableOwned, Attached, Never, NoTable
  <2>. QED  BY <2>1, <2>2, <2>3
<1>. QED  BY <1>5, <1>6, <1>7, <1>8, <1>9 DEF EndInv, RedirectInv, ResidueInv

\* the end of the proxy's master,
LEMMA MasterEnds == IInv /\ EndInv /\ MasterDies => EndInv'
<1>. SUFFICES ASSUME EndInv, MasterDies PROVE EndInv'
  OBVIOUS
<1>1. /\ UNCHANGED <<guard, lock, attached, services, used, bound, armed, recorded, wanted,
                     table, taps, task, restarts>>
      /\ faults \subseteq faults' /\ "master" \in faults'
  BY DEF MasterDies, Fault, locks, books, rows, kernel
<1>2. RedirectInv'
  BY <1>1 DEF EndInv, RedirectInv, LockMeans, DeadNamed, Aimed, Leased, SwitchFollows,
     BuiltBare, ArmedBacked, BooksFollow, TableFollows, Under, Attached, Never, At, Ws
<1>3. ResidueInv'
  BY <1>1 DEF EndInv, ResidueInv, SlicesOwned, QueueOwned, TapOwned, TableOwned, Owns, Binds,
     Under, Attached, Never, Ws
<1>. QED  BY <1>2, <1>3 DEF EndInv

\* and a daemon that has just started meets it.
LEMMA FreshEnds ==
  ASSUME NetAssumption, lock' = Nobody, used' = {}, bound' = {}, armed' = {}, master' = "none",
         attached' = [w \in Workspaces |-> NoSlice], task' = [t \in Tasks |-> IdleTask],
         restarts' # 0 \/ (taps' = {} /\ table' = [w \in Workspaces |-> NoTable])
  PROVE  EndInv'
<1>1. ASSUME NEW t \in Tasks PROVE task'[t].pc = "idle" /\ task'[t].op = "none"
  BY DEF IdleTask
<1>2. ASSUME NEW w \in Workspaces PROVE ~Attached(w)'
  BY DEF Attached
<1>3. RedirectInv'
  BY <1>1, <1>2 DEF RedirectInv, LockMeans, LockPcs, DeadNamed, Aimed, Leased, SwitchFollows,
     BuiltBare, ArmedBacked, BooksFollow, TableFollows, At, NetAssumption
<1>4. ResidueInv'
  BY <1>2 DEF ResidueInv, SlicesOwned, QueueOwned, TapOwned, TableOwned
<1>. QED  BY <1>3, <1>4 DEF EndInv

\* A restart counts itself.
LEMMA RestartEnds == NetAssumption /\ IInv /\ Restart => EndInv'
<1>. SUFFICES ASSUME NetAssumption, IInv, Restart PROVE EndInv'
  OBVIOUS
<1>1. restarts' # 0
  BY DEF IInv, TypeOK, Restart, NetAssumption
<1>. QED  BY <1>1, FreshEnds DEF Restart

\* The first daemon finds nothing in the kernel.
LEMMA InitEnds == NetAssumption /\ Init => EndInv
<1>. SUFFICES ASSUME NetAssumption, Init PROVE EndInv
  OBVIOUS
<1>1. ASSUME NEW t \in Tasks PROVE task[t].pc = "idle" /\ task[t].op = "none"
  BY DEF Init, IdleTask
<1>2. ASSUME NEW w \in Workspaces PROVE ~Attached(w)
  BY DEF Init, Attached
<1>3. RedirectInv
  BY <1>1, <1>2 DEF Init, RedirectInv, LockMeans, LockPcs, DeadNamed, Aimed, Leased,
     SwitchFollows, BuiltBare, ArmedBacked, BooksFollow, TableFollows, At, NetAssumption
<1>4. ResidueInv
  BY <1>2 DEF Init, ResidueInv, SlicesOwned, QueueOwned, TapOwned, TableOwned
<1>. QED  BY <1>3, <1>4 DEF EndInv

\* A step that changes nothing keeps it.
LEMMA StutterEnds == EndInv /\ UNCHANGED vars => EndInv'
BY DEF EndInv, RedirectInv, ResidueInv, vars, locks, books, proxy, rows, kernel, life, LockMeans,
   DeadNamed, Aimed, Leased, SwitchFollows, BuiltBare, ArmedBacked, BooksFollow, TableFollows,
   SlicesOwned, QueueOwned, TapOwned, TableOwned, Owns, Binds, Under, Attached, Never, At, Ws

\* What is owed of listeners, redirects, slices, queues, taps and tables is owed
\* by somebody, at every step.
THEOREM EndInvariant == Spec => []EndInv
<1>1. Init => EndInv
  BY NetAssumption, InitEnds
<1>2. IInv /\ EndInv /\ [Next]_vars => EndInv'
  BY NetAssumption, StepEnds, CallEnds, MasterEnds, RestartEnds, StutterEnds DEF Next
<1>. QED  BY <1>1, <1>2, Inductive, PTL DEF Spec

\* Once no call is about an attached workspace, its flows are redirected exactly
\* when a placeholder covers it: of any order of placeholder changes, switches,
\* attaches and detaches, and of the two orders of locks.
THEOREM RedirectsFollowRows == Spec => []Redirected
<1>1. EndInv => Redirected
  <2>. SUFFICES ASSUME EndInv, NEW w \in Workspaces, Settled(w), Attached(w),
                       Never({"rearm", "late", "master", "teardown"})
                PROVE  (w \in wanted <=> w \in armed) /\ (table[w].redirect <=> w \in armed)
    BY DEF Redirected
  <2>1. \A pcs : ~Under(w, pcs)
    BY DEF Under, Settled
  <2>2. BooksFollow(w) /\ TableFollows(w)
    BY DEF EndInv, RedirectInv
  <2>. QED  BY <2>1, <2>2 DEF BooksFollow, TableFollows, Never
<1>. QED  BY <1>1, EndInvariant, PTL

\* Once no call is in flight, nothing is left of a workspace without an
\* attachment, short of the failures and the restart the property names.
THEOREM NothingIsLeft == Spec => []NoResidue
<1>1. IInv /\ EndInv => NoResidue
  <2>. SUFFICES ASSUME IInv, EndInv, \A w \in Workspaces : Settled(w),
                       Never({"record", "teardown", "late"})
                PROVE  /\ used = {attached[w] : w \in {v \in Workspaces : Attached(v)}}
                       /\ \A w \in Workspaces : ~Attached(w) =>
                            /\ services[w] = "none" /\ w \notin armed
                            /\ Never({"upstream"}) => w \notin bound
                            /\ restarts = 0 => w \notin taps /\ table[w] = NoTable
    BY DEF NoResidue
  <2>1. \A t \in Tasks : task[t].pc = "idle"
    <3>1. \A t \in Tasks : task[t].pc # "idle" => Ws(t) \in Workspaces
      BY Inside
    <3>. QED  BY <3>1 DEF Settled
  <2>2. \A t \in Tasks : ~Owns(t) /\ ~Binds(t) /\ ~Holding(t)
    <3>1. \A t \in Tasks : Fits(t)
      BY DEF IInv
    <3>. QED  BY <2>1, <3>1 DEF Owns, Binds, Holding, ClaimPcs, UndoPcs, At, Fits
  <2>3. \A w \in Workspaces : \A pcs : ~Under(w, pcs)
    BY DEF Under, Settled
  <2>4. used = {attached[w] : w \in {v \in Workspaces : Attached(v)}}
    <3>1. ASSUME NEW s \in used PROVE \E w \in Workspaces : Attached(w) /\ attached[w] = s
      <4>1. PICK w \in Workspaces : attached[w] = s
        BY <2>2 DEF EndInv, ResidueInv, SlicesOwned
      <4>2. Attached(w)
        BY <4>1, NetAssumption DEF Attached, IInv, TypeOK, NetAssumption
      <4>. QED  BY <4>1, <4>2
    <3>2. ASSUME NEW w \in Workspaces, Attached(w) PROVE attached[w] \in used
      BY <3>2 DEF IInv, SlicesApart, AttachedApart, Never
    <3>. QED  BY <3>1, <3>2
  <2>5. ASSUME NEW w \in Workspaces, ~Attached(w)
        PROVE  /\ services[w] = "none" /\ w \notin armed
               /\ Never({"upstream"}) => w \notin bound
               /\ restarts = 0 => w \notin taps /\ table[w] = NoTable
    <3>1. guard[w].by = Nobody
      BY <2>2 DEF IInv, GuardMeans, TypeOK
    <3>2. services[w] = "none"
      BY <3>1, <2>5 DEF IInv, Sound
    <3>3. ArmedBacked(w) /\ QueueOwned(w) /\ TapOwned(w) /\ TableOwned(w)
      BY DEF EndInv, RedirectInv, ResidueInv
    <3>4. w \notin armed
      BY <3>3, <2>3, <2>5 DEF ArmedBacked, Never
    <3>5. Never({"upstream"}) => w \notin bound
      BY <3>2, <3>3, <2>2 DEF QueueOwned, Never
    <3>6. restarts = 0 => w \notin taps /\ table[w] = NoTable
      BY <3>3, <2>3, <2>5 DEF TapOwned, TableOwned, Never
    <3>. QED  BY <3>2, <3>4, <3>5, <3>6
  <2>. QED  BY <2>4, <2>5
<1>. QED  BY <1>1, Inductive, EndInvariant, PTL
-------------------------------------------------------------------------------
\* A call in flight that stands where another has to let go first: of the guard,
\* to enter it or to swap the table, or of the interceptor's lock.
Busy(t) == ~At(t, "idle")
WaitsForGuard(t) ==
  \/ task[t].pc \in {"attach", "detach", "switch"} /\ guard[Ws(t)].by # Nobody
  \/ At(t, "swap") /\ guard[Ws(t)].by \notin {Nobody, t}
WaitsForLock(t) == task[t].pc \in {"undo", "refresh"} /\ lock # Nobody
Waits(t) == WaitsForGuard(t) \/ WaitsForLock(t)

\* Every call in flight waits, and there is one.
Stuck == /\ \E t \in Tasks : Busy(t)
         /\ \A t \in Tasks : Busy(t) => Waits(t)

\* A call t with the guard of a workspace waits for the lock of a call u that
\* waits for that guard.
Crossed(t, u) ==
  /\ t # u /\ lock = u /\ At(u, "swap")
  /\ guard[Ws(u)].by = t /\ task[t].pc \in {"undo", "refresh"}

\* Who holds a lock is a call in flight, and inside a guard only the
\* interceptor's lock is waited for.
LEMMA Holders ==
  ASSUME NetAssumption, IInv, LockMeans
  PROVE  /\ lock # Nobody => lock \in Tasks /\ task[lock].pc \in LockPcs
         /\ \A w \in Workspaces : guard[w].by # Nobody =>
              /\ guard[w].by \in Tasks
              /\ Ws(guard[w].by) = w /\ Holding(guard[w].by)
<1>1. lock \in Tasks \cup {Nobody} /\ guard \in [Workspaces -> [by : Tasks \cup {Nobody}, depth : 0..2]]
  BY DEF IInv, TypeOK
<1>2. ASSUME NEW w \in Workspaces, guard[w].by # Nobody
      PROVE  guard[w].by \in Tasks /\ Ws(guard[w].by) = w /\ Holding(guard[w].by)
  <2>1. guard[w].by \in Tasks
    BY <1>1, <1>2
  <2>. QED  BY <2>1 DEF IInv, GuardMeans
<1>. QED  BY <1>1, <1>2 DEF LockMeans

\* A call that waits inside a guard waits for the interceptor's lock.
LEMMA HolderWaits ==
  ASSUME NetAssumption, IInv, NEW t \in Tasks, Holding(t), Waits(t)
  PROVE  WaitsForLock(t)
<1>1. task[t].pc \notin {"attach", "detach", "switch"}
  BY DEF IInv, Fits, Holding, At
<1>2. guard[Ws(t)].by = t
  <2>1. guard[Ws(t)] = [by |-> t, depth |-> Depth(t)]
    BY DEF IInv, Guarded
  <2>. QED  BY <2>1
<1>. QED  BY <1>1, <1>2 DEF Waits, WaitsForGuard

\* The holder of the interceptor's lock waits for nothing but a guard, for its
\* swap; the one who has it then waits, if at all, for that lock.
LEMMA LockWaits ==
  ASSUME NetAssumption, IInv, LockMeans, lock # Nobody,
         \A t \in Tasks : Busy(t) => Waits(t)
  PROVE  LockCycle
<1>1. PICK u \in Tasks : lock = u /\ task[u].pc \in LockPcs
  BY Holders
<1>2. Waits(u)
  BY <1>1 DEF Busy, At, LockPcs
<1>3. At(u, "swap") /\ guard[Ws(u)].by \notin {Nobody, u}
  BY <1>1, <1>2 DEF Waits, WaitsForGuard, WaitsForLock, LockPcs, At
<1>4. Ws(u) \in Workspaces
  BY <1>1, Inside DEF LockPcs
<1>5. PICK t \in Tasks : guard[Ws(u)].by = t /\ Holding(t)
  BY <1>3, <1>4, Holders
<1>6. Waits(t)
  BY <1>5 DEF Busy, Holding, At
<1>7. WaitsForLock(t)
  BY <1>5, <1>6, HolderWaits
<1>. QED  BY <1>1, <1>3, <1>5, <1>7 DEF LockCycle, WaitsForLock

\* As long as the two orders of guard and lock have not crossed, some call in
\* flight can go on: no other ring of attaches, detaches, switches and refreshes
\* that wait on each other exists.
THEOREM OnlyCyclesBlock == Spec => [](Stuck => LockCycle)
<1>1. IInv /\ EndInv => (Stuck => LockCycle)
  <2>. SUFFICES ASSUME IInv, EndInv, Stuck PROVE LockCycle
    OBVIOUS
  <2>0. LockMeans /\ NetAssumption
    BY NetAssumption DEF EndInv, RedirectInv
  <2>1. PICK t \in Tasks : Busy(t) /\ Waits(t)
    BY DEF Stuck
  <2>2. CASE lock # Nobody
    BY <2>0, <2>2, LockWaits DEF Stuck
  <2>3. CASE lock = Nobody
    <3>1. WaitsForGuard(t) /\ Ws(t) \in Workspaces
      BY <2>1, <2>3, Inside DEF Waits, WaitsForLock, Busy, At
    <3>2. PICK u \in Tasks : guard[Ws(t)].by = u /\ Holding(u)
      BY <2>0, <3>1, Holders DEF WaitsForGuard
    <3>3. Waits(u)
      BY <3>2 DEF Stuck, Busy, Holding, At
    <3>4. WaitsForLock(u)
      BY <2>0, <3>2, <3>3, HolderWaits
    <3>. QED  BY <2>3, <3>4 DEF WaitsForLock
  <2>. QED  BY <2>2, <2>3
<1>. QED  BY <1>1, Inductive, EndInvariant, PTL

\* Only a workspace whose posture or placeholders change is switched or
\* refreshed from outside.
ChangesNamed == \A t \in Tasks : task[t].op \in {"switch", "refresh"} => Ws(t) \in Changing

\* A call keeps its kind and its workspace, or ends.
KindStays(t) ==
  \/ task'[t].op = task[t].op /\ task'[t].ws = task[t].ws
  \/ task'[t].op = "none"

\* Each of its steps does one or the other.
LEMMA KindKept ==
  ASSUME NEW t \in Tasks, Step(t), Moves(t)
  PROVE  KindStays(t)
<1>1. AttachStep(t) => KindStays(t)
  BY DEF AttachStep, AttachExisting, AttachBuild, ClaimRecorded, ClaimFresh, ClaimRefused,
     RecordSlice, RecordFails, MakeTap, InstallTable, StartServices, PublishAttachment,
     ReplayVerdicts, UnwindServices, BuildOn, Return, Unwind, Moves, KindStays
<1>2. DetachStep(t) => KindStays(t)
  BY DEF DetachStep, DetachNothing, DetachPop, StopConsent, UndoLock, Unlisten, DeleteTable,
     RemoveTap, Return, Unwind, Moves, KindStays
<1>3. SwitchStep(t) => KindStays(t)
  BY DEF SwitchStep, SwitchAbsent, SwitchEnter, SwitchBind, SwitchInstall, SwitchCommit,
     SwitchPin, Return, Moves, KindStays
<1>4. RefreshStep(t) => KindStays(t)
  BY DEF RefreshStep, LockInterceptor, ReadRows, Arm, ApplyModes, SwapEnter, SwapAbsent,
     SwapInstall, RollBack, Done, Raise, Return, Unwind, Moves, KindStays
<1>. QED  BY <1>1, <1>2, <1>3, <1>4 DEF Step

\* So who is switched or refreshed stays named.
LEMMA NamedKept ==
  ASSUME NetAssumption, IInv, ChangesNamed, [Next]_vars
  PROVE  ChangesNamed'
<1>0. TypeOK
  BY DEF IInv
<1>1. ASSUME NEW t \in Tasks, Step(t) PROVE ChangesNamed'
  <2>1. Around(t)
    BY <1>1, HaveAround
  <2>2. KindStays(t)
    BY <1>1, <2>1, KindKept DEF Around
  <2>. QED  BY <2>1, <2>2 DEF ChangesNamed, Around, KindStays, Ws
<1>2. ASSUME NEW t \in Tasks, Call(t) PROVE ChangesNamed'
  <2>1. PICK w \in Workspaces, op \in {"attach", "detach", "switch", "refresh"} :
          /\ op \in {"switch", "refresh"} => w \in Changing
          /\ \E m : task' = [task EXCEPT ![t] = CallOf(op, w, m)]
    BY <1>2 DEF Call, Begin, BeginRefresh
  <2>2. task'[t].op = op /\ task'[t].ws = w /\ \A u \in Tasks \ {t} : task'[u] = task[u]
    BY <2>1, <1>0 DEF CallOf, TypeOK
  <2>. QED  BY <2>1, <2>2 DEF ChangesNamed, Ws
<1>3. CASE MasterDies
  BY <1>3 DEF MasterDies, ChangesNamed, Ws
<1>4. CASE Restart
  BY <1>4 DEF Restart, ChangesNamed, IdleTask
<1>5. CASE UNCHANGED vars
  BY <1>5 DEF vars, ChangesNamed, Ws
<1>. QED  BY <1>1, <1>2, <1>3, <1>4, <1>5 DEF Next

\* Two calls cross their locks only where a placeholder's change, or the sweep,
\* asked for a refresh of a workspace that is being attached or detached: an
\* attach's own refresh and a switch of posture never take part.
CyclesAreRefreshes ==
  \A t, u \in Tasks : Crossed(t, u) =>
    /\ task[u].op = "refresh" /\ Ws(u) \in Changing
    /\ task[t].op \in {"attach", "detach"} /\ Ws(t) = Ws(u)

\* Whatever is in flight, the deadlock takes a refresh from outside.
THEOREM CyclesTakeRefreshes == Spec => []CyclesAreRefreshes
<1>1. Init => ChangesNamed
  BY DEF Init, ChangesNamed, IdleTask
<1>2. IInv /\ ChangesNamed => CyclesAreRefreshes
  <2>. SUFFICES ASSUME IInv, ChangesNamed, NEW t \in Tasks, NEW u \in Tasks, Crossed(t, u)
                PROVE  /\ task[u].op = "refresh" /\ Ws(u) \in Changing
                       /\ task[t].op \in {"attach", "detach"} /\ Ws(t) = Ws(u)
    BY DEF CyclesAreRefreshes
  <2>1. Ws(u) \in Workspaces /\ task[u].pc = "swap"
    BY Inside DEF Crossed, At
  <2>2. Ws(t) = Ws(u) /\ Holding(t)
    BY <2>1 DEF IInv, GuardMeans, Crossed
  <2>3. ~Holding(u)
    BY <2>2, OneHolder DEF Crossed
  <2>4. task[u].op = "refresh"
    BY <2>1, <2>3, Inside
  <2>5. task[t].op \in {"attach", "detach"}
    BY <2>2 DEF Crossed, IInv, Fits, Holding, At, TypeOK, TaskType, UndoPcs, RefreshPcs, SwitchPcs, ClaimPcs
  <2>. QED  BY <2>2, <2>4, <2>5 DEF ChangesNamed
<1>3. IInv /\ ChangesNamed /\ [Next]_vars => ChangesNamed'
  BY NetAssumption, NamedKept
<1>. QED  BY <1>1, <1>2, <1>3, Inductive, PTL DEF Spec

\* Without such refreshes and switches, no two calls ever wait on each other.
THEOREM NoRefreshNoCycle ==
  ASSUME Changing = {}
  PROVE  Spec => []NoLockCycle
<1>1. CyclesAreRefreshes => NoLockCycle
  BY DEF CyclesAreRefreshes, NoLockCycle, LockCycle, Crossed
<1>. QED  BY <1>1, CyclesTakeRefreshes, PTL
===============================================================================
