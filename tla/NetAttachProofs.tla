---------------------------- MODULE NetAttachProofs ----------------------------
(***************************************************************************)
(* The safety of NetAttach, for any workspaces, calls, slices and bounds.  *)
(*                                                                         *)
(* The argument is one of ownership.  A call inside the guard of its       *)
(* workspace owns what the books and the kernel say of it: a step of       *)
(* another call touches nothing of that workspace (Locality), so what the  *)
(* owner may count on at its step (Staged) is its own doing.               *)
(***************************************************************************)
EXTENDS NetAttach, FiniteSetTheorems, TLAPS

\* Where a call of each kind may stand.
RefreshPcs == {"refresh", "rows", "arm", "modes", "swap", "install"}
ClaimPcs == {"claim", "record", "tap", "table", "serve", "publish"}
UndoPcs == {"undo", "unlisten", "delete", "untap"}
SwitchPcs == {"snapshot", "exchange", "commit", "pin"}

Fits(t) ==
  LET q == task[t] IN
  /\ q.pc # "idle" => q.ws \in Workspaces
  /\ q.op = "none" => q.pc = "idle"
  /\ q.op = "attach" =>
       q.pc \in {"attach", "replay", "unwind"} \cup ClaimPcs \cup UndoPcs \cup RefreshPcs
  /\ q.op = "detach" => q.pc \in {"detach", "quiet"} \cup UndoPcs
  /\ q.op = "switch" => q.pc \in {"switch"} \cup SwitchPcs
  /\ q.op = "refresh" => q.pc \in RefreshPcs
  /\ q.op \in {"attach", "switch"} => q.mode \in AllModes
  /\ q.pc \in {"record", "tap", "table", "serve", "publish"} => q.slice \in Slices

\* A call inside the guard of its workspace.
Holding(t) ==
  IF task[t].op = "refresh" THEN At(t, "install")
  ELSE task[t].pc \notin {"idle", "attach", "detach", "switch"}

Depth(t) == IF task[t].op = "attach" /\ At(t, "install") THEN 2 ELSE 1

\* Holding is what the guard says it is.
Guarded(t) == Holding(t) => guard[Ws(t)] = [by |-> t, depth |-> Depth(t)]
GuardMeans(w) ==
  /\ guard[w].by = Nobody => guard[w] = FreeGuard
  /\ \A t \in Tasks : guard[w].by = t => Ws(t) = w /\ Holding(t)

\* What a call may count on at its step.
Staged(t) ==
  LET q == task[t]
      w == Ws(t)
      bindsHere == q.mode = "interactive" => w \in bound IN
  /\ q.op = "attach" /\ q.pc \in ClaimPcs =>
       /\ ~Attached(w)
       /\ q.pc # "publish" => services[w] = "none"
       /\ q.pc \in {"tap", "table", "serve", "publish"} => bindsHere /\ recorded[w] = q.slice
       /\ q.pc \in {"table", "serve", "publish"} => w \in taps
       /\ q.pc \in {"serve", "publish"} => table[w].mode = q.mode
       /\ q.pc = "publish" => services[w] = q.mode
  /\ q.op = "attach" /\ q.pc \in {"replay"} \cup RefreshPcs =>
       Attached(w) /\ services[w] # "none"
  /\ q.pc \in {"unwind", "quiet"} \cup UndoPcs => ~Attached(w) \/ "late" \in faults
  /\ q.pc \in {"quiet"} \cup UndoPcs => services[w] = "none"
  /\ q.pc \in SwitchPcs \cup {"install"} => Attached(w) /\ services[w] # "none"
  /\ q.pc \in {"exchange", "commit"} => bindsHere
  /\ q.pc = "commit" => table[w].mode = q.mode
  /\ q.op = "attach" /\ q.goal = "rollback" => "late" \in faults

\* What holds of a workspace at every step.
Sound(w) ==
  /\ guard[w].by = Nobody /\ ~Attached(w) => services[w] = "none"
  /\ services[w] # "none" =>
       \/ table[w].mode = services[w]
       \/ guard[w].by # Nobody /\ At(guard[w].by, "commit")
  /\ table[w].mode = "interactive" /\ services[w] # "none" => w \in bound
  /\ Attached(w) /\ Never({"late"}) =>
       w \in taps /\ services[w] # "none" /\ recorded[w] = attached[w]

\* Calls that own a slice of their own.
Owns(t) ==
  \/ task[t].op = "attach" /\ task[t].pc \in ClaimPcs \ {"claim"}
  \/ task[t].op = "detach" /\ task[t].pc \in {"quiet"} \cup UndoPcs

\* No attachment's slice is another's, or free; no owner's is either.
AttachedApart ==
  \A w \in Workspaces : Attached(w) =>
    /\ attached[w] \in used
    /\ \A v \in Workspaces \ {w} : attached[v] # attached[w]

OwnersApart ==
  \A t \in Tasks : Owns(t) =>
    /\ task[t].slice \in used
    /\ \A w \in Workspaces : attached[w] # task[t].slice
    /\ \A u \in Tasks \ {t} : Owns(u) => task[u].slice # task[t].slice

SlicesApart == Never({"late"}) => AttachedApart /\ OwnersApart

IInv ==
  /\ TypeOK
  /\ \A t \in Tasks : Fits(t) /\ Guarded(t) /\ Staged(t)
  /\ \A w \in Workspaces : GuardMeans(w) /\ Sound(w)
  /\ SlicesApart

-------------------------------------------------------------------------------
\* What of a workspace only the holder of its guard changes.
Same(w) ==
  /\ guard'[w] = guard[w] /\ attached'[w] = attached[w] /\ services'[w] = services[w]
  /\ recorded'[w] = recorded[w] /\ table'[w] = table[w]
  /\ (w \in bound') = (w \in bound) /\ (w \in taps') = (w \in taps)

\* The narrow facts about types that the footprint needs.
Domains ==
  /\ DOMAIN guard = Workspaces /\ DOMAIN attached = Workspaces
  /\ DOMAIN services = Workspaces /\ DOMAIN recorded = Workspaces
  /\ DOMAIN table = Workspaces /\ DOMAIN task = Tasks

\* Every function has the domain it was given.
LEMMA HaveDomains == TypeOK => Domains
BY DEF TypeOK, Domains

\* A step of a call changes its own record and what its workspace is, and the
\* latter only while nobody else is inside the guard.
LEMMA Locality ==
  ASSUME TypeOK, NEW t \in Tasks, Fits(t), Guarded(t), Step(t)
  PROVE  /\ \A u \in Tasks \ {t} : task'[u] = task[u]
         /\ \A w \in Workspaces \ {Ws(t)} : Same(w)
         /\ Ws(t) \in Workspaces =>
              guard[Ws(t)].by \in {Nobody, t} \/ Same(Ws(t))
         /\ faults \subseteq faults'
<1>0. Domains /\ (Holding(t) => guard[Ws(t)].by = t)
  BY HaveDomains DEF Guarded
<1>a. /\ task[t].op = "refresh" => task[t].pc \in RefreshPcs
      /\ task[t].op # "attach" => task[t].pc # "unwind"
  BY DEF Fits, UndoPcs, SwitchPcs, RefreshPcs, TypeOK, TaskType
<1>1. CASE AttachExisting(t)
  BY <1>1, <1>0, <1>a DEF AttachExisting, Domains, Holding, RefreshPcs, Same, At, Ws,
      locks, books, proxy, rows, kernel, life
<1>2. CASE AttachBuild(t)
  BY <1>2, <1>0, <1>a DEF AttachBuild, Enter, GoTo, Domains, Holding, RefreshPcs, Same, At,
      Ws, locks, books, proxy, rows, kernel, life
<1>3. CASE ClaimRecorded(t)
  BY <1>3, <1>0, <1>a DEF ClaimRecorded, BuildOn, Fault, Take, Domains, Holding,
      RefreshPcs, Same, At, Ws, locks, books, proxy, rows, kernel, life
<1>4. CASE ClaimFresh(t)
  BY <1>4, <1>0, <1>a DEF ClaimFresh, Take, Domains, Holding, RefreshPcs, Same, At, Ws,
      locks, books, proxy, rows, kernel, life
<1>5. CASE ClaimRefused(t)
  BY <1>5, <1>0, <1>a DEF ClaimRefused, Return, Domains, Holding, RefreshPcs, Same, At, Ws,
      locks, books, proxy, rows, kernel, life
<1>6. CASE RecordSlice(t)
  BY <1>6, <1>0, <1>a DEF RecordSlice, BuildOn, Fault, Take, Domains, Holding, RefreshPcs,
      Same, At, Ws, locks, books, proxy, rows, kernel, life
<1>7. CASE RecordFails(t)
  BY <1>7, <1>0, <1>a DEF RecordFails, Return, Fault, Domains, Holding, RefreshPcs, Same,
      At, Ws, locks, books, proxy, rows, kernel, life
<1>8. CASE MakeTap(t)
  BY <1>8, <1>0, <1>a DEF MakeTap, GoTo, Unwind, Fault, Domains, Holding, RefreshPcs, Same,
      At, Ws, locks, books, proxy, rows, kernel, life
<1>9. CASE InstallTable(t)
  BY <1>9, <1>0, <1>a DEF InstallTable, GoTo, Unwind, Fault, Domains, Holding, RefreshPcs,
      Same, At, Ws, locks, books, proxy, rows, kernel, life
<1>10. CASE StartServices(t)
  BY <1>10, <1>0, <1>a DEF StartServices, GoTo, Unwind, Fault, Domains, Holding,
      RefreshPcs, Same, At, Ws, locks, books, proxy, rows, kernel, life
<1>11. CASE PublishAttachment(t)
  BY <1>11, <1>0, <1>a DEF PublishAttachment, GoTo, Domains, Holding, RefreshPcs, Same, At,
      Ws, locks, books, proxy, rows, kernel, life
<1>12. CASE ReplayVerdicts(t)
  BY <1>12, <1>0, <1>a DEF ReplayVerdicts, GoTo, Unwind, Fault, Domains, Holding,
      RefreshPcs, Same, At, Ws, locks, books, proxy, rows, kernel, life
<1>13. CASE UnwindServices(t)
  BY <1>13, <1>0, <1>a DEF UnwindServices, GoTo, Domains, Holding, RefreshPcs, Same, At,
      Ws, locks, books, proxy, rows, kernel, life
<1>14. CASE DetachNothing(t)
  BY <1>14, <1>0, <1>a DEF DetachNothing, Domains, Holding, RefreshPcs, Same, At, Ws,
      locks, books, proxy, rows, kernel, life
<1>15. CASE DetachPop(t)
  BY <1>15, <1>0, <1>a DEF DetachPop, Enter, Take, Domains, Holding, RefreshPcs, Same, At,
      Ws, locks, books, proxy, rows, kernel, life
<1>16. CASE StopConsent(t)
  BY <1>16, <1>0, <1>a DEF StopConsent, GoTo, Return, Fault, Domains, Holding, RefreshPcs,
      Same, At, Ws, locks, books, proxy, rows, kernel, life
<1>17. CASE UndoLock(t)
  BY <1>17, <1>0, <1>a DEF UndoLock, GoTo, Domains, Holding, RefreshPcs, Same, At, Ws,
      locks, books, proxy, rows, kernel, life
<1>18. CASE Unlisten(t)
  BY <1>18, <1>0, <1>a DEF Unlisten, GoTo, Return, Fault, Domains, Holding, RefreshPcs,
      Same, At, Ws, locks, books, proxy, rows, kernel, life
<1>19. CASE DeleteTable(t)
  BY <1>19, <1>0, <1>a DEF DeleteTable, GoTo, Return, Fault, Domains, Holding, RefreshPcs,
      Same, At, Ws, locks, books, proxy, rows, kernel, life
<1>20. CASE RemoveTap(t)
  BY <1>20, <1>0, <1>a DEF RemoveTap, Return, Fault, Domains, Holding, RefreshPcs, Same,
      At, Ws, locks, books, proxy, rows, kernel, life
<1>21. CASE SwitchAbsent(t)
  BY <1>21, <1>0, <1>a DEF SwitchAbsent, Domains, Holding, RefreshPcs, Same, At, Ws, locks,
      books, proxy, rows, kernel, life
<1>22. CASE SwitchEnter(t)
  BY <1>22, <1>0, <1>a DEF SwitchEnter, Enter, GoTo, Domains, Holding, RefreshPcs, Same,
      At, Ws, locks, books, proxy, rows, kernel, life
<1>23. CASE SwitchBind(t)
  BY <1>23, <1>0, <1>a DEF SwitchBind, Fresh, Return, Fault, Aim, Domains, Holding,
      RefreshPcs, Same, At, Ws, locks, books, proxy, rows, kernel, life
<1>24. CASE SwitchInstall(t)
  BY <1>24, <1>0, <1>a DEF SwitchInstall, Fresh, GoTo, Return, Fault, Domains, Holding,
      RefreshPcs, Same, At, Ws, locks, books, proxy, rows, kernel, life
<1>25. CASE SwitchCommit(t)
  BY <1>25, <1>0, <1>a DEF SwitchCommit, GoTo, Return, Domains, Holding, RefreshPcs, Same,
      At, Ws, locks, books, proxy, rows, kernel, life
<1>26. CASE SwitchPin(t)
  BY <1>26, <1>0, <1>a DEF SwitchPin, Return, Fault, Domains, Holding, RefreshPcs, Same,
      At, Ws, locks, books, proxy, rows, kernel, life
<1>27. CASE LockInterceptor(t)
  BY <1>27, <1>0, <1>a DEF LockInterceptor, GoTo, Domains, Holding, RefreshPcs, Same, At,
      Ws, locks, books, proxy, rows, kernel, life
<1>28. CASE ReadRows(t)
  BY <1>28, <1>0, <1>a DEF ReadRows, Done, Raise, Unwind, RefreshFault, Fault, GoTo,
      Aim, Domains, Holding, RefreshPcs, Same, At, Ws, locks, books, proxy, rows,
      kernel, life
<1>29. CASE Arm(t)
  BY <1>29, <1>0, <1>a DEF Arm, Aim, RefreshFault, Fault, Raise, Unwind, GoTo, Domains,
      Holding, RefreshPcs, Same, At, Ws, locks, books, proxy, rows, kernel, life
<1>30. CASE ApplyModes(t)
  BY <1>30, <1>0, <1>a DEF ApplyModes, GoTo, RefreshFault, Fault, RollBack, Aim, Raise,
      Unwind, Domains, Holding, RefreshPcs, Same, At, Ws, locks, books, proxy, rows,
      kernel, life
<1>31. CASE SwapEnter(t)
  BY <1>31, <1>0, <1>a DEF SwapEnter, Enter, GoTo, Domains, Holding, RefreshPcs, Same, At,
      Ws, locks, books, proxy, rows, kernel, life
<1>32. CASE SwapAbsent(t)
  BY <1>32, <1>0, <1>a DEF SwapAbsent, Raise, Unwind, Done, GoTo, Domains, Holding,
      RefreshPcs, Same, At, Ws, locks, books, proxy, rows, kernel, life
<1>33. CASE SwapInstall(t)
  BY <1>33, <1>0, <1>a DEF SwapInstall, Raise, Unwind, Done, Exit, RefreshFault, Fault,
      RollBack, Aim, GoTo, Domains, Holding, RefreshPcs, Same, At, Ws, locks, books, proxy,
      rows, kernel, life
<1>. QED
  BY <1>1, <1>2, <1>3, <1>4, <1>5, <1>6, <1>7, <1>8, <1>9, <1>10, <1>11, <1>12,
     <1>13, <1>14, <1>15, <1>16, <1>17, <1>18, <1>19, <1>20, <1>21, <1>22, <1>23, <1>24,
     <1>25, <1>26, <1>27, <1>28, <1>29, <1>30, <1>31, <1>32, <1>33
  DEF Step, AttachStep, DetachStep, SwitchStep, RefreshStep

-------------------------------------------------------------------------------
Kinds == {"early", "record", "upstream", "late", "teardown", "rearm", "switch", "master"}

\* A daemon's life sees finitely many kinds of failure.
LEMMA KindsFinite == \A F : F \subseteq Kinds => Cardinality(F) \in Nat
<1>1. \A S, x : IsFiniteSet(S) => IsFiniteSet(S \cup {x})
  BY FS_AddElement
<1>2. IsFiniteSet({})
  BY FS_EmptySet
<1>3. IsFiniteSet((({} \cup {"early"}) \cup {"record"}) \cup {"upstream"})
  BY <1>1, <1>2
<1>4. IsFiniteSet((({} \cup {"late"}) \cup {"teardown"}) \cup {"rearm"})
  BY <1>1, <1>2
<1>5. IsFiniteSet(({} \cup {"switch"}) \cup {"master"})
  BY <1>1, <1>2
<1>6. Kinds = (((({} \cup {"early"}) \cup {"record"}) \cup {"upstream"})
                \cup ((({} \cup {"late"}) \cup {"teardown"}) \cup {"rearm"}))
              \cup (({} \cup {"switch"}) \cup {"master"})
  BY DEF Kinds
<1>7. IsFiniteSet(Kinds)
  BY <1>3, <1>4, <1>5, <1>6, FS_Union
<1>. QED  BY <1>7, FS_Subset, FS_CardinalityType

\* The record of a call, at every step of its own.
LEMMA TaskSteps ==
  ASSUME task \in [Tasks -> TaskType], NEW t \in Tasks, NEW pc \in Pcs
  PROVE  /\ GoTo(t, pc) => task' \in [Tasks -> TaskType]
         /\ \A s \in Slices \cup {NoSlice} : Take(t, pc, s) => task' \in [Tasks -> TaskType]
         /\ \A goal \in {"none", "on", "off", "rollback"} :
              Aim(t, pc, goal) => task' \in [Tasks -> TaskType]
         /\ task' = [task EXCEPT ![t] = IdleTask] => task' \in [Tasks -> TaskType]
<1>1. task[t] \in TaskType
  OBVIOUS
<1>2. ASSUME GoTo(t, pc) PROVE task' \in [Tasks -> TaskType]
  <2>1. [task[t] EXCEPT !.pc = pc] \in TaskType
    BY <1>1 DEF TaskType
  <2>. QED  BY <1>2, <2>1 DEF GoTo
<1>3. ASSUME NEW s \in Slices \cup {NoSlice}, Take(t, pc, s) PROVE task' \in [Tasks -> TaskType]
  <2>1. [task[t] EXCEPT !.pc = pc, !.slice = s] \in TaskType
    BY <1>1 DEF TaskType
  <2>. QED  BY <1>3, <2>1 DEF Take
<1>4. ASSUME NEW goal \in {"none", "on", "off", "rollback"}, Aim(t, pc, goal)
      PROVE  task' \in [Tasks -> TaskType]
  <2>1. [task[t] EXCEPT !.pc = pc, !.goal = goal] \in TaskType
    BY <1>1 DEF TaskType
  <2>. QED  BY <1>4, <2>1 DEF Aim
<1>5. IdleTask \in TaskType
  BY DEF IdleTask, TaskType, Pcs
<1>. QED  BY <1>2, <1>3, <1>4, <1>5

\* A step leaves every call a call, whatever slice or goal it takes up.
LEMMA TaskTypes ==
  ASSUME TypeOK, NEW t \in Tasks, Fits(t), Step(t)
  PROVE  task' \in [Tasks -> TaskType]
<1>0. /\ task \in [Tasks -> TaskType] /\ attached \in [Workspaces -> Slices \cup {NoSlice}]
      /\ recorded \in [Workspaces -> Slices \cup {NoSlice}]
      /\ task[t].slice \in Slices \cup {NoSlice}
      /\ task[t].pc # "idle" => Ws(t) \in Workspaces
  BY DEF Fits, Ws, TypeOK, TaskType
<1>a. ASSUME NEW pc \in Pcs
      PROVE  /\ GoTo(t, pc) => task' \in [Tasks -> TaskType]
             /\ \A s \in Slices \cup {NoSlice} : Take(t, pc, s) => task' \in [Tasks -> TaskType]
             /\ \A goal \in {"none", "on", "off", "rollback"} :
                  Aim(t, pc, goal) => task' \in [Tasks -> TaskType]
             /\ task' = [task EXCEPT ![t] = IdleTask] => task' \in [Tasks -> TaskType]
  BY <1>0, TaskSteps
<1>1. CASE AttachExisting(t)
  BY <1>1, <1>0, <1>a DEF AttachExisting, Pcs, At
<1>2. CASE AttachBuild(t)
  BY <1>2, <1>0, <1>a DEF AttachBuild, Enter, Pcs, At
<1>3. CASE ClaimRecorded(t)
  BY <1>3, <1>0, <1>a DEF ClaimRecorded, BuildOn, Fault, Pcs, At
<1>4. CASE ClaimFresh(t)
  BY <1>4, <1>0, <1>a DEF ClaimFresh, Pcs, At
<1>5. CASE ClaimRefused(t)
  BY <1>5, <1>0, <1>a DEF ClaimRefused, Return, Pcs, At
<1>6. CASE RecordSlice(t)
  BY <1>6, <1>0, <1>a DEF RecordSlice, BuildOn, Fault, Pcs, At
<1>7. CASE RecordFails(t)
  BY <1>7, <1>0, <1>a DEF RecordFails, Return, Fault, Pcs, At
<1>8. CASE MakeTap(t)
  BY <1>8, <1>0, <1>a DEF MakeTap, Unwind, Fault, Pcs, At
<1>9. CASE InstallTable(t)
  BY <1>9, <1>0, <1>a DEF InstallTable, Unwind, Fault, Pcs, At
<1>10. CASE StartServices(t)
  BY <1>10, <1>0, <1>a DEF StartServices, Unwind, Fault, Pcs, At
<1>11. CASE PublishAttachment(t)
  BY <1>11, <1>0, <1>a DEF PublishAttachment, Pcs, At
<1>12. CASE ReplayVerdicts(t)
  BY <1>12, <1>0, <1>a DEF ReplayVerdicts, Unwind, Fault, Pcs, At
<1>13. CASE UnwindServices(t)
  BY <1>13, <1>0, <1>a DEF UnwindServices, Pcs, At
<1>14. CASE DetachNothing(t)
  BY <1>14, <1>0, <1>a DEF DetachNothing, Pcs, At
<1>15. CASE DetachPop(t)
  BY <1>15, <1>0, <1>a DEF DetachPop, Enter, Pcs, At
<1>16. CASE StopConsent(t)
  BY <1>16, <1>0, <1>a DEF StopConsent, Return, Fault, Pcs, At
<1>17. CASE UndoLock(t)
  BY <1>17, <1>0, <1>a DEF UndoLock, Pcs, At
<1>18. CASE Unlisten(t)
  BY <1>18, <1>0, <1>a DEF Unlisten, Return, Fault, Pcs, At
<1>19. CASE DeleteTable(t)
  BY <1>19, <1>0, <1>a DEF DeleteTable, Return, Fault, Pcs, At
<1>20. CASE RemoveTap(t)
  BY <1>20, <1>0, <1>a DEF RemoveTap, Return, Fault, Pcs, At
<1>21. CASE SwitchAbsent(t)
  BY <1>21, <1>0, <1>a DEF SwitchAbsent, Pcs, At
<1>22. CASE SwitchEnter(t)
  BY <1>22, <1>0, <1>a DEF SwitchEnter, Enter, Pcs, At
<1>23. CASE SwitchBind(t)
  BY <1>23, <1>0, <1>a DEF SwitchBind, Fresh, Return, Fault, Pcs, At
<1>24. CASE SwitchInstall(t)
  BY <1>24, <1>0, <1>a DEF SwitchInstall, Fresh, Return, Fault, Pcs, At
<1>25. CASE SwitchCommit(t)
  BY <1>25, <1>0, <1>a DEF SwitchCommit, Return, Pcs, At
<1>26. CASE SwitchPin(t)
  BY <1>26, <1>0, <1>a DEF SwitchPin, Return, Fault, Pcs, At
<1>27. CASE LockInterceptor(t)
  BY <1>27, <1>0, <1>a DEF LockInterceptor, Pcs, At
<1>28. CASE ReadRows(t)
  BY <1>28, <1>0, <1>a DEF ReadRows, Done, Raise, Unwind, RefreshFault, Fault, Pcs, At
<1>29. CASE Arm(t)
  BY <1>29, <1>0, <1>a DEF Arm, RefreshFault, Fault, Raise, Unwind, Pcs, At
<1>30. CASE ApplyModes(t)
  BY <1>30, <1>0, <1>a DEF ApplyModes, RefreshFault, Fault, RollBack, Raise, Unwind, Pcs,
      At
<1>31. CASE SwapEnter(t)
  BY <1>31, <1>0, <1>a DEF SwapEnter, Enter, Pcs, At
<1>32. CASE SwapAbsent(t)
  BY <1>32, <1>0, <1>a DEF SwapAbsent, Raise, Unwind, Done, Pcs, At
<1>33. CASE SwapInstall(t)
  BY <1>33, <1>0, <1>a DEF SwapInstall, Raise, Unwind, Done, Exit, RefreshFault, Fault,
      RollBack, Pcs, At
<1>. QED
  BY <1>1, <1>2, <1>3, <1>4, <1>5, <1>6, <1>7, <1>8, <1>9, <1>10, <1>11, <1>12,
     <1>13, <1>14, <1>15, <1>16, <1>17, <1>18, <1>19, <1>20, <1>21, <1>22, <1>23, <1>24,
     <1>25, <1>26, <1>27, <1>28, <1>29, <1>30, <1>31, <1>32, <1>33
  DEF Step, AttachStep, DetachStep, SwitchStep, RefreshStep

GuardType == [by : Tasks \cup {Nobody}, depth : 0..2]

\* One new entry keeps a function's type.
LEMMA OneEntry ==
  ASSUME NEW S, NEW D, NEW f \in [S -> D], NEW x, NEW r \in D
  PROVE  [f EXCEPT ![x] = r] \in [S -> D]
OBVIOUS

\* A step keeps every type: a guard's depth stays within two, because only an
\* attach at its last step enters twice.
LEMMA StepTypes ==
  ASSUME NetAssumption, TypeOK, NEW t \in Tasks, Fits(t), Guarded(t),
         Ws(t) \in Workspaces => GuardMeans(Ws(t)), Step(t)
  PROVE  TypeOK'
<1>0. /\ task[t].pc # "idle" => Ws(t) \in Workspaces
      /\ task[t].mode \in AllModes \cup {"none"} /\ task[t].slice \in Slices \cup {NoSlice}
      /\ task[t].pc \in {"record", "tap", "table", "serve", "publish"} => task[t].slice \in Slices
      /\ task[t].op \in {"attach", "switch"} => task[t].mode \in AllModes
  BY DEF Fits, Ws, TypeOK, TaskType
<1>a. /\ ~Holding(t) => guard[Ws(t)].by # t \/ Ws(t) \notin Workspaces
      /\ Holding(t) => guard[Ws(t)] = [by |-> t, depth |-> Depth(t)]
      /\ Ws(t) \in Workspaces /\ guard[Ws(t)].by = Nobody => guard[Ws(t)] = FreeGuard
      /\ Nobody \notin Tasks
  BY DEF Guarded, GuardMeans, NetAssumption
<1>b. task' \in [Tasks -> TaskType]
  BY TaskTypes
<1>c. TypeOK
  OBVIOUS
<1>d. \A r \in GuardType : [guard EXCEPT ![Ws(t)] = r] \in [Workspaces -> GuardType]
  BY OneEntry, <1>c DEF TypeOK, GuardType
<1>e. /\ Return(t) => guard' \in [Workspaces -> GuardType]
      /\ [guard EXCEPT ![Ws(t)] = FreeGuard] \in [Workspaces -> GuardType]
  <2>1. FreeGuard \in GuardType
    BY DEF FreeGuard, GuardType
  <2>. QED  BY <2>1, <1>d DEF Return
<1>f. ASSUME Enter(t, Ws(t)), Ws(t) \in Workspaces, Holding(t) => Depth(t) = 1
      PROVE  guard' \in [Workspaces -> GuardType]
  <2>1. guard[Ws(t)].depth \in {0, 1}
    BY <1>f, <1>a DEF Enter, FreeGuard
  <2>2. [by |-> t, depth |-> guard[Ws(t)].depth + 1] \in GuardType
    BY <2>1 DEF GuardType
  <2>. QED  BY <2>2, <1>c, <1>d, <1>f DEF Enter, TypeOK
<1>g. ASSUME Exit(Ws(t)), Ws(t) \in Workspaces, Holding(t)
      PROVE  guard' \in [Workspaces -> GuardType]
  <2>1. guard[Ws(t)].depth \in {1, 2}
    BY <1>g, <1>a DEF Depth
  <2>2. /\ FreeGuard \in GuardType
        /\ [by |-> guard[Ws(t)].by, depth |-> guard[Ws(t)].depth - 1] \in GuardType
    BY <2>1, <1>g, <1>a DEF GuardType, FreeGuard
  <2>. DEFINE r == IF guard[Ws(t)].depth = 1 THEN FreeGuard
                  ELSE [by |-> guard[Ws(t)].by, depth |-> guard[Ws(t)].depth - 1]
  <2>3. r \in GuardType
    BY <2>2
  <2>4. guard' = [guard EXCEPT ![Ws(t)] = r]
    BY <1>g DEF Exit
  <2>. QED  BY <2>3, <2>4, <1>d
<1>h. ASSUME NEW kind \in Kinds, Fault(kind)
      PROVE  faults' \subseteq Kinds /\ restarts' \in 0..MaxFaults
  BY <1>h DEF Fault, TypeOK, Kinds
<1>i. /\ [table EXCEPT ![Ws(t)] = NoTable] \in [Workspaces -> TableType]
      /\ [table EXCEPT ![Ws(t)] = [mode |-> task[t].mode, redirect |-> FALSE]]
           \in [Workspaces -> TableType]
      /\ [table EXCEPT ![Ws(t)] = [mode |-> task[t].mode, redirect |-> task[t].goal = "on"]]
           \in [Workspaces -> TableType]
      /\ Ws(t) \in Workspaces =>
           [table EXCEPT ![Ws(t)] = [mode |-> services[Ws(t)], redirect |-> task[t].goal = "on"]]
             \in [Workspaces -> TableType]
  <2>1. \A m \in AllModes \cup {"none"}, r \in BOOLEAN :
          [mode |-> m, redirect |-> r] \in TableType
    BY DEF TableType
  <2>2. (task[t].goal = "on") \in BOOLEAN /\ FALSE \in BOOLEAN
    OBVIOUS
  <2>3. Ws(t) \in Workspaces => services[Ws(t)] \in AllModes \cup {"none"}
    BY <1>c DEF TypeOK
  <2>4. \A r \in TableType : [table EXCEPT ![Ws(t)] = r] \in [Workspaces -> TableType]
    BY OneEntry, <1>c DEF TypeOK
  <2>5. NoTable \in TableType
    BY <2>1, <2>2 DEF NoTable
  <2>. QED  BY <2>1, <2>2, <2>3, <2>4, <2>5, <1>0
<1>1. CASE AttachExisting(t)
  BY <1>1, <1>0, <1>a, <1>b, <1>c, <1>e, <1>f, <1>g, <1>h, <1>i DEF AttachExisting, TypeOK,
      GuardType, Kinds, Holding, Depth, At, Ws, locks, books, proxy, rows, kernel, life
<1>2. CASE AttachBuild(t)
  BY <1>2, <1>0, <1>a, <1>b, <1>c, <1>e, <1>f, <1>g, <1>h, <1>i DEF AttachBuild, GoTo,
      TypeOK, GuardType, Kinds, Holding, Depth, At, Ws, locks, books, proxy, rows, kernel,
      life
<1>3. CASE ClaimRecorded(t)
  BY <1>3, <1>0, <1>a, <1>b, <1>c, <1>e, <1>f, <1>g, <1>h, <1>i DEF ClaimRecorded, BuildOn,
      Take, TypeOK, GuardType, Kinds, Holding, Depth, At, Ws, locks, books, proxy, rows,
      kernel, life
<1>4. CASE ClaimFresh(t)
  BY <1>4, <1>0, <1>a, <1>b, <1>c, <1>e, <1>f, <1>g, <1>h, <1>i DEF ClaimFresh, Take,
      TypeOK, GuardType, Kinds, Holding, Depth, At, Ws, locks, books, proxy, rows, kernel,
      life
<1>5. CASE ClaimRefused(t)
  BY <1>5, <1>0, <1>a, <1>b, <1>c, <1>e, <1>f, <1>g, <1>h, <1>i DEF ClaimRefused, TypeOK,
      GuardType, Kinds, Holding, Depth, At, Ws, locks, books, proxy, rows, kernel, life
<1>6. CASE RecordSlice(t)
  <2>1. recorded' \in [Workspaces -> Slices \cup {NoSlice}]
    BY <1>6, <1>0, <1>c DEF RecordSlice, TypeOK
  <2>2. used' \subseteq Slices /\ bound' \subseteq Workspaces
    BY <1>6, <1>0, <1>c DEF RecordSlice, BuildOn, TypeOK, Ws, At
  <2>3. faults' \subseteq Kinds /\ restarts' \in 0..MaxFaults
    BY <1>6, <1>h, <1>c DEF RecordSlice, BuildOn, TypeOK, Kinds, life
  <2>. QED  BY <1>6, <2>1, <2>2, <2>3, <1>b, <1>c
         DEF RecordSlice, TypeOK, Kinds, locks, books, proxy, kernel
<1>7. CASE RecordFails(t)
  BY <1>7, <1>0, <1>a, <1>b, <1>c, <1>e, <1>f, <1>g, <1>h, <1>i DEF RecordFails, TypeOK,
      GuardType, Kinds, Holding, Depth, At, Ws, locks, books, proxy, rows, kernel, life
<1>8. CASE MakeTap(t)
  BY <1>8, <1>0, <1>a, <1>b, <1>c, <1>e, <1>f, <1>g, <1>h, <1>i DEF MakeTap, GoTo, Unwind,
      TypeOK, GuardType, Kinds, Holding, Depth, At, Ws, locks, books, proxy, rows, kernel,
      life
<1>9. CASE InstallTable(t)
  BY <1>9, <1>0, <1>a, <1>b, <1>c, <1>e, <1>f, <1>g, <1>h, <1>i DEF InstallTable, GoTo,
      Unwind, TypeOK, GuardType, Kinds, Holding, Depth, At, Ws, locks, books, proxy, rows,
      kernel, life
<1>10. CASE StartServices(t)
  BY <1>10, <1>0, <1>a, <1>b, <1>c, <1>e, <1>f, <1>g, <1>h, <1>i DEF StartServices, GoTo,
      Unwind, TypeOK, GuardType, Kinds, Holding, Depth, At, Ws, locks, books, proxy, rows,
      kernel, life
<1>11. CASE PublishAttachment(t)
  BY <1>11, <1>0, <1>a, <1>b, <1>c, <1>e, <1>f, <1>g, <1>h, <1>i DEF PublishAttachment,
      GoTo, TypeOK, GuardType, Kinds, Holding, Depth, At, Ws, locks, books, proxy, rows,
      kernel, life
<1>12. CASE ReplayVerdicts(t)
  BY <1>12, <1>0, <1>a, <1>b, <1>c, <1>e, <1>f, <1>g, <1>h, <1>i DEF ReplayVerdicts, GoTo,
      Unwind, TypeOK, GuardType, Kinds, Holding, Depth, At, Ws, locks, books, proxy, rows,
      kernel, life
<1>13. CASE UnwindServices(t)
  BY <1>13, <1>0, <1>a, <1>b, <1>c, <1>e, <1>f, <1>g, <1>h, <1>i DEF UnwindServices, GoTo,
      TypeOK, GuardType, Kinds, Holding, Depth, At, Ws, locks, books, proxy, rows, kernel,
      life
<1>14. CASE DetachNothing(t)
  BY <1>14, <1>0, <1>a, <1>b, <1>c, <1>e, <1>f, <1>g, <1>h, <1>i DEF DetachNothing, TypeOK,
      GuardType, Kinds, Holding, Depth, At, Ws, locks, books, proxy, rows, kernel, life
<1>15. CASE DetachPop(t)
  BY <1>15, <1>0, <1>a, <1>b, <1>c, <1>e, <1>f, <1>g, <1>h, <1>i DEF DetachPop, Take,
      TypeOK, GuardType, Kinds, Holding, Depth, At, Ws, locks, books, proxy, rows, kernel,
      life
<1>16. CASE StopConsent(t)
  BY <1>16, <1>0, <1>a, <1>b, <1>c, <1>e, <1>f, <1>g, <1>h, <1>i DEF StopConsent, GoTo,
      TypeOK, GuardType, Kinds, Holding, Depth, At, Ws, locks, books, proxy, rows, kernel,
      life
<1>17. CASE UndoLock(t)
  BY <1>17, <1>0, <1>a, <1>b, <1>c, <1>e, <1>f, <1>g, <1>h, <1>i DEF UndoLock, GoTo,
      TypeOK, GuardType, Kinds, Holding, Depth, At, Ws, locks, books, proxy, rows, kernel,
      life
<1>18. CASE Unlisten(t)
  BY <1>18, <1>0, <1>a, <1>b, <1>c, <1>e, <1>f, <1>g, <1>h, <1>i DEF Unlisten, GoTo,
      TypeOK, GuardType, Kinds, Holding, Depth, At, Ws, locks, books, proxy, rows, kernel,
      life
<1>19. CASE DeleteTable(t)
  BY <1>19, <1>0, <1>a, <1>b, <1>c, <1>e, <1>f, <1>g, <1>h, <1>i DEF DeleteTable, GoTo,
      TypeOK, GuardType, Kinds, Holding, Depth, At, Ws, locks, books, proxy, rows, kernel,
      life
<1>20. CASE RemoveTap(t)
  BY <1>20, <1>0, <1>a, <1>b, <1>c, <1>e, <1>f, <1>g, <1>h, <1>i DEF RemoveTap, TypeOK,
      GuardType, Kinds, Holding, Depth, At, Ws, locks, books, proxy, rows, kernel, life
<1>21. CASE SwitchAbsent(t)
  BY <1>21, <1>0, <1>a, <1>b, <1>c, <1>e, <1>f, <1>g, <1>h, <1>i DEF SwitchAbsent, TypeOK,
      GuardType, Kinds, Holding, Depth, At, Ws, locks, books, proxy, rows, kernel, life
<1>22. CASE SwitchEnter(t)
  BY <1>22, <1>0, <1>a, <1>b, <1>c, <1>e, <1>f, <1>g, <1>h, <1>i DEF SwitchEnter, GoTo,
      TypeOK, GuardType, Kinds, Holding, Depth, At, Ws, locks, books, proxy, rows, kernel,
      life
<1>23. CASE SwitchBind(t)
  BY <1>23, <1>0, <1>a, <1>b, <1>c, <1>e, <1>f, <1>g, <1>h, <1>i DEF SwitchBind, Fresh,
      Aim, TypeOK, GuardType, Kinds, Holding, Depth, At, Ws, locks, books, proxy, rows,
      kernel, life
<1>24. CASE SwitchInstall(t)
  BY <1>24, <1>0, <1>a, <1>b, <1>c, <1>e, <1>f, <1>g, <1>h, <1>i DEF SwitchInstall, Fresh,
      GoTo, TypeOK, GuardType, Kinds, Holding, Depth, At, Ws, locks, books, proxy, rows,
      kernel, life
<1>25. CASE SwitchCommit(t)
  BY <1>25, <1>0, <1>a, <1>b, <1>c, <1>e, <1>f, <1>g, <1>h, <1>i DEF SwitchCommit, GoTo,
      TypeOK, GuardType, Kinds, Holding, Depth, At, Ws, locks, books, proxy, rows, kernel,
      life
<1>26. CASE SwitchPin(t)
  BY <1>26, <1>0, <1>a, <1>b, <1>c, <1>e, <1>f, <1>g, <1>h, <1>i DEF SwitchPin, TypeOK,
      GuardType, Kinds, Holding, Depth, At, Ws, locks, books, proxy, rows, kernel, life
<1>27. CASE LockInterceptor(t)
  BY <1>27, <1>0, <1>a, <1>b, <1>c, <1>e, <1>f, <1>g, <1>h, <1>i DEF LockInterceptor, GoTo,
      TypeOK, GuardType, Kinds, Holding, Depth, At, Ws, locks, books, proxy, rows, kernel,
      life
<1>28. CASE ReadRows(t)
  BY <1>28, <1>0, <1>a, <1>b, <1>c, <1>e, <1>f, <1>g, <1>h, <1>i DEF ReadRows, Done,
      Raise, Unwind, RefreshFault, Fault, GoTo, Aim, TypeOK, GuardType, Kinds,
      Holding, Depth, At, Ws, locks, books, proxy, rows,
      kernel, life
<1>29. CASE Arm(t)
  BY <1>29, <1>0, <1>a, <1>b, <1>c, <1>e, <1>f, <1>g, <1>h, <1>i DEF Arm, Aim,
      RefreshFault, Raise, Unwind, GoTo, TypeOK, GuardType, Kinds, Holding, Depth, At, Ws,
      locks, books, proxy, rows, kernel, life
<1>30. CASE ApplyModes(t)
  BY <1>30, <1>0, <1>a, <1>b, <1>c, <1>e, <1>f, <1>g, <1>h, <1>i DEF ApplyModes, GoTo,
      RefreshFault, RollBack, Aim, Raise, Unwind, TypeOK, GuardType, Kinds, Holding, Depth,
      At, Ws, locks, books, proxy, rows, kernel, life
<1>31. CASE SwapEnter(t)
  BY <1>31, <1>0, <1>a, <1>b, <1>c, <1>e, <1>f, <1>g, <1>h, <1>i DEF SwapEnter, GoTo,
      TypeOK, GuardType, Kinds, Holding, Depth, At, Ws, locks, books, proxy, rows, kernel,
      life
<1>32. CASE SwapAbsent(t)
  BY <1>32, <1>0, <1>a, <1>b, <1>c, <1>e, <1>f, <1>g, <1>h, <1>i DEF SwapAbsent, Raise,
      Unwind, Done, GoTo, TypeOK, GuardType, Kinds, Holding, Depth, At, Ws, locks, books,
      proxy, rows, kernel, life
<1>33. CASE SwapInstall(t)
  <2>0. Ws(t) \in Workspaces /\ Holding(t)
    BY <1>33, <1>0 DEF SwapInstall, Holding, At
  <2>1. guard' \in [Workspaces -> GuardType]
    BY <1>33, <2>0, <1>e, <1>g DEF SwapInstall
  <2>2. table' \in [Workspaces -> TableType]
    BY <1>33, <2>0, <1>i, <1>c DEF SwapInstall, TypeOK
  <2>3. lock' \in Tasks \cup {Nobody} /\ used' \subseteq Slices /\ armed' \subseteq Workspaces
    BY <1>33, <1>c DEF SwapInstall, Raise, Unwind, Done, RollBack, TypeOK
  <2>4. faults' \subseteq Kinds /\ restarts' \in 0..MaxFaults
    BY <1>33, <1>h, <1>c DEF SwapInstall, RefreshFault, TypeOK, Kinds, life
  <2>. QED  BY <1>33, <2>1, <2>2, <2>3, <2>4, <1>b, <1>c
         DEF SwapInstall, TypeOK, GuardType, Kinds, books, rows
<1>. QED
  BY <1>1, <1>2, <1>3, <1>4, <1>5, <1>6, <1>7, <1>8, <1>9, <1>10, <1>11, <1>12,
     <1>13, <1>14, <1>15, <1>16, <1>17, <1>18, <1>19, <1>20, <1>21, <1>22, <1>23, <1>24,
     <1>25, <1>26, <1>27, <1>28, <1>29, <1>30, <1>31, <1>32, <1>33
  DEF Step, AttachStep, DetachStep, SwitchStep, RefreshStep

-------------------------------------------------------------------------------
\* The fields of a call's record after each way it moves on.
Moves(t) ==
  /\ \A pc : GoTo(t, pc) =>
       /\ task'[t].pc = pc /\ task'[t].op = task[t].op
       /\ task'[t].ws = task[t].ws /\ task'[t].mode = task[t].mode
       /\ task'[t].slice = task[t].slice /\ task'[t].goal = task[t].goal
  /\ \A pc, s : Take(t, pc, s) =>
       /\ task'[t].pc = pc /\ task'[t].op = task[t].op
       /\ task'[t].ws = task[t].ws /\ task'[t].mode = task[t].mode
       /\ task'[t].slice = s /\ task'[t].goal = task[t].goal
  /\ \A pc, goal : Aim(t, pc, goal) =>
       /\ task'[t].pc = pc /\ task'[t].op = task[t].op
       /\ task'[t].ws = task[t].ws /\ task'[t].mode = task[t].mode
       /\ task'[t].slice = task[t].slice /\ task'[t].goal = goal
  /\ task' = [task EXCEPT ![t] = IdleTask] =>
       /\ task'[t].pc = "idle" /\ task'[t].op = "none" /\ task'[t].ws = Nobody

\* Each way of moving on changes the fields it names and keeps the others.
LEMMA HaveMoves ==
  ASSUME task \in [Tasks -> TaskType], NEW t \in Tasks
  PROVE  Moves(t)
<1>1. task[t] \in TaskType
  OBVIOUS
<1>2. ASSUME NEW pc, NEW s, Take(t, pc, s)
      PROVE  /\ task'[t].pc = pc /\ task'[t].op = task[t].op
             /\ task'[t].ws = task[t].ws /\ task'[t].mode = task[t].mode
             /\ task'[t].slice = s /\ task'[t].goal = task[t].goal
  BY <1>1, <1>2 DEF Take, TaskType
<1>3. ASSUME NEW pc, NEW goal, Aim(t, pc, goal)
      PROVE  /\ task'[t].pc = pc /\ task'[t].op = task[t].op
             /\ task'[t].ws = task[t].ws /\ task'[t].mode = task[t].mode
             /\ task'[t].slice = task[t].slice /\ task'[t].goal = goal
  BY <1>1, <1>3 DEF Aim, TaskType
<1>4. ASSUME NEW pc, GoTo(t, pc)
      PROVE  /\ task'[t].pc = pc /\ task'[t].op = task[t].op
             /\ task'[t].ws = task[t].ws /\ task'[t].mode = task[t].mode
             /\ task'[t].slice = task[t].slice /\ task'[t].goal = task[t].goal
  BY <1>1, <1>4 DEF GoTo, TaskType
<1>5. task' = [task EXCEPT ![t] = IdleTask] =>
        task'[t].pc = "idle" /\ task'[t].op = "none" /\ task'[t].ws = Nobody
  BY DEF IdleTask
<1>. QED  BY <1>2, <1>3, <1>4, <1>5 DEF Moves

\* A call stays where a call of its kind may stand.
LEMMA FitsKept ==
  ASSUME TypeOK, NEW t \in Tasks, Fits(t), Step(t)
  PROVE  Fits(t)'
<1>0. /\ Moves(t) /\ task[t] \in TaskType
      /\ recorded[Ws(t)] \in Slices \cup {NoSlice} \/ Ws(t) \notin Workspaces
      /\ attached[Ws(t)] \in Slices \cup {NoSlice} \/ Ws(t) \notin Workspaces
  BY HaveMoves DEF TypeOK
<1>a. Fits(t)
  OBVIOUS
<1>1. CASE AttachExisting(t)
  BY <1>1, <1>0, <1>a DEF AttachExisting, Fits, Moves, TaskType, ClaimPcs, UndoPcs,
      SwitchPcs, RefreshPcs, At, Ws
<1>2. CASE AttachBuild(t)
  BY <1>2, <1>0, <1>a DEF AttachBuild, Enter, Fits, Moves, TaskType, ClaimPcs, UndoPcs,
      SwitchPcs, RefreshPcs, At, Ws
<1>3. CASE ClaimRecorded(t)
  BY <1>3, <1>0, <1>a DEF ClaimRecorded, BuildOn, Fits, Moves, TaskType, ClaimPcs, UndoPcs,
      SwitchPcs, RefreshPcs, At, Ws
<1>4. CASE ClaimFresh(t)
  BY <1>4, <1>0, <1>a DEF ClaimFresh, Fits, Moves, TaskType, ClaimPcs, UndoPcs, SwitchPcs,
      RefreshPcs, At, Ws
<1>5. CASE ClaimRefused(t)
  BY <1>5, <1>0, <1>a DEF ClaimRefused, Return, Fits, Moves, TaskType, ClaimPcs, UndoPcs,
      SwitchPcs, RefreshPcs, At, Ws
<1>6. CASE RecordSlice(t)
  BY <1>6, <1>0, <1>a DEF RecordSlice, BuildOn, Fits, Moves, TaskType, ClaimPcs, UndoPcs,
      SwitchPcs, RefreshPcs, At, Ws
<1>7. CASE RecordFails(t)
  BY <1>7, <1>0, <1>a DEF RecordFails, Return, Fits, Moves, TaskType, ClaimPcs, UndoPcs,
      SwitchPcs, RefreshPcs, At, Ws
<1>8. CASE MakeTap(t)
  BY <1>8, <1>0, <1>a DEF MakeTap, Unwind, Fits, Moves, TaskType, ClaimPcs, UndoPcs,
      SwitchPcs, RefreshPcs, At, Ws
<1>9. CASE InstallTable(t)
  BY <1>9, <1>0, <1>a DEF InstallTable, Unwind, Fits, Moves, TaskType, ClaimPcs, UndoPcs,
      SwitchPcs, RefreshPcs, At, Ws
<1>10. CASE StartServices(t)
  BY <1>10, <1>0, <1>a DEF StartServices, Unwind, Fits, Moves, TaskType, ClaimPcs, UndoPcs,
      SwitchPcs, RefreshPcs, At, Ws
<1>11. CASE PublishAttachment(t)
  BY <1>11, <1>0, <1>a DEF PublishAttachment, Fits, Moves, TaskType, ClaimPcs, UndoPcs,
      SwitchPcs, RefreshPcs, At, Ws
<1>12. CASE ReplayVerdicts(t)
  BY <1>12, <1>0, <1>a DEF ReplayVerdicts, Unwind, Fits, Moves, TaskType, ClaimPcs,
      UndoPcs, SwitchPcs, RefreshPcs, At, Ws
<1>13. CASE UnwindServices(t)
  BY <1>13, <1>0, <1>a DEF UnwindServices, Fits, Moves, TaskType, ClaimPcs, UndoPcs,
      SwitchPcs, RefreshPcs, At, Ws
<1>14. CASE DetachNothing(t)
  BY <1>14, <1>0, <1>a DEF DetachNothing, Fits, Moves, TaskType, ClaimPcs, UndoPcs,
      SwitchPcs, RefreshPcs, At, Ws
<1>15. CASE DetachPop(t)
  BY <1>15, <1>0, <1>a DEF DetachPop, Enter, Fits, Moves, TaskType, ClaimPcs, UndoPcs,
      SwitchPcs, RefreshPcs, At, Ws
<1>16. CASE StopConsent(t)
  BY <1>16, <1>0, <1>a DEF StopConsent, Return, Fits, Moves, TaskType, ClaimPcs, UndoPcs,
      SwitchPcs, RefreshPcs, At, Ws
<1>17. CASE UndoLock(t)
  BY <1>17, <1>0, <1>a DEF UndoLock, Fits, Moves, TaskType, ClaimPcs, UndoPcs, SwitchPcs,
      RefreshPcs, At, Ws
<1>18. CASE Unlisten(t)
  BY <1>18, <1>0, <1>a DEF Unlisten, Return, Fits, Moves, TaskType, ClaimPcs, UndoPcs,
      SwitchPcs, RefreshPcs, At, Ws
<1>19. CASE DeleteTable(t)
  BY <1>19, <1>0, <1>a DEF DeleteTable, Return, Fits, Moves, TaskType, ClaimPcs, UndoPcs,
      SwitchPcs, RefreshPcs, At, Ws
<1>20. CASE RemoveTap(t)
  BY <1>20, <1>0, <1>a DEF RemoveTap, Return, Fits, Moves, TaskType, ClaimPcs, UndoPcs,
      SwitchPcs, RefreshPcs, At, Ws
<1>21. CASE SwitchAbsent(t)
  BY <1>21, <1>0, <1>a DEF SwitchAbsent, Fits, Moves, TaskType, ClaimPcs, UndoPcs,
      SwitchPcs, RefreshPcs, At, Ws
<1>22. CASE SwitchEnter(t)
  BY <1>22, <1>0, <1>a DEF SwitchEnter, Enter, Fits, Moves, TaskType, ClaimPcs, UndoPcs,
      SwitchPcs, RefreshPcs, At, Ws
<1>23. CASE SwitchBind(t)
  BY <1>23, <1>0, <1>a DEF SwitchBind, Fresh, Return, Fits, Moves, TaskType, ClaimPcs,
      UndoPcs, SwitchPcs, RefreshPcs, At, Ws
<1>24. CASE SwitchInstall(t)
  BY <1>24, <1>0, <1>a DEF SwitchInstall, Fresh, Return, Fits, Moves, TaskType, ClaimPcs,
      UndoPcs, SwitchPcs, RefreshPcs, At, Ws
<1>25. CASE SwitchCommit(t)
  BY <1>25, <1>0, <1>a DEF SwitchCommit, Return, Fits, Moves, TaskType, ClaimPcs, UndoPcs,
      SwitchPcs, RefreshPcs, At, Ws
<1>26. CASE SwitchPin(t)
  BY <1>26, <1>0, <1>a DEF SwitchPin, Return, Fits, Moves, TaskType, ClaimPcs, UndoPcs,
      SwitchPcs, RefreshPcs, At, Ws
<1>27. CASE LockInterceptor(t)
  BY <1>27, <1>0, <1>a DEF LockInterceptor, Fits, Moves, TaskType, ClaimPcs, UndoPcs,
      SwitchPcs, RefreshPcs, At, Ws
<1>28. CASE ReadRows(t)
  BY <1>28, <1>0, <1>a DEF ReadRows, Done, Raise, Unwind, RefreshFault, Fault, Fits,
      Moves, TaskType, ClaimPcs, UndoPcs, SwitchPcs, RefreshPcs, At, Ws
<1>29. CASE Arm(t)
  BY <1>29, <1>0, <1>a DEF Arm, RefreshFault, Raise, Unwind, Fits, Moves, TaskType,
      ClaimPcs, UndoPcs, SwitchPcs, RefreshPcs, At, Ws
<1>30. CASE ApplyModes(t)
  BY <1>30, <1>0, <1>a DEF ApplyModes, RefreshFault, RollBack, Raise, Unwind, Fits, Moves,
      TaskType, ClaimPcs, UndoPcs, SwitchPcs, RefreshPcs, At, Ws
<1>31. CASE SwapEnter(t)
  BY <1>31, <1>0, <1>a DEF SwapEnter, Enter, Fits, Moves, TaskType, ClaimPcs, UndoPcs,
      SwitchPcs, RefreshPcs, At, Ws
<1>32. CASE SwapAbsent(t)
  BY <1>32, <1>0, <1>a DEF SwapAbsent, Raise, Unwind, Done, Fits, Moves, TaskType,
      ClaimPcs, UndoPcs, SwitchPcs, RefreshPcs, At, Ws
<1>33. CASE SwapInstall(t)
  BY <1>33, <1>0, <1>a DEF SwapInstall, Raise, Unwind, Done, Exit, RefreshFault, RollBack,
      Fits, Moves, TaskType, ClaimPcs, UndoPcs, SwitchPcs, RefreshPcs, At, Ws
<1>. QED
  BY <1>1, <1>2, <1>3, <1>4, <1>5, <1>6, <1>7, <1>8, <1>9, <1>10, <1>11, <1>12,
     <1>13, <1>14, <1>15, <1>16, <1>17, <1>18, <1>19, <1>20, <1>21, <1>22, <1>23, <1>24,
     <1>25, <1>26, <1>27, <1>28, <1>29, <1>30, <1>31, <1>32, <1>33
  DEF Step, AttachStep, DetachStep, SwitchStep, RefreshStep

\* The guard of a call's workspace after its step: as it was, entered, left or
\* freed, with the call's place to match.
GuardStep(t) ==
  LET w == Ws(t) IN
  \/ guard'[w] = guard[w] /\ task'[t].ws = w /\ (Holding(t)' <=> Holding(t)) /\ Depth(t)' = Depth(t)
  \/ /\ guard[w].by \in {Nobody, t} /\ task'[t].ws = w /\ Holding(t)'
     /\ guard'[w] = [by |-> t, depth |-> Depth(t)']
  \/ guard'[w] = guard[w] /\ ~Holding(t) /\ ~Holding(t)'
  \/ Holding(t) /\ guard'[w] = FreeGuard /\ ~Holding(t)'

\* What a step makes of the guard: nothing, an entry, a step out or its release,
\* always with the call's place to match.
LEMMA GuardSteps ==
  ASSUME NetAssumption, TypeOK, NEW t \in Tasks, Fits(t), Guarded(t),
         Ws(t) \in Workspaces, GuardMeans(Ws(t)), Staged(t), Step(t)
  PROVE  GuardStep(t)
<1>0. /\ Moves(t) /\ Domains
      /\ task[t].op = "refresh" => task[t].pc \in RefreshPcs
      /\ task[t].pc \in RefreshPcs => task[t].op \in {"attach", "refresh"}
      /\ task[t].op # "attach" => task[t].pc # "unwind"
  BY HaveMoves, HaveDomains DEF TypeOK, Fits, UndoPcs, SwitchPcs, RefreshPcs, TaskType
<1>b. task[t].op = "attach" /\ task[t].pc \in RefreshPcs =>
        attached[Ws(t)] # NoSlice /\ services[Ws(t)] # "none"
  BY DEF Staged, Attached
<1>a. /\ ~Holding(t) => guard[Ws(t)].by # t
      /\ Holding(t) => guard[Ws(t)] = [by |-> t, depth |-> Depth(t)]
      /\ guard[Ws(t)].by = Nobody => guard[Ws(t)] = FreeGuard
      /\ Nobody \notin Tasks /\ Ws(t) \in Workspaces
  BY DEF Guarded, GuardMeans, NetAssumption
<1>1. CASE AttachExisting(t)
  BY <1>1, <1>0, <1>a, <1>b DEF AttachExisting, GuardStep, Holding, Depth, Domains,
      FreeGuard, RefreshPcs, Moves, At, Ws, locks
<1>2. CASE AttachBuild(t)
  BY <1>2, <1>0, <1>a, <1>b DEF AttachBuild, Enter, GuardStep, Holding, Depth, Domains,
      FreeGuard, RefreshPcs, Moves, At, Ws, locks
<1>3. CASE ClaimRecorded(t)
  BY <1>3, <1>0, <1>a, <1>b DEF ClaimRecorded, BuildOn, GuardStep, Holding, Depth, Domains,
      FreeGuard, RefreshPcs, Moves, At, Ws, locks
<1>4. CASE ClaimFresh(t)
  BY <1>4, <1>0, <1>a, <1>b DEF ClaimFresh, GuardStep, Holding, Depth, Domains, FreeGuard,
      RefreshPcs, Moves, At, Ws, locks
<1>5. CASE ClaimRefused(t)
  BY <1>5, <1>0, <1>a, <1>b DEF ClaimRefused, Return, GuardStep, Holding, Depth, Domains,
      FreeGuard, RefreshPcs, Moves, At, Ws, locks
<1>6. CASE RecordSlice(t)
  BY <1>6, <1>0, <1>a, <1>b DEF RecordSlice, BuildOn, GuardStep, Holding, Depth, Domains,
      FreeGuard, RefreshPcs, Moves, At, Ws, locks
<1>7. CASE RecordFails(t)
  BY <1>7, <1>0, <1>a, <1>b DEF RecordFails, Return, GuardStep, Holding, Depth, Domains,
      FreeGuard, RefreshPcs, Moves, At, Ws, locks
<1>8. CASE MakeTap(t)
  BY <1>8, <1>0, <1>a, <1>b DEF MakeTap, Unwind, GuardStep, Holding, Depth, Domains,
      FreeGuard, RefreshPcs, Moves, At, Ws, locks
<1>9. CASE InstallTable(t)
  BY <1>9, <1>0, <1>a, <1>b DEF InstallTable, Unwind, GuardStep, Holding, Depth, Domains,
      FreeGuard, RefreshPcs, Moves, At, Ws, locks
<1>10. CASE StartServices(t)
  BY <1>10, <1>0, <1>a, <1>b DEF StartServices, Unwind, GuardStep, Holding, Depth, Domains,
      FreeGuard, RefreshPcs, Moves, At, Ws, locks
<1>11. CASE PublishAttachment(t)
  BY <1>11, <1>0, <1>a, <1>b DEF PublishAttachment, GuardStep, Holding, Depth, Domains,
      FreeGuard, RefreshPcs, Moves, At, Ws, locks
<1>12. CASE ReplayVerdicts(t)
  BY <1>12, <1>0, <1>a, <1>b DEF ReplayVerdicts, Unwind, GuardStep, Holding, Depth,
      Domains, FreeGuard, RefreshPcs, Moves, At, Ws, locks
<1>13. CASE UnwindServices(t)
  BY <1>13, <1>0, <1>a, <1>b DEF UnwindServices, GuardStep, Holding, Depth, Domains,
      FreeGuard, RefreshPcs, Moves, At, Ws, locks
<1>14. CASE DetachNothing(t)
  BY <1>14, <1>0, <1>a, <1>b DEF DetachNothing, GuardStep, Holding, Depth, Domains,
      FreeGuard, RefreshPcs, Moves, At, Ws, locks
<1>15. CASE DetachPop(t)
  BY <1>15, <1>0, <1>a, <1>b DEF DetachPop, Enter, GuardStep, Holding, Depth, Domains,
      FreeGuard, RefreshPcs, Moves, At, Ws, locks
<1>16. CASE StopConsent(t)
  BY <1>16, <1>0, <1>a, <1>b DEF StopConsent, Return, GuardStep, Holding, Depth, Domains,
      FreeGuard, RefreshPcs, Moves, At, Ws, locks
<1>17. CASE UndoLock(t)
  BY <1>17, <1>0, <1>a, <1>b DEF UndoLock, GuardStep, Holding, Depth, Domains, FreeGuard,
      RefreshPcs, Moves, At, Ws, locks
<1>18. CASE Unlisten(t)
  BY <1>18, <1>0, <1>a, <1>b DEF Unlisten, Return, GuardStep, Holding, Depth, Domains,
      FreeGuard, RefreshPcs, Moves, At, Ws, locks
<1>19. CASE DeleteTable(t)
  BY <1>19, <1>0, <1>a, <1>b DEF DeleteTable, Return, GuardStep, Holding, Depth, Domains,
      FreeGuard, RefreshPcs, Moves, At, Ws, locks
<1>20. CASE RemoveTap(t)
  BY <1>20, <1>0, <1>a, <1>b DEF RemoveTap, Return, GuardStep, Holding, Depth, Domains,
      FreeGuard, RefreshPcs, Moves, At, Ws, locks
<1>21. CASE SwitchAbsent(t)
  BY <1>21, <1>0, <1>a, <1>b DEF SwitchAbsent, GuardStep, Holding, Depth, Domains,
      FreeGuard, RefreshPcs, Moves, At, Ws, locks
<1>22. CASE SwitchEnter(t)
  BY <1>22, <1>0, <1>a, <1>b DEF SwitchEnter, Enter, GuardStep, Holding, Depth, Domains,
      FreeGuard, RefreshPcs, Moves, At, Ws, locks
<1>23. CASE SwitchBind(t)
  BY <1>23, <1>0, <1>a, <1>b DEF SwitchBind, Fresh, Return, GuardStep, Holding, Depth,
      Domains, FreeGuard, RefreshPcs, Moves, At, Ws, locks
<1>24. CASE SwitchInstall(t)
  BY <1>24, <1>0, <1>a, <1>b DEF SwitchInstall, Fresh, Return, GuardStep, Holding, Depth,
      Domains, FreeGuard, RefreshPcs, Moves, At, Ws, locks
<1>25. CASE SwitchCommit(t)
  BY <1>25, <1>0, <1>a, <1>b DEF SwitchCommit, Return, GuardStep, Holding, Depth, Domains,
      FreeGuard, RefreshPcs, Moves, At, Ws, locks
<1>26. CASE SwitchPin(t)
  BY <1>26, <1>0, <1>a, <1>b DEF SwitchPin, Return, GuardStep, Holding, Depth, Domains,
      FreeGuard, RefreshPcs, Moves, At, Ws, locks
<1>27. CASE LockInterceptor(t)
  BY <1>27, <1>0, <1>a, <1>b DEF LockInterceptor, GuardStep, Holding, Depth, Domains,
      FreeGuard, RefreshPcs, Moves, At, Ws, locks
<1>28. CASE ReadRows(t)
  BY <1>28, <1>0, <1>a, <1>b DEF ReadRows, Done, Raise, Unwind, RefreshFault, Fault,
      GuardStep, Holding, Depth, Domains, FreeGuard, RefreshPcs, Moves, At, Ws, locks
<1>29. CASE Arm(t)
  BY <1>29, <1>0, <1>a, <1>b DEF Arm, RefreshFault, Raise, Unwind, GuardStep, Holding,
      Depth, Domains, FreeGuard, RefreshPcs, Moves, At, Ws, locks
<1>30. CASE ApplyModes(t)
  BY <1>30, <1>0, <1>a, <1>b DEF ApplyModes, RefreshFault, RollBack, Raise, Unwind,
      GuardStep, Holding, Depth, Domains, FreeGuard, RefreshPcs, Moves, At, Ws, locks
<1>31. CASE SwapEnter(t)
  BY <1>31, <1>0, <1>a, <1>b DEF SwapEnter, Enter, GuardStep, Holding, Depth, Domains,
      FreeGuard, RefreshPcs, Moves, At, Ws, locks
<1>32. CASE SwapAbsent(t)
  BY <1>32, <1>0, <1>a, <1>b DEF SwapAbsent, Raise, Unwind, Done, GuardStep, Holding,
      Depth, Domains, FreeGuard, RefreshPcs, Moves, At, Ws, locks
<1>33. CASE SwapInstall(t)
  BY <1>33, <1>0, <1>a, <1>b DEF SwapInstall, Raise, Unwind, Done, Exit, RefreshFault,
      RollBack, GuardStep, Holding, Depth, Domains, FreeGuard, RefreshPcs, Moves, At, Ws,
      locks
<1>. QED
  BY <1>1, <1>2, <1>3, <1>4, <1>5, <1>6, <1>7, <1>8, <1>9, <1>10, <1>11, <1>12,
     <1>13, <1>14, <1>15, <1>16, <1>17, <1>18, <1>19, <1>20, <1>21, <1>22, <1>23, <1>24,
     <1>25, <1>26, <1>27, <1>28, <1>29, <1>30, <1>31, <1>32, <1>33
  DEF Step, AttachStep, DetachStep, SwitchStep, RefreshStep

\* What the call may count on at its next step is its own doing, or stood before.
LEMMA StagedKept ==
  ASSUME NetAssumption, TypeOK, NEW t \in Tasks, Fits(t), Guarded(t), Staged(t),
         Ws(t) \in Workspaces, GuardMeans(Ws(t)), Sound(Ws(t)), Step(t)
  PROVE  Staged(t)'
<1>0. /\ Moves(t) /\ Domains
      /\ task[t].op = "refresh" => task[t].pc \in RefreshPcs
      /\ task[t].op = "attach" => task[t].pc \in
           {"attach", "replay", "unwind"} \cup ClaimPcs \cup UndoPcs \cup RefreshPcs
      /\ task[t].pc \in RefreshPcs => task[t].op \in {"attach", "refresh"}
      /\ task[t].op # "attach" => task[t].pc # "unwind"
      /\ task[t].pc \in ClaimPcs => task[t].op = "attach"
      /\ task[t].pc \in SwitchPcs => task[t].op = "switch"
      /\ task[t].op \in {"attach", "switch"} => task[t].mode \in AllModes
  BY HaveMoves, HaveDomains DEF TypeOK, Fits, ClaimPcs, UndoPcs, SwitchPcs, RefreshPcs, TaskType
<1>a. /\ ~Holding(t) => guard[Ws(t)].by # t
      /\ Holding(t) => guard[Ws(t)].by = t
      /\ Nobody \notin Tasks /\ Ws(t) \in Workspaces
      /\ task[t].pc = "publish" => task[t].slice # NoSlice
  BY DEF Guarded, GuardMeans, NetAssumption, Fits
<1>b. Staged(t) /\ Sound(Ws(t))
  OBVIOUS
<1>1. CASE AttachExisting(t)
  BY <1>1, <1>0, <1>a, <1>b DEF AttachExisting, Staged, Sound, Attached, Never, Holding,
      Domains, AllModes, ClaimPcs, UndoPcs, SwitchPcs, RefreshPcs, Moves, At, Ws, books,
      rows, kernel, life
<1>2. CASE AttachBuild(t)
  BY <1>2, <1>0, <1>a, <1>b DEF AttachBuild, Enter, Staged, Sound, Attached, Never,
      Holding, Domains, AllModes, ClaimPcs, UndoPcs, SwitchPcs, RefreshPcs, Moves, At, Ws,
      books, rows, kernel, life
<1>3. CASE ClaimRecorded(t)
  <2>1. /\ task[t].op = "attach" /\ task[t].pc = "claim"
        /\ task'[t].op = "attach" /\ task'[t].ws = Ws(t) /\ task'[t].mode = task[t].mode
        /\ task'[t].goal = task[t].goal /\ faults \subseteq faults'
        /\ task'[t].pc \in {"tap", "unwind"}
        /\ UNCHANGED <<attached, services, table, recorded, taps>>
        /\ task'[t].pc = "tap" => recorded'[Ws(t)] = task'[t].slice
        /\ task'[t].pc = "tap" /\ task[t].mode = "interactive" => Ws(t) \in bound'
    BY <1>3, <1>0, <1>a, <1>b DEF ClaimRecorded, Moves, Domains, At, Ws, SwitchPcs, UndoPcs,
       RefreshPcs, ClaimPcs, BuildOn, Fault, life, books, rows, kernel
  <2>2. CASE task'[t].pc = "tap"
    BY <2>1, <2>2, <1>b DEF Staged, Attached, ClaimPcs, UndoPcs, SwitchPcs, RefreshPcs, Ws
  <2>3. CASE task'[t].pc = "unwind"
    BY <2>1, <2>3, <1>b DEF Staged, Attached, ClaimPcs, UndoPcs, SwitchPcs, RefreshPcs, Ws
  <2>. QED  BY <2>1, <2>2, <2>3
<1>4. CASE ClaimFresh(t)
  BY <1>4, <1>0, <1>a, <1>b DEF ClaimFresh, Staged, Sound, Attached, Never, Holding,
      Domains, AllModes, ClaimPcs, UndoPcs, SwitchPcs, RefreshPcs, Moves, At, Ws, books,
      rows, kernel, life
<1>5. CASE ClaimRefused(t)
  BY <1>5, <1>0, <1>a, <1>b DEF ClaimRefused, Return, Staged, Sound, Attached, Never,
      Holding, Domains, AllModes, ClaimPcs, UndoPcs, SwitchPcs, RefreshPcs, Moves, At, Ws,
      books, rows, kernel, life
<1>6. CASE RecordSlice(t)
  <2>1. /\ task[t].op = "attach" /\ task[t].pc = "record"
        /\ task'[t].op = "attach" /\ task'[t].ws = Ws(t) /\ task'[t].mode = task[t].mode
        /\ task'[t].goal = task[t].goal /\ faults \subseteq faults'
        /\ task'[t].pc \in {"tap", "unwind"}
        /\ UNCHANGED <<attached, services, table, taps>>
        /\ task'[t].pc = "tap" => recorded'[Ws(t)] = task'[t].slice
        /\ task'[t].pc = "tap" /\ task[t].mode = "interactive" => Ws(t) \in bound'
    BY <1>6, <1>0, <1>a, <1>b DEF RecordSlice, Moves, Domains, At, Ws, SwitchPcs, UndoPcs,
       RefreshPcs, ClaimPcs, BuildOn, Fault, life, books, rows, kernel
  <2>2. CASE task'[t].pc = "tap"
    BY <2>1, <2>2, <1>b DEF Staged, Attached, ClaimPcs, UndoPcs, SwitchPcs, RefreshPcs, Ws
  <2>3. CASE task'[t].pc = "unwind"
    BY <2>1, <2>3, <1>b DEF Staged, Attached, ClaimPcs, UndoPcs, SwitchPcs, RefreshPcs, Ws
  <2>. QED  BY <2>1, <2>2, <2>3
<1>7. CASE RecordFails(t)
  BY <1>7, <1>0, <1>a, <1>b DEF RecordFails, Return, Fault, Staged, Sound, Attached, Never,
      Holding, Domains, AllModes, ClaimPcs, UndoPcs, SwitchPcs, RefreshPcs, Moves, At, Ws,
      books, rows, kernel, life
<1>8. CASE MakeTap(t)
  <2>1. /\ task[t].op = "attach" /\ task[t].pc = "tap"
        /\ task'[t].op = "attach" /\ task'[t].ws = Ws(t) /\ task'[t].mode = task[t].mode
        /\ task'[t].goal = task[t].goal /\ faults \subseteq faults'
        /\ task'[t].pc \in {"table", "unwind"}
        /\ UNCHANGED <<attached, services, table, recorded>>
        /\ task'[t].slice = task[t].slice
        /\ task'[t].pc = "table" => Ws(t) \in taps' /\ bound' = bound
    BY <1>8, <1>0, <1>a, <1>b DEF MakeTap, Moves, Domains, At, Ws, SwitchPcs, UndoPcs,
       RefreshPcs, ClaimPcs, Unwind, Fault, life, books, rows
  <2>2. CASE task'[t].pc = "table"
    BY <2>1, <2>2, <1>b DEF Staged, Attached, ClaimPcs, UndoPcs, SwitchPcs, RefreshPcs, Ws
  <2>3. CASE task'[t].pc = "unwind"
    BY <2>1, <2>3, <1>b DEF Staged, Attached, ClaimPcs, UndoPcs, SwitchPcs, RefreshPcs, Ws
  <2>. QED  BY <2>1, <2>2, <2>3
<1>9. CASE InstallTable(t)
  <2>1. /\ task[t].op = "attach" /\ task[t].pc = "table"
        /\ task'[t].op = "attach" /\ task'[t].ws = Ws(t) /\ task'[t].mode = task[t].mode
        /\ task'[t].goal = task[t].goal /\ faults \subseteq faults'
        /\ task'[t].pc \in {"serve", "unwind"}
        /\ UNCHANGED <<attached, services, recorded, taps>>
        /\ task'[t].slice = task[t].slice
        /\ task'[t].pc = "serve" => table'[Ws(t)].mode = task[t].mode /\ bound' = bound
    BY <1>9, <1>0, <1>a, <1>b DEF InstallTable, Moves, Domains, At, Ws, SwitchPcs, UndoPcs,
       RefreshPcs, ClaimPcs, Unwind, Fault, life, books, rows
  <2>2. CASE task'[t].pc = "serve"
    BY <2>1, <2>2, <1>b DEF Staged, Attached, ClaimPcs, UndoPcs, SwitchPcs, RefreshPcs, Ws
  <2>3. CASE task'[t].pc = "unwind"
    BY <2>1, <2>3, <1>b DEF Staged, Attached, ClaimPcs, UndoPcs, SwitchPcs, RefreshPcs, Ws
  <2>. QED  BY <2>1, <2>2, <2>3
<1>10. CASE StartServices(t)
  <2>1. /\ task[t].op = "attach" /\ task[t].pc = "serve"
        /\ task'[t].op = "attach" /\ task'[t].ws = Ws(t) /\ task'[t].mode = task[t].mode
        /\ task'[t].goal = task[t].goal /\ faults \subseteq faults'
        /\ task'[t].pc \in {"publish", "unwind"}
        /\ UNCHANGED <<attached, table, recorded, taps, bound>>
        /\ task'[t].slice = task[t].slice
        /\ task'[t].pc = "publish" => services'[Ws(t)] = task[t].mode
    BY <1>10, <1>0, <1>a, <1>b DEF StartServices, Moves, Domains, At, Ws, SwitchPcs, UndoPcs,
       RefreshPcs, ClaimPcs, Unwind, Fault, life, rows, kernel
  <2>2. CASE task'[t].pc = "publish"
    BY <2>1, <2>2, <1>b DEF Staged, Attached, ClaimPcs, UndoPcs, SwitchPcs, RefreshPcs, Ws
  <2>3. CASE task'[t].pc = "unwind"
    BY <2>1, <2>3, <1>b DEF Staged, Attached, ClaimPcs, UndoPcs, SwitchPcs, RefreshPcs, Ws
  <2>. QED  BY <2>1, <2>2, <2>3
<1>11. CASE PublishAttachment(t)
  <2>1. /\ task[t].op = "attach" /\ task[t].pc \in ClaimPcs
        /\ task'[t].op = "attach" /\ task'[t].ws = Ws(t) /\ task'[t].mode = task[t].mode
        /\ task'[t].goal = task[t].goal /\ faults \subseteq faults'
        /\ task'[t].pc \in {"replay", "refresh"}
        /\ UNCHANGED <<services, table, recorded, taps, bound>>
        /\ attached'[Ws(t)] # NoSlice /\ services[Ws(t)] # "none"
    BY <1>11, <1>0, <1>a, <1>b DEF PublishAttachment, Moves, Domains, At, Ws, SwitchPcs, UndoPcs,
       RefreshPcs, ClaimPcs, rows, kernel, life, AllModes, Staged
  <2>. QED  BY <2>1, <1>b DEF Staged, Attached, ClaimPcs, UndoPcs, SwitchPcs, RefreshPcs, Ws
<1>12. CASE ReplayVerdicts(t)
  BY <1>12, <1>0, <1>a, <1>b DEF ReplayVerdicts, Unwind, Fault, Staged, Sound, Attached,
      Never, Holding, Domains, AllModes, ClaimPcs, UndoPcs, SwitchPcs, RefreshPcs, Moves,
      At, Ws, books, rows, kernel, life
<1>13. CASE UnwindServices(t)
  BY <1>13, <1>0, <1>a, <1>b DEF UnwindServices, Staged, Sound, Attached, Never, Holding,
      Domains, AllModes, ClaimPcs, UndoPcs, SwitchPcs, RefreshPcs, Moves, At, Ws, books,
      rows, kernel, life
<1>14. CASE DetachNothing(t)
  BY <1>14, <1>0, <1>a, <1>b DEF DetachNothing, Staged, Sound, Attached, Never, Holding,
      Domains, AllModes, ClaimPcs, UndoPcs, SwitchPcs, RefreshPcs, Moves, At, Ws, books,
      rows, kernel, life
<1>15. CASE DetachPop(t)
  BY <1>15, <1>0, <1>a, <1>b DEF DetachPop, Enter, Staged, Sound, Attached, Never, Holding,
      Domains, AllModes, ClaimPcs, UndoPcs, SwitchPcs, RefreshPcs, Moves, At, Ws, books,
      rows, kernel, life
<1>16. CASE StopConsent(t)
  BY <1>16, <1>0, <1>a, <1>b DEF StopConsent, Return, Fault, Staged, Sound, Attached,
      Never, Holding, Domains, AllModes, ClaimPcs, UndoPcs, SwitchPcs, RefreshPcs, Moves,
      At, Ws, books, rows, kernel, life
<1>17. CASE UndoLock(t)
  BY <1>17, <1>0, <1>a, <1>b DEF UndoLock, Staged, Sound, Attached, Never, Holding,
      Domains, AllModes, ClaimPcs, UndoPcs, SwitchPcs, RefreshPcs, Moves, At, Ws, books,
      rows, kernel, life
<1>18. CASE Unlisten(t)
  BY <1>18, <1>0, <1>a, <1>b DEF Unlisten, Return, Fault, Staged, Sound, Attached, Never,
      Holding, Domains, AllModes, ClaimPcs, UndoPcs, SwitchPcs, RefreshPcs, Moves, At, Ws,
      books, rows, kernel, life
<1>19. CASE DeleteTable(t)
  BY <1>19, <1>0, <1>a, <1>b DEF DeleteTable, Return, Fault, Staged, Sound, Attached,
      Never, Holding, Domains, AllModes, ClaimPcs, UndoPcs, SwitchPcs, RefreshPcs, Moves,
      At, Ws, books, rows, kernel, life
<1>20. CASE RemoveTap(t)
  BY <1>20, <1>0, <1>a, <1>b DEF RemoveTap, Return, Fault, Staged, Sound, Attached, Never,
      Holding, Domains, AllModes, ClaimPcs, UndoPcs, SwitchPcs, RefreshPcs, Moves, At, Ws,
      books, rows, kernel, life
<1>21. CASE SwitchAbsent(t)
  BY <1>21, <1>0, <1>a, <1>b DEF SwitchAbsent, Staged, Sound, Attached, Never, Holding,
      Domains, AllModes, ClaimPcs, UndoPcs, SwitchPcs, RefreshPcs, Moves, At, Ws, books,
      rows, kernel, life
<1>22. CASE SwitchEnter(t)
  BY <1>22, <1>0, <1>a, <1>b DEF SwitchEnter, Enter, Staged, Sound, Attached, Never,
      Holding, Domains, AllModes, ClaimPcs, UndoPcs, SwitchPcs, RefreshPcs, Moves, At, Ws,
      books, rows, kernel, life
<1>23. CASE SwitchBind(t)
  BY <1>23, <1>0, <1>a, <1>b DEF SwitchBind, Fresh, Return, Fault, Staged, Sound, Attached,
      Never, Holding, Domains, AllModes, ClaimPcs, UndoPcs, SwitchPcs, RefreshPcs, Moves,
      At, Ws, books, rows, kernel, life
<1>24. CASE SwitchInstall(t)
  BY <1>24, <1>0, <1>a, <1>b DEF SwitchInstall, Fresh, Return, Fault, Staged, Sound,
      Attached, Never, Holding, Domains, AllModes, ClaimPcs, UndoPcs, SwitchPcs,
      RefreshPcs, Moves, At, Ws, books, rows, kernel, life
<1>25. CASE SwitchCommit(t)
  <2>1. /\ task[t].op = "switch" /\ task[t].mode \in AllModes /\ attached' = attached
        /\ Attached(Ws(t)) /\ Ws(t) \in Workspaces
    BY <1>25, <1>0, <1>a, <1>b DEF SwitchCommit, Staged, At, SwitchPcs
  <2>2. services'[Ws(t)] = task[t].mode
    BY <1>25, <1>0, <2>1 DEF SwitchCommit, Domains
  <2>3. \/ task'[t].op = "none" /\ task'[t].pc = "idle"
        \/ task'[t].op = "switch" /\ task'[t].pc = "pin" /\ task'[t].ws = Ws(t)
    BY <1>25, <1>0, <2>1 DEF SwitchCommit, Return, Moves, Ws
  <2>. QED  BY <2>1, <2>2, <2>3
         DEF Staged, Attached, AllModes, ClaimPcs, UndoPcs, SwitchPcs, RefreshPcs, Ws
<1>26. CASE SwitchPin(t)
  BY <1>26, <1>0, <1>a, <1>b DEF SwitchPin, Return, Fault, Staged, Sound, Attached, Never,
      Holding, Domains, AllModes, ClaimPcs, UndoPcs, SwitchPcs, RefreshPcs, Moves, At, Ws,
      books, rows, kernel, life
<1>27. CASE LockInterceptor(t)
  BY <1>27, <1>0, <1>a, <1>b DEF LockInterceptor, Staged, Sound, Attached, Never, Holding,
      Domains, AllModes, ClaimPcs, UndoPcs, SwitchPcs, RefreshPcs, Moves, At, Ws, books,
      rows, kernel, life
<1>28. CASE ReadRows(t)
  BY <1>28, <1>0, <1>a, <1>b DEF ReadRows, Done, Raise, Unwind, RefreshFault, Fault,
      Staged, Sound, Attached, Never, Holding, Domains, AllModes, ClaimPcs, UndoPcs,
      SwitchPcs, RefreshPcs, Moves, At, Ws, books,
      rows, kernel, life
<1>29. CASE Arm(t)
  BY <1>29, <1>0, <1>a, <1>b DEF Arm, RefreshFault, Fault, Raise, Unwind, Staged, Sound,
      Attached, Never, Holding, Domains, AllModes, ClaimPcs, UndoPcs, SwitchPcs,
      RefreshPcs, Moves, At, Ws, books, rows, kernel, life
<1>30. CASE ApplyModes(t)
  BY <1>30, <1>0, <1>a, <1>b DEF ApplyModes, RefreshFault, Fault, RollBack, Raise, Unwind,
      Staged, Sound, Attached, Never, Holding, Domains, AllModes, ClaimPcs, UndoPcs,
      SwitchPcs, RefreshPcs, Moves, At, Ws, books, rows, kernel, life
<1>31. CASE SwapEnter(t)
  BY <1>31, <1>0, <1>a, <1>b DEF SwapEnter, Enter, Staged, Sound, Attached, Never, Holding,
      Domains, AllModes, ClaimPcs, UndoPcs, SwitchPcs, RefreshPcs, Moves, At, Ws, books,
      rows, kernel, life
<1>32. CASE SwapAbsent(t)
  BY <1>32, <1>0, <1>a, <1>b DEF SwapAbsent, Raise, Unwind, Done, Staged, Sound, Attached,
      Never, Holding, Domains, AllModes, ClaimPcs, UndoPcs, SwitchPcs, RefreshPcs, Moves,
      At, Ws, books, rows, kernel, life
<1>33. CASE SwapInstall(t)
  <2>1. /\ task[t].op \in {"attach", "refresh"} /\ UNCHANGED <<attached, services>>
        /\ Attached(Ws(t)) /\ services[Ws(t)] # "none"
        /\ task[t].op = "attach" /\ task[t].goal = "rollback" => "late" \in faults
        /\ faults \subseteq faults'
    BY <1>33, <1>0, <1>b DEF SwapInstall, Staged, RefreshFault, Fault, At, RefreshPcs, books, life
  <2>2. \/ task'[t].op = "none" /\ task'[t].pc = "idle"
        \/ /\ task'[t].op = task[t].op /\ task'[t].ws = Ws(t)
           /\ \/ task'[t].pc = "unwind" /\ task[t].op = "attach" /\ task'[t].goal = task[t].goal
              \/ task'[t].pc = "modes" /\ task'[t].goal = "rollback"
           /\ task[t].op = "attach" => "late" \in faults'
    BY <1>33, <1>0, <2>1 DEF SwapInstall, Raise, Unwind, Done, RefreshFault, Fault, RollBack, Moves, Ws
  <2>. QED  BY <2>1, <2>2 DEF Staged, Attached, ClaimPcs, UndoPcs, SwitchPcs, RefreshPcs, Ws
<1>. QED
  BY <1>1, <1>2, <1>3, <1>4, <1>5, <1>6, <1>7, <1>8, <1>9, <1>10, <1>11, <1>12,
     <1>13, <1>14, <1>15, <1>16, <1>17, <1>18, <1>19, <1>20, <1>21, <1>22, <1>23, <1>24,
     <1>25, <1>26, <1>27, <1>28, <1>29, <1>30, <1>31, <1>32, <1>33
  DEF Step, AttachStep, DetachStep, SwitchStep, RefreshStep

\* A step of the guard's holder, or of a call that finds it free, leaves the
\* workspace sound.
LEMMA SoundKept ==
  ASSUME NetAssumption, TypeOK, NEW t \in Tasks, Fits(t), Guarded(t), Staged(t),
         Ws(t) \in Workspaces, GuardMeans(Ws(t)), Sound(Ws(t)), Step(t),
         NEW w, w = Ws(t), guard[w].by \in {Nobody, t}
  PROVE  Sound(w)'
<1>0. /\ Moves(t) /\ Domains
      /\ task[t].op = "refresh" => task[t].pc \in RefreshPcs
      /\ task[t].op = "attach" => task[t].pc \in
           {"attach", "replay", "unwind"} \cup ClaimPcs \cup UndoPcs \cup RefreshPcs
      /\ task[t].pc \in RefreshPcs => task[t].op \in {"attach", "refresh"}
      /\ task[t].op # "attach" => task[t].pc # "unwind"
      /\ task[t].pc \in ClaimPcs => task[t].op = "attach"
      /\ task[t].pc \in SwitchPcs => task[t].op = "switch"
      /\ task[t].op \in {"attach", "switch"} => task[t].mode \in AllModes
  BY HaveMoves, HaveDomains DEF TypeOK, Fits, ClaimPcs, UndoPcs, SwitchPcs, RefreshPcs, TaskType
<1>a. /\ Holding(t) => guard[w] = [by |-> t, depth |-> Depth(t)]
      /\ ~Holding(t) => guard[w] = FreeGuard
      /\ Nobody \notin Tasks /\ w \in Workspaces /\ w = Ws(t)
  BY DEF Guarded, GuardMeans, NetAssumption
<1>b. Staged(t) /\ Sound(w) /\ GuardStep(t)
  BY GuardSteps
<1>1. CASE AttachExisting(t)
  BY <1>1, <1>0, <1>a, <1>b DEF AttachExisting, GuardStep, Staged, Sound, Attached, Never,
      FreeGuard, Holding, Domains, AllModes, ClaimPcs, UndoPcs, SwitchPcs, RefreshPcs,
      Moves, At, Ws, books, rows, kernel, life
<1>2. CASE AttachBuild(t)
  BY <1>2, <1>0, <1>a, <1>b DEF AttachBuild, Enter, GuardStep, Staged, Sound, Attached,
      Never, FreeGuard, Holding, Domains, AllModes, ClaimPcs, UndoPcs, SwitchPcs,
      RefreshPcs, Moves, At, Ws, books, rows, kernel, life
<1>3. CASE ClaimRecorded(t)
  BY <1>3, <1>0, <1>a, <1>b DEF ClaimRecorded, BuildOn, Fault, GuardStep, Staged, Sound,
      Attached, Never, FreeGuard, Holding, Domains, AllModes, ClaimPcs, UndoPcs, SwitchPcs,
      RefreshPcs, Moves, At, Ws, books, rows, kernel, life
<1>4. CASE ClaimFresh(t)
  BY <1>4, <1>0, <1>a, <1>b DEF ClaimFresh, GuardStep, Staged, Sound, Attached, Never,
      FreeGuard, Holding, Domains, AllModes, ClaimPcs, UndoPcs, SwitchPcs, RefreshPcs,
      Moves, At, Ws, books, rows, kernel, life
<1>5. CASE ClaimRefused(t)
  BY <1>5, <1>0, <1>a, <1>b DEF ClaimRefused, Return, GuardStep, Staged, Sound, Attached,
      Never, FreeGuard, Holding, Domains, AllModes, ClaimPcs, UndoPcs, SwitchPcs,
      RefreshPcs, Moves, At, Ws, books, rows, kernel, life
<1>6. CASE RecordSlice(t)
  BY <1>6, <1>0, <1>a, <1>b DEF RecordSlice, BuildOn, Fault, GuardStep, Staged, Sound,
      Attached, Never, FreeGuard, Holding, Domains, AllModes, ClaimPcs, UndoPcs, SwitchPcs,
      RefreshPcs, Moves, At, Ws, books, rows, kernel, life
<1>7. CASE RecordFails(t)
  BY <1>7, <1>0, <1>a, <1>b DEF RecordFails, Return, Fault, GuardStep, Staged, Sound,
      Attached, Never, FreeGuard, Holding, Domains, AllModes, ClaimPcs, UndoPcs, SwitchPcs,
      RefreshPcs, Moves, At, Ws, books, rows, kernel, life
<1>8. CASE MakeTap(t)
  BY <1>8, <1>0, <1>a, <1>b DEF MakeTap, Unwind, Fault, GuardStep, Staged, Sound, Attached,
      Never, FreeGuard, Holding, Domains, AllModes, ClaimPcs, UndoPcs, SwitchPcs,
      RefreshPcs, Moves, At, Ws, books, rows, kernel, life
<1>9. CASE InstallTable(t)
  BY <1>9, <1>0, <1>a, <1>b DEF InstallTable, Unwind, Fault, GuardStep, Staged, Sound,
      Attached, Never, FreeGuard, Holding, Domains, AllModes, ClaimPcs, UndoPcs, SwitchPcs,
      RefreshPcs, Moves, At, Ws, books, rows, kernel, life
<1>10. CASE StartServices(t)
  BY <1>10, <1>0, <1>a, <1>b DEF StartServices, Unwind, Fault, GuardStep, Staged, Sound,
      Attached, Never, FreeGuard, Holding, Domains, AllModes, ClaimPcs, UndoPcs, SwitchPcs,
      RefreshPcs, Moves, At, Ws, books, rows, kernel, life
<1>11. CASE PublishAttachment(t)
  BY <1>11, <1>0, <1>a, <1>b DEF PublishAttachment, GuardStep, Staged, Sound, Attached,
      Never, FreeGuard, Holding, Domains, AllModes, ClaimPcs, UndoPcs, SwitchPcs,
      RefreshPcs, Moves, At, Ws, books, rows, kernel, life
<1>12. CASE ReplayVerdicts(t)
  BY <1>12, <1>0, <1>a, <1>b DEF ReplayVerdicts, Unwind, Fault, GuardStep, Staged, Sound,
      Attached, Never, FreeGuard, Holding, Domains, AllModes, ClaimPcs, UndoPcs, SwitchPcs,
      RefreshPcs, Moves, At, Ws, books, rows, kernel, life
<1>13. CASE UnwindServices(t)
  BY <1>13, <1>0, <1>a, <1>b DEF UnwindServices, GuardStep, Staged, Sound, Attached, Never,
      FreeGuard, Holding, Domains, AllModes, ClaimPcs, UndoPcs, SwitchPcs, RefreshPcs,
      Moves, At, Ws, books, rows, kernel, life
<1>14. CASE DetachNothing(t)
  BY <1>14, <1>0, <1>a, <1>b DEF DetachNothing, GuardStep, Staged, Sound, Attached, Never,
      FreeGuard, Holding, Domains, AllModes, ClaimPcs, UndoPcs, SwitchPcs, RefreshPcs,
      Moves, At, Ws, books, rows, kernel, life
<1>15. CASE DetachPop(t)
  BY <1>15, <1>0, <1>a, <1>b DEF DetachPop, Enter, GuardStep, Staged, Sound, Attached,
      Never, FreeGuard, Holding, Domains, AllModes, ClaimPcs, UndoPcs, SwitchPcs,
      RefreshPcs, Moves, At, Ws, books, rows, kernel, life
<1>16. CASE StopConsent(t)
  BY <1>16, <1>0, <1>a, <1>b DEF StopConsent, Return, Fault, GuardStep, Staged, Sound,
      Attached, Never, FreeGuard, Holding, Domains, AllModes, ClaimPcs, UndoPcs, SwitchPcs,
      RefreshPcs, Moves, At, Ws, books, rows, kernel, life
<1>17. CASE UndoLock(t)
  BY <1>17, <1>0, <1>a, <1>b DEF UndoLock, GuardStep, Staged, Sound, Attached, Never,
      FreeGuard, Holding, Domains, AllModes, ClaimPcs, UndoPcs, SwitchPcs, RefreshPcs,
      Moves, At, Ws, books, rows, kernel, life
<1>18. CASE Unlisten(t)
  BY <1>18, <1>0, <1>a, <1>b DEF Unlisten, Return, Fault, GuardStep, Staged, Sound,
      Attached, Never, FreeGuard, Holding, Domains, AllModes, ClaimPcs, UndoPcs, SwitchPcs,
      RefreshPcs, Moves, At, Ws, books, rows, kernel, life
<1>19. CASE DeleteTable(t)
  BY <1>19, <1>0, <1>a, <1>b DEF DeleteTable, Return, Fault, GuardStep, Staged, Sound,
      Attached, Never, FreeGuard, Holding, Domains, AllModes, ClaimPcs, UndoPcs, SwitchPcs,
      RefreshPcs, Moves, At, Ws, books, rows, kernel, life
<1>20. CASE RemoveTap(t)
  BY <1>20, <1>0, <1>a, <1>b DEF RemoveTap, Return, Fault, GuardStep, Staged, Sound,
      Attached, Never, FreeGuard, Holding, Domains, AllModes, ClaimPcs, UndoPcs, SwitchPcs,
      RefreshPcs, Moves, At, Ws, books, rows, kernel, life
<1>21. CASE SwitchAbsent(t)
  BY <1>21, <1>0, <1>a, <1>b DEF SwitchAbsent, GuardStep, Staged, Sound, Attached, Never,
      FreeGuard, Holding, Domains, AllModes, ClaimPcs, UndoPcs, SwitchPcs, RefreshPcs,
      Moves, At, Ws, books, rows, kernel, life
<1>22. CASE SwitchEnter(t)
  BY <1>22, <1>0, <1>a, <1>b DEF SwitchEnter, Enter, GuardStep, Staged, Sound, Attached,
      Never, FreeGuard, Holding, Domains, AllModes, ClaimPcs, UndoPcs, SwitchPcs,
      RefreshPcs, Moves, At, Ws, books, rows, kernel, life
<1>23. CASE SwitchBind(t)
  BY <1>23, <1>0, <1>a, <1>b DEF SwitchBind, Fresh, Return, Fault, GuardStep, Staged,
      Sound, Attached, Never, FreeGuard, Holding, Domains, AllModes, ClaimPcs, UndoPcs,
      SwitchPcs, RefreshPcs, Moves, At, Ws, books, rows, kernel, life
<1>24. CASE SwitchInstall(t)
  BY <1>24, <1>0, <1>a, <1>b DEF SwitchInstall, Fresh, Return, Fault, GuardStep, Staged,
      Sound, Attached, Never, FreeGuard, Holding, Domains, AllModes, ClaimPcs, UndoPcs,
      SwitchPcs, RefreshPcs, Moves, At, Ws, books, rows, kernel, life
<1>25. CASE SwitchCommit(t)
  BY <1>25, <1>0, <1>a, <1>b DEF SwitchCommit, Return, GuardStep, Staged, Sound, Attached,
      Never, FreeGuard, Holding, Domains, AllModes, ClaimPcs, UndoPcs, SwitchPcs,
      RefreshPcs, Moves, At, Ws, books, rows, kernel, life
<1>26. CASE SwitchPin(t)
  BY <1>26, <1>0, <1>a, <1>b DEF SwitchPin, Return, Fault, GuardStep, Staged, Sound,
      Attached, Never, FreeGuard, Holding, Domains, AllModes, ClaimPcs, UndoPcs, SwitchPcs,
      RefreshPcs, Moves, At, Ws, books, rows, kernel, life
<1>27. CASE LockInterceptor(t)
  BY <1>27, <1>0, <1>a, <1>b DEF LockInterceptor, GuardStep, Staged, Sound, Attached,
      Never, FreeGuard, Holding, Domains, AllModes, ClaimPcs, UndoPcs, SwitchPcs,
      RefreshPcs, Moves, At, Ws, books, rows, kernel, life
<1>28. CASE ReadRows(t)
  BY <1>28, <1>0, <1>a, <1>b DEF ReadRows, Done, Raise, Unwind, RefreshFault, Fault,
      GuardStep, Staged, Sound, Attached, Never, FreeGuard, Holding, Domains,
      AllModes, ClaimPcs, UndoPcs, SwitchPcs, RefreshPcs,
      Moves, At, Ws, books, rows, kernel, life
<1>29. CASE Arm(t)
  BY <1>29, <1>0, <1>a, <1>b DEF Arm, RefreshFault, Fault, Raise, Unwind, GuardStep,
      Staged, Sound, Attached, Never, FreeGuard, Holding, Domains, AllModes, ClaimPcs,
      UndoPcs, SwitchPcs, RefreshPcs, Moves, At, Ws, books, rows, kernel, life
<1>30. CASE ApplyModes(t)
  BY <1>30, <1>0, <1>a, <1>b DEF ApplyModes, RefreshFault, Fault, RollBack, Raise, Unwind,
      GuardStep, Staged, Sound, Attached, Never, FreeGuard, Holding, Domains, AllModes,
      ClaimPcs, UndoPcs, SwitchPcs, RefreshPcs, Moves, At, Ws, books, rows, kernel, life
<1>31. CASE SwapEnter(t)
  BY <1>31, <1>0, <1>a, <1>b DEF SwapEnter, Enter, GuardStep, Staged, Sound, Attached,
      Never, FreeGuard, Holding, Domains, AllModes, ClaimPcs, UndoPcs, SwitchPcs,
      RefreshPcs, Moves, At, Ws, books, rows, kernel, life
<1>32. CASE SwapAbsent(t)
  BY <1>32, <1>0, <1>a, <1>b DEF SwapAbsent, Raise, Unwind, Done, GuardStep, Staged, Sound,
      Attached, Never, FreeGuard, Holding, Domains, AllModes, ClaimPcs, UndoPcs, SwitchPcs,
      RefreshPcs, Moves, At, Ws, books, rows, kernel, life
<1>33. CASE SwapInstall(t)
  BY <1>33, <1>0, <1>a, <1>b DEF SwapInstall, Raise, Unwind, Done, Exit, RefreshFault,
      Fault, RollBack, GuardStep, Staged, Sound, Attached, Never, FreeGuard, Holding,
      Domains, AllModes, ClaimPcs, UndoPcs, SwitchPcs, RefreshPcs, Moves, At, Ws, books,
      rows, kernel, life
<1>. QED
  BY <1>1, <1>2, <1>3, <1>4, <1>5, <1>6, <1>7, <1>8, <1>9, <1>10, <1>11, <1>12,
     <1>13, <1>14, <1>15, <1>16, <1>17, <1>18, <1>19, <1>20, <1>21, <1>22, <1>23, <1>24,
     <1>25, <1>26, <1>27, <1>28, <1>29, <1>30, <1>31, <1>32, <1>33
  DEF Step, AttachStep, DetachStep, SwitchStep, RefreshStep

-------------------------------------------------------------------------------
\* What becomes of the slices in one step of a call, unless an attachment was
\* left behind: nothing, a claim of a free one, the end of a claim, its
\* attachment, or the attachment's end.
SliceStep(t) ==
  LET s == task[t].slice
      s1 == task'[t].slice
      w == Ws(t) IN
  \/ "late" \in faults'
  \/ attached' = attached /\ used' = used /\ (Owns(t)' => Owns(t) /\ s1 = s)
  \/ attached' = attached /\ s1 \notin used \cup {NoSlice} /\ used' = used \cup {s1}
  \/ attached' = attached /\ used' = used \ {s} /\ Owns(t) /\ ~Owns(t)'
  \/ attached' = [attached EXCEPT ![w] = s] /\ used' = used /\ Owns(t) /\ ~Owns(t)'
  \/ /\ attached' = [attached EXCEPT ![w] = NoSlice] /\ used' = used
     /\ s1 = attached[w] /\ s1 # NoSlice

\* Every step treats the slices in one of the ways of SliceStep.
LEMMA SliceSteps ==
  ASSUME NetAssumption, TypeOK, NEW t \in Tasks, Fits(t), Guarded(t), Staged(t),
         Ws(t) \in Workspaces, GuardMeans(Ws(t)), SlicesApart, Step(t)
  PROVE  SliceStep(t)
<1>0. /\ Moves(t)
      /\ task[t].op = "refresh" => task[t].pc \in RefreshPcs
      /\ task[t].op = "attach" => task[t].pc \in
           {"attach", "replay", "unwind"} \cup ClaimPcs \cup UndoPcs \cup RefreshPcs
      /\ task[t].op = "detach" => task[t].pc \in {"detach", "quiet"} \cup UndoPcs
      /\ task[t].pc \in RefreshPcs => task[t].op \in {"attach", "refresh"}
      /\ task[t].op # "attach" => task[t].pc # "unwind"
      /\ task[t].pc \in ClaimPcs => task[t].op = "attach"
      /\ task[t].pc \in SwitchPcs => task[t].op = "switch"
  BY HaveMoves DEF TypeOK, Fits, ClaimPcs, UndoPcs, SwitchPcs, RefreshPcs, TaskType
<1>a. /\ NoSlice \notin Slices /\ used \subseteq Slices
      /\ task[t].op = "attach" /\ task[t].goal = "rollback" => "late" \in faults
      /\ "late" \in faults \/ (Owns(t) => task[t].slice \in used)
  BY DEF NetAssumption, TypeOK, Staged, SlicesApart, OwnersApart, Never
<1>b. task[t].op = "attach" /\ task[t].pc \in RefreshPcs =>
        attached[Ws(t)] # NoSlice /\ services[Ws(t)] # "none"
  BY DEF Staged, Attached
<1>1. CASE AttachExisting(t)
  BY <1>1, <1>0, <1>a, <1>b DEF AttachExisting, SliceStep, Owns, ClaimPcs, UndoPcs,
      SwitchPcs, RefreshPcs, Moves, At, Ws, books, life
<1>2. CASE AttachBuild(t)
  BY <1>2, <1>0, <1>a, <1>b DEF AttachBuild, Enter, SliceStep, Owns, ClaimPcs, UndoPcs,
      SwitchPcs, RefreshPcs, Moves, At, Ws, books, life
<1>3. CASE ClaimRecorded(t)
  BY <1>3, <1>0, <1>a, <1>b DEF ClaimRecorded, BuildOn, Fault, SliceStep, Owns, ClaimPcs,
      UndoPcs, SwitchPcs, RefreshPcs, Moves, At, Ws, books, life
<1>4. CASE ClaimFresh(t)
  BY <1>4, <1>0, <1>a, <1>b DEF ClaimFresh, SliceStep, Owns, ClaimPcs, UndoPcs, SwitchPcs,
      RefreshPcs, Moves, At, Ws, books, life
<1>5. CASE ClaimRefused(t)
  BY <1>5, <1>0, <1>a, <1>b DEF ClaimRefused, Return, SliceStep, Owns, ClaimPcs, UndoPcs,
      SwitchPcs, RefreshPcs, Moves, At, Ws, books, life
<1>6. CASE RecordSlice(t)
  BY <1>6, <1>0, <1>a, <1>b DEF RecordSlice, BuildOn, Fault, SliceStep, Owns, ClaimPcs,
      UndoPcs, SwitchPcs, RefreshPcs, Moves, At, Ws, books, life
<1>7. CASE RecordFails(t)
  BY <1>7, <1>0, <1>a, <1>b DEF RecordFails, Return, Fault, SliceStep, Owns, ClaimPcs,
      UndoPcs, SwitchPcs, RefreshPcs, Moves, At, Ws, books, life
<1>8. CASE MakeTap(t)
  BY <1>8, <1>0, <1>a, <1>b DEF MakeTap, Unwind, Fault, SliceStep, Owns, ClaimPcs, UndoPcs,
      SwitchPcs, RefreshPcs, Moves, At, Ws, books, life
<1>9. CASE InstallTable(t)
  BY <1>9, <1>0, <1>a, <1>b DEF InstallTable, Unwind, Fault, SliceStep, Owns, ClaimPcs,
      UndoPcs, SwitchPcs, RefreshPcs, Moves, At, Ws, books, life
<1>10. CASE StartServices(t)
  BY <1>10, <1>0, <1>a, <1>b DEF StartServices, Unwind, Fault, SliceStep, Owns, ClaimPcs,
      UndoPcs, SwitchPcs, RefreshPcs, Moves, At, Ws, books, life
<1>11. CASE PublishAttachment(t)
  BY <1>11, <1>0, <1>a, <1>b DEF PublishAttachment, SliceStep, Owns, ClaimPcs, UndoPcs,
      SwitchPcs, RefreshPcs, Moves, At, Ws, books, life
<1>12. CASE ReplayVerdicts(t)
  BY <1>12, <1>0, <1>a, <1>b DEF ReplayVerdicts, Unwind, Fault, SliceStep, Owns, ClaimPcs,
      UndoPcs, SwitchPcs, RefreshPcs, Moves, At, Ws, books, life
<1>13. CASE UnwindServices(t)
  BY <1>13, <1>0, <1>a, <1>b DEF UnwindServices, SliceStep, Owns, ClaimPcs, UndoPcs,
      SwitchPcs, RefreshPcs, Moves, At, Ws, books, life
<1>14. CASE DetachNothing(t)
  BY <1>14, <1>0, <1>a, <1>b DEF DetachNothing, SliceStep, Owns, ClaimPcs, UndoPcs,
      SwitchPcs, RefreshPcs, Moves, At, Ws, books, life
<1>15. CASE DetachPop(t)
  BY <1>15, <1>0, <1>a, <1>b DEF DetachPop, Enter, SliceStep, Owns, ClaimPcs, UndoPcs,
      SwitchPcs, RefreshPcs, Moves, At, Ws, books, life
<1>16. CASE StopConsent(t)
  BY <1>16, <1>0, <1>a, <1>b DEF StopConsent, Return, Fault, SliceStep, Owns, ClaimPcs,
      UndoPcs, SwitchPcs, RefreshPcs, Moves, At, Ws, books, life
<1>17. CASE UndoLock(t)
  BY <1>17, <1>0, <1>a, <1>b DEF UndoLock, SliceStep, Owns, ClaimPcs, UndoPcs, SwitchPcs,
      RefreshPcs, Moves, At, Ws, books, life
<1>18. CASE Unlisten(t)
  BY <1>18, <1>0, <1>a, <1>b DEF Unlisten, Return, Fault, SliceStep, Owns, ClaimPcs,
      UndoPcs, SwitchPcs, RefreshPcs, Moves, At, Ws, books, life
<1>19. CASE DeleteTable(t)
  BY <1>19, <1>0, <1>a, <1>b DEF DeleteTable, Return, Fault, SliceStep, Owns, ClaimPcs,
      UndoPcs, SwitchPcs, RefreshPcs, Moves, At, Ws, books, life
<1>20. CASE RemoveTap(t)
  BY <1>20, <1>0, <1>a, <1>b DEF RemoveTap, Return, Fault, SliceStep, Owns, ClaimPcs,
      UndoPcs, SwitchPcs, RefreshPcs, Moves, At, Ws, books, life
<1>21. CASE SwitchAbsent(t)
  BY <1>21, <1>0, <1>a, <1>b DEF SwitchAbsent, SliceStep, Owns, ClaimPcs, UndoPcs,
      SwitchPcs, RefreshPcs, Moves, At, Ws, books, life
<1>22. CASE SwitchEnter(t)
  BY <1>22, <1>0, <1>a, <1>b DEF SwitchEnter, Enter, SliceStep, Owns, ClaimPcs, UndoPcs,
      SwitchPcs, RefreshPcs, Moves, At, Ws, books, life
<1>23. CASE SwitchBind(t)
  BY <1>23, <1>0, <1>a, <1>b DEF SwitchBind, Fresh, Return, Fault, SliceStep, Owns,
      ClaimPcs, UndoPcs, SwitchPcs, RefreshPcs, Moves, At, Ws, books, life
<1>24. CASE SwitchInstall(t)
  BY <1>24, <1>0, <1>a, <1>b DEF SwitchInstall, Fresh, Return, Fault, SliceStep, Owns,
      ClaimPcs, UndoPcs, SwitchPcs, RefreshPcs, Moves, At, Ws, books, life
<1>25. CASE SwitchCommit(t)
  BY <1>25, <1>0, <1>a, <1>b DEF SwitchCommit, Return, SliceStep, Owns, ClaimPcs, UndoPcs,
      SwitchPcs, RefreshPcs, Moves, At, Ws, books, life
<1>26. CASE SwitchPin(t)
  BY <1>26, <1>0, <1>a, <1>b DEF SwitchPin, Return, Fault, SliceStep, Owns, ClaimPcs,
      UndoPcs, SwitchPcs, RefreshPcs, Moves, At, Ws, books, life
<1>27. CASE LockInterceptor(t)
  BY <1>27, <1>0, <1>a, <1>b DEF LockInterceptor, SliceStep, Owns, ClaimPcs, UndoPcs,
      SwitchPcs, RefreshPcs, Moves, At, Ws, books, life
<1>28. CASE ReadRows(t)
  BY <1>28, <1>0, <1>a, <1>b DEF ReadRows, Done, Raise, Unwind, RefreshFault, Fault,
      SliceStep, Owns, ClaimPcs, UndoPcs, SwitchPcs, RefreshPcs, Moves, At, Ws,
      books, life
<1>29. CASE Arm(t)
  BY <1>29, <1>0, <1>a, <1>b DEF Arm, RefreshFault, Fault, Raise, Unwind, SliceStep, Owns,
      ClaimPcs, UndoPcs, SwitchPcs, RefreshPcs, Moves, At, Ws, books, life
<1>30. CASE ApplyModes(t)
  BY <1>30, <1>0, <1>a, <1>b DEF ApplyModes, RefreshFault, Fault, RollBack, Raise, Unwind,
      SliceStep, Owns, ClaimPcs, UndoPcs, SwitchPcs, RefreshPcs, Moves, At, Ws, books, life
<1>31. CASE SwapEnter(t)
  BY <1>31, <1>0, <1>a, <1>b DEF SwapEnter, Enter, SliceStep, Owns, ClaimPcs, UndoPcs,
      SwitchPcs, RefreshPcs, Moves, At, Ws, books, life
<1>32. CASE SwapAbsent(t)
  BY <1>32, <1>0, <1>a, <1>b DEF SwapAbsent, Raise, Unwind, Done, SliceStep, Owns,
      ClaimPcs, UndoPcs, SwitchPcs, RefreshPcs, Moves, At, Ws, books, life
<1>33. CASE SwapInstall(t)
  BY <1>33, <1>0, <1>a, <1>b DEF SwapInstall, Raise, Unwind, Done, Exit, RefreshFault,
      Fault, RollBack, SliceStep, Owns, ClaimPcs, UndoPcs, SwitchPcs, RefreshPcs, Moves,
      At, Ws, books, life
<1>. QED
  BY <1>1, <1>2, <1>3, <1>4, <1>5, <1>6, <1>7, <1>8, <1>9, <1>10, <1>11, <1>12,
     <1>13, <1>14, <1>15, <1>16, <1>17, <1>18, <1>19, <1>20, <1>21, <1>22, <1>23, <1>24,
     <1>25, <1>26, <1>27, <1>28, <1>29, <1>30, <1>31, <1>32, <1>33
  DEF Step, AttachStep, DetachStep, SwitchStep, RefreshStep

\* Each of those ways keeps the slices apart.
LEMMA SlicesKept ==
  ASSUME TypeOK, NoSlice \notin Slices, NEW t \in Tasks, Ws(t) \in Workspaces,
         SlicesApart, SliceStep(t), faults \subseteq faults',
         \A u \in Tasks \ {t} : task'[u] = task[u]
  PROVE  SlicesApart'
<1>. SUFFICES ASSUME "late" \notin faults'
              PROVE  AttachedApart' /\ OwnersApart'
  BY DEF SlicesApart, Never
<1>0. /\ AttachedApart /\ OwnersApart /\ NoSlice \notin used
      /\ \A u \in Tasks \ {t} : (Owns(u)' <=> Owns(u)) /\ task'[u].slice = task[u].slice
      /\ DOMAIN attached = Workspaces /\ Ws(t) \in Workspaces
  BY DEF SlicesApart, Never, TypeOK, Owns
<1>. DEFINE s == task[t].slice
            s1 == task'[t].slice
<1>1. CASE attached' = attached /\ used' = used /\ (Owns(t)' => Owns(t) /\ s1 = s)
  BY <1>0, <1>1 DEF AttachedApart, OwnersApart, Attached
<1>2. CASE attached' = attached /\ s1 \notin used \cup {NoSlice} /\ used' = used \cup {s1}
  BY <1>0, <1>2 DEF AttachedApart, OwnersApart, Attached
<1>3. CASE attached' = attached /\ used' = used \ {s} /\ Owns(t) /\ ~Owns(t)'
  BY <1>0, <1>3 DEF AttachedApart, OwnersApart, Attached
<1>4. CASE attached' = [attached EXCEPT ![Ws(t)] = s] /\ used' = used /\ Owns(t) /\ ~Owns(t)'
  BY <1>0, <1>4 DEF AttachedApart, OwnersApart, Attached
<1>5. CASE /\ attached' = [attached EXCEPT ![Ws(t)] = NoSlice] /\ used' = used
           /\ s1 = attached[Ws(t)] /\ s1 # NoSlice
  BY <1>0, <1>5 DEF AttachedApart, OwnersApart, Attached
<1>. QED  BY <1>1, <1>2, <1>3, <1>4, <1>5 DEF SliceStep

-------------------------------------------------------------------------------
\* A call's step leaves its own guard meaningful.
LEMMA GuardKept ==
  ASSUME NetAssumption, TypeOK, NEW t \in Tasks, Ws(t) \in Workspaces, Guarded(t),
         GuardMeans(Ws(t)), GuardStep(t),
         \A u \in Tasks \ {t} : task'[u] = task[u]
  PROVE  Guarded(t)' /\ \A w \in Workspaces : w = Ws(t) => GuardMeans(w)'
<1>0. /\ Nobody \notin Tasks
      /\ \A u \in Tasks \ {t} : (Holding(u)' <=> Holding(u)) /\ Ws(u)' = Ws(u)
  BY DEF NetAssumption, Holding, At, Ws
<1>1. guard[Ws(t)].by = t => Holding(t)
  BY DEF GuardMeans
<1>2. Holding(t) => guard[Ws(t)] = [by |-> t, depth |-> Depth(t)]
  BY DEF Guarded
<1>3. Guarded(t)'
  BY <1>0, <1>1, <1>2 DEF Guarded, GuardStep, Ws
<1>4. ASSUME NEW w \in Workspaces, w = Ws(t) PROVE GuardMeans(w)'
  BY <1>0, <1>1, <1>2, <1>4 DEF GuardMeans, GuardStep, FreeGuard, Ws
<1>. QED  BY <1>3, <1>4

\* What the others may count on stands through a call's step.
LEMMA OthersKept ==
  ASSUME NetAssumption, TypeOK, NEW t \in Tasks, Ws(t) \in Workspaces,
         \A w \in Workspaces : GuardMeans(w) /\ Sound(w),
         \A u \in Tasks \ {t} : task'[u] = task[u],
         \A w \in Workspaces \ {Ws(t)} : Same(w),
         guard[Ws(t)].by \in {Nobody, t} \/ Same(Ws(t)),
         faults \subseteq faults'
  PROVE  /\ \A u \in Tasks \ {t} :
              Fits(u) /\ Guarded(u) /\ Staged(u) => Fits(u)' /\ Guarded(u)' /\ Staged(u)'
         /\ \A w \in Workspaces \ {Ws(t)} : GuardMeans(w)' /\ Sound(w)'
<1>1. ASSUME NEW u \in Tasks \ {t}, Fits(u), Guarded(u), Staged(u)
      PROVE  Fits(u)' /\ Guarded(u)' /\ Staged(u)'
  <2>0. /\ task'[u] = task[u] /\ Ws(u)' = Ws(u) /\ Depth(u)' = Depth(u)
        /\ Holding(u)' <=> Holding(u)
    BY DEF Ws, Depth, Holding, At
  <2>1. Fits(u)'
    BY <2>0, <1>1 DEF Fits
  <2>2. CASE ~Holding(u)
    <3>1. \/ task[u].op = "refresh" /\ task[u].pc # "install"
          \/ task[u].pc \in {"idle", "attach", "detach", "switch"}
      BY <2>2 DEF Holding, At
    <3>2. task[u].op = "refresh" => task[u].pc \in RefreshPcs
      BY <1>1 DEF Fits, TypeOK, TaskType, RefreshPcs
    <3>3. Staged(u)'
      BY <3>1, <3>2, <2>0, <1>1 DEF Staged, ClaimPcs, UndoPcs, SwitchPcs, RefreshPcs
    <3>. QED  BY <2>0, <2>1, <2>2, <3>3 DEF Guarded
  <2>3. CASE Holding(u)
    <3>1. Ws(u) \in Workspaces /\ guard[Ws(u)].by = u /\ u # Nobody
      BY <2>3, <1>1 DEF Guarded, Fits, Holding, At, Ws, NetAssumption, TypeOK, TaskType, RefreshPcs
    <3>2. Same(Ws(u))
      BY <3>1
    <3>3. Staged(u)'
      BY <3>2, <2>0, <1>1 DEF Staged, Same, Attached, Ws
    <3>. QED  BY <2>0, <2>1, <2>3, <3>2, <3>3, <1>1 DEF Guarded, Same
  <2>. QED  BY <2>2, <2>3
<1>2. ASSUME NEW w \in Workspaces, Same(w), guard[w].by # t
      PROVE  Sound(w)'
  <2>1. guard[w].by # Nobody => guard[w].by \in Tasks
    BY DEF TypeOK
  <2>. QED  BY <1>2, <2>1 DEF Sound, Same, Attached, Never, At
<1>3. ASSUME NEW w \in Workspaces \ {Ws(t)} PROVE GuardMeans(w)' /\ Sound(w)'
  <2>1. guard[w].by # t
    BY DEF GuardMeans
  <2>2. GuardMeans(w)'
    BY <2>1 DEF GuardMeans, Same, Ws, Holding, At
  <2>. QED  BY <2>1, <2>2, <1>2
<1>. QED  BY <1>1, <1>3

\* Steps that touch no call and nothing of a workspace that is inside a guard.
LEMMA Quiet ==
  ASSUME IInv, UNCHANGED <<guard, attached, services, used, bound, recorded, table, taps>>,
         faults \subseteq faults',
         NEW t, \A u \in Tasks \ {t} : task'[u] = task[u],
         t \in Tasks => ~Holding(t) /\ ~Holding(t)' /\ ~Owns(t)' /\ Fits(t)' /\ Staged(t)'
  PROVE  /\ \A u \in Tasks : Fits(u)' /\ Guarded(u)' /\ Staged(u)'
         /\ \A w \in Workspaces : GuardMeans(w)' /\ Sound(w)'
         /\ SlicesApart'
<1>0. /\ \A u \in Tasks \ {t} : /\ Ws(u)' = Ws(u) /\ Depth(u)' = Depth(u)
                                /\ (Holding(u)' <=> Holding(u)) /\ (Owns(u)' <=> Owns(u))
      /\ TypeOK
  BY DEF Ws, Depth, Holding, At, Owns, IInv
<1>1. ASSUME NEW u \in Tasks PROVE Fits(u)' /\ Guarded(u)' /\ Staged(u)'
  <2>1. CASE u = t
    BY <2>1 DEF Guarded
  <2>2. CASE u # t
    <3>1. Fits(u) /\ Guarded(u) /\ Staged(u) /\ task'[u] = task[u]
      BY <2>2 DEF IInv
    <3>. QED  BY <3>1, <2>2, <1>0 DEF Fits, Guarded, Staged, Attached, Ws
  <2>. QED  BY <2>1, <2>2
<1>2. ASSUME NEW w \in Workspaces PROVE GuardMeans(w)' /\ Sound(w)'
  <2>1. GuardMeans(w) /\ Sound(w)
    BY DEF IInv
  <2>2. GuardMeans(w)'
    BY <2>1, <1>0 DEF GuardMeans
  <2>3. guard[w].by # Nobody => guard[w].by \in Tasks \ {t}
    BY <2>1, <1>0 DEF GuardMeans, TypeOK
  <2>. QED  BY <2>1, <2>2, <2>3 DEF Sound, Attached, Never, At
<1>3. SlicesApart'
  BY <1>0 DEF IInv, SlicesApart, AttachedApart, OwnersApart, Attached, Never
<1>. QED  BY <1>1, <1>2, <1>3

\* A call's step keeps the whole invariant.
LEMMA StepKeeps ==
  ASSUME NetAssumption, IInv, NEW t \in Tasks, Step(t)
  PROVE  IInv'
<1>0. /\ TypeOK /\ Fits(t) /\ Guarded(t) /\ Staged(t)
      /\ \A w \in Workspaces : GuardMeans(w) /\ Sound(w)
      /\ SlicesApart /\ NoSlice \notin Slices
  BY DEF IInv, NetAssumption
<1>1. Ws(t) \in Workspaces
  <2>1. ~At(t, "idle")
    BY DEF Step, AttachStep, DetachStep, SwitchStep, RefreshStep, At, AttachExisting,
      AttachBuild, ClaimRecorded, ClaimFresh, ClaimRefused, RecordSlice, RecordFails, MakeTap,
      InstallTable, StartServices, PublishAttachment, ReplayVerdicts, UnwindServices,
      DetachNothing, DetachPop, StopConsent, UndoLock, Unlisten, DeleteTable, RemoveTap,
      SwitchAbsent, SwitchEnter, SwitchBind, SwitchInstall, SwitchCommit, SwitchPin,
      LockInterceptor, ReadRows, Arm, ApplyModes, SwapEnter, SwapAbsent, SwapInstall
  <2>. QED  BY <2>1, <1>0 DEF Fits, At, Ws
<1>2. /\ \A u \in Tasks \ {t} : task'[u] = task[u]
      /\ \A w \in Workspaces \ {Ws(t)} : Same(w)
      /\ guard[Ws(t)].by \in {Nobody, t} \/ Same(Ws(t))
      /\ faults \subseteq faults'
  BY <1>0, <1>1, Locality
<1>3. TypeOK'
  BY <1>0, <1>1, StepTypes
<1>4. Fits(t)' /\ Staged(t)' /\ GuardStep(t) /\ SliceStep(t)
  BY <1>0, <1>1, FitsKept, StagedKept, GuardSteps, SliceSteps
<1>5. Guarded(t)' /\ \A w \in Workspaces : w = Ws(t) => GuardMeans(w)'
  BY <1>0, <1>1, <1>2, <1>4, GuardKept
<1>6. /\ \A u \in Tasks \ {t} :
           Fits(u) /\ Guarded(u) /\ Staged(u) => Fits(u)' /\ Guarded(u)' /\ Staged(u)'
      /\ \A w \in Workspaces \ {Ws(t)} : GuardMeans(w)' /\ Sound(w)'
  BY <1>0, <1>1, <1>2, OthersKept
<1>7. SlicesApart'
  BY <1>0, <1>1, <1>2, <1>4, SlicesKept
<1>8. \A u \in Tasks : Fits(u)' /\ Guarded(u)' /\ Staged(u)'
  BY <1>4, <1>5, <1>6 DEF IInv
<1>9. \A w \in Workspaces : GuardMeans(w)' /\ Sound(w)'
  <2>1. ASSUME NEW w \in Workspaces, w = Ws(t), guard[w].by \in {Nobody, t} PROVE Sound(w)'
    BY <2>1, <1>0, <1>1, SoundKept
  <2>2. ASSUME NEW w \in Workspaces, w = Ws(t), guard[w].by \notin {Nobody, t} PROVE Sound(w)'
    <3>1. Same(w) /\ guard[w].by # t
      BY <2>2, <1>2
    <3>2. guard[w].by # Nobody => guard[w].by \in Tasks
      BY <1>0 DEF TypeOK
    <3>3. Sound(w)
      BY <1>0
    <3>. QED  BY <3>1, <3>2, <3>3, <1>2 DEF Sound, Same, Attached, Never, At
  <2>. QED  BY <2>1, <2>2, <1>5, <1>6
<1>. QED  BY <1>3, <1>7, <1>8, <1>9 DEF IInv

\* A call that comes in keeps it: it stands outside every guard.
LEMMA CallKeeps ==
  ASSUME NetAssumption, IInv, NEW t \in Tasks, Call(t)
  PROVE  IInv'
<1>0. TypeOK /\ NetAssumption
  BY DEF IInv
<1>1. PICK w \in Workspaces :
        \/ \E op \in {"attach", "switch"}, m \in Modes[w] : Begin(t, op, w, m)
        \/ Begin(t, "detach", w, "none")
        \/ \E covered \in BOOLEAN : BeginRefresh(t, w, covered)
  BY DEF Call
<1>2. Modes[w] \subseteq AllModes
  BY <1>0 DEF NetAssumption
<1>. DEFINE q == task'[t]
<1>3. \E op \in {"attach", "switch", "detach", "refresh"}, m \in AllModes \cup {"none"} :
        /\ task' = [task EXCEPT ![t] = CallOf(op, w, m)]
        /\ op \in {"attach", "switch"} => m \in AllModes
  BY <1>1, <1>2 DEF Begin, BeginRefresh
<1>4. PICK op \in {"attach", "switch", "detach", "refresh"}, m \in AllModes \cup {"none"} :
        /\ task' = [task EXCEPT ![t] = CallOf(op, w, m)]
        /\ op \in {"attach", "switch"} => m \in AllModes
  BY <1>3
<1>6. task' \in [Tasks -> TaskType]
  <2>1. CallOf(op, w, m) \in TaskType
    BY DEF CallOf, TaskType, Pcs
  <2>. QED  BY <2>1, <1>4, <1>0 DEF TypeOK
<1>7. /\ q.op = op /\ q.ws = w /\ q.pc = op /\ q.mode = m /\ q.goal = "none"
      /\ \A u \in Tasks \ {t} : task'[u] = task[u]
  BY <1>4, <1>0 DEF TypeOK, CallOf
<1>8. ~Holding(t) /\ ~Holding(t)' /\ ~Owns(t)' /\ Fits(t)'
  <2>1. At(t, "idle")
    BY <1>1 DEF Begin, BeginRefresh
  <2>2. ~Holding(t)
    BY <2>1 DEF Holding, At
  <2>. QED  BY <2>2, <1>4, <1>7 DEF Holding, Owns, Fits, At, ClaimPcs, UndoPcs, SwitchPcs, RefreshPcs
<1>9. /\ UNCHANGED <<locks, books, used, bound, proxy, recorded, kernel, life>>
      /\ wanted' \subseteq Workspaces
  BY <1>1, <1>0 DEF Begin, BeginRefresh, rows, TypeOK
<1>10. Staged(t)'
  <2>1. task[t].pc = "idle" /\ task'[t].pc = op
    BY <1>1, <1>7 DEF Begin, BeginRefresh, At
  <2>2. task'[t].op = "attach" => task'[t].pc = "attach"
    BY <1>7
  <2>. QED  BY <2>1, <2>2, <1>7 DEF Staged, ClaimPcs, UndoPcs, SwitchPcs, RefreshPcs
<1>11. /\ \A u \in Tasks : Fits(u)' /\ Guarded(u)' /\ Staged(u)'
       /\ \A v \in Workspaces : GuardMeans(v)' /\ Sound(v)'
       /\ SlicesApart'
  BY <1>7, <1>8, <1>9, <1>10, Quiet DEF locks, books, kernel, life
<1>12. TypeOK'
  BY <1>0, <1>6, <1>9 DEF TypeOK, locks, books, proxy, kernel, life
<1>. QED  BY <1>11, <1>12 DEF IInv

\* So does the end of the proxy's master,
LEMMA MasterKeeps == NetAssumption /\ IInv /\ MasterDies => IInv'
<1>. SUFFICES ASSUME NetAssumption, IInv, MasterDies PROVE IInv'
  OBVIOUS
<1>1. /\ UNCHANGED <<guard, attached, services, used, bound, recorded, table, taps, task>>
      /\ faults \subseteq faults' /\ Nobody \notin Tasks
  BY DEF MasterDies, Fault, locks, books, rows, kernel, NetAssumption
<1>2. /\ \A u \in Tasks : Fits(u)' /\ Guarded(u)' /\ Staged(u)'
      /\ \A v \in Workspaces : GuardMeans(v)' /\ Sound(v)'
      /\ SlicesApart'
  BY <1>1, Quiet
<1>3. TypeOK'
  BY DEF IInv, TypeOK, MasterDies, Fault, locks, books, rows, kernel
<1>. QED  BY <1>2, <1>3 DEF IInv

\* and a daemon that has just started meets it whatever the kernel holds,
LEMMA FreshKeeps ==
  ASSUME NetAssumption, TypeOK',
         guard' = [w \in Workspaces |-> FreeGuard],
         attached' = [w \in Workspaces |-> NoSlice],
         services' = [w \in Workspaces |-> "none"],
         task' = [t \in Tasks |-> IdleTask]
  PROVE  IInv'
<1>1. ASSUME NEW t \in Tasks PROVE Fits(t)' /\ Guarded(t)' /\ Staged(t)' /\ ~Owns(t)'
  <2>1. task'[t].op = "none" /\ task'[t].pc = "idle"
    BY DEF IdleTask
  <2>. QED  BY <2>1 DEF Fits, Guarded, Staged, Holding, Owns, At,
         ClaimPcs, UndoPcs, SwitchPcs, RefreshPcs
<1>2. ASSUME NEW w \in Workspaces PROVE GuardMeans(w)' /\ Sound(w)' /\ ~Attached(w)'
  BY DEF GuardMeans, Sound, Attached, FreeGuard, NetAssumption
<1>3. SlicesApart'
  BY <1>1, <1>2 DEF SlicesApart, AttachedApart, OwnersApart
<1>. QED  BY <1>1, <1>2, <1>3 DEF IInv

\* after a restart
LEMMA RestartKeeps == NetAssumption /\ IInv /\ Restart => IInv'
<1>. SUFFICES ASSUME NetAssumption, IInv, Restart PROVE IInv'
  OBVIOUS
<1>0. TypeOK
  BY DEF IInv
<1>1. restarts' \in 0..MaxFaults
  <2>1. Cardinality(faults) \in Nat
    BY <1>0, KindsFinite DEF TypeOK, Kinds
  <2>. QED  BY <2>1, <1>0 DEF Restart, TypeOK, NetAssumption
<1>2. IdleTask \in TaskType
  BY DEF IdleTask, TaskType, Pcs
<1>3. TypeOK'
  BY <1>0, <1>1, <1>2 DEF Restart, TypeOK, FreeGuard, rows, kernel
<1>. QED  BY <1>3, FreshKeeps DEF Restart

\* and at the start.
LEMMA InitHolds == NetAssumption /\ Init => IInv
<1>. SUFFICES ASSUME NetAssumption, Init PROVE IInv
  OBVIOUS
<1>1. IdleTask \in TaskType /\ NoTable \in TableType
  BY DEF IdleTask, TaskType, Pcs, NoTable, TableType
<1>2. TypeOK
  BY <1>1 DEF Init, TypeOK, FreeGuard, NetAssumption
<1>3. ASSUME NEW t \in Tasks PROVE Fits(t) /\ Guarded(t) /\ Staged(t) /\ ~Owns(t)
  <2>1. task[t].op = "none" /\ task[t].pc = "idle"
    BY DEF Init, IdleTask
  <2>. QED  BY <2>1 DEF Fits, Guarded, Staged, Holding, Owns, At,
         ClaimPcs, UndoPcs, SwitchPcs, RefreshPcs
<1>4. ASSUME NEW w \in Workspaces PROVE GuardMeans(w) /\ Sound(w) /\ ~Attached(w)
  BY DEF Init, GuardMeans, Sound, Attached, FreeGuard, NetAssumption
<1>5. SlicesApart
  BY <1>3, <1>4 DEF SlicesApart, AttachedApart, OwnersApart
<1>. QED  BY <1>2, <1>3, <1>4, <1>5 DEF IInv

\* A step that changes nothing keeps it.
LEMMA StutterKeeps == IInv /\ UNCHANGED vars => IInv'
BY DEF IInv, vars, locks, books, proxy, rows, kernel, life, TypeOK, Fits, Guarded, Staged,
   GuardMeans, Sound, SlicesApart, AttachedApart, OwnersApart, Owns, Holding, Depth, At, Ws,
   Attached, Never

\* The inductive invariant holds at every step.
THEOREM Inductive == Spec => []IInv
<1>1. Init => IInv
  BY NetAssumption, InitHolds
<1>2. IInv /\ [Next]_vars => IInv'
  BY NetAssumption, StepKeeps, CallKeeps, MasterKeeps, RestartKeeps, StutterKeeps DEF Next
<1>. QED  BY <1>1, <1>2, PTL DEF Spec

\* Every variable of the network manager and the interceptor keeps its type,
\* whatever the number of workspaces, calls, slices and failures.
THEOREM TypeCorrect == Spec => []TypeOK
<1>1. IInv => TypeOK
  BY DEF IInv
<1>. QED  BY <1>1, Inductive, PTL

\* The queue of a served interactive table always has its consumer: attach binds
\* it before the table and switch before the exchange, and both release it after.
THEOREM QueueIsServed == Spec => []QueueServed
<1>1. IInv => QueueServed
  BY DEF IInv, Sound, QueueServed
<1>. QED  BY <1>1, Inductive, PTL

\* With the guard free, the books and the kernel name the same posture.
THEOREM PosturesAgree == Spec => []PostureAgrees
<1>1. IInv => PostureAgrees
  BY DEF IInv, Sound, PostureAgrees
<1>. QED  BY <1>1, Inductive, PTL

\* An attachment found by the next attach has its tap, its services, its live
\* slice and its row, short of the failure that leaves it behind.
THEOREM AttachmentsAreWhole == Spec => []AttachedIsWhole
<1>1. IInv => AttachedIsWhole
  BY DEF IInv, Sound, SlicesApart, AttachedApart, AttachedIsWhole, Never
<1>. QED  BY <1>1, Inductive, PTL

\* No two attachments share a slice, for any pool and any rows that remember one.
THEOREM SlicesAreExclusive == Spec => []SliceExclusive
<1>1. IInv => SliceExclusive
  <2>. SUFFICES ASSUME IInv, NEW w \in Workspaces, NEW v \in Workspaces, w # v,
                       Attached(w), attached[w] = attached[v], "late" \notin faults
                PROVE  FALSE
    BY DEF SliceExclusive
  <2>1. AttachedApart
    BY DEF IInv, SlicesApart, Never
  <2>. QED  BY <2>1 DEF AttachedApart
<1>. QED  BY <1>1, Inductive, PTL

================================================================================
