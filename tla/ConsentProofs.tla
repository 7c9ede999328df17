------------------------------ MODULE ConsentProofs ------------------------------
(***************************************************************************)
(* Theorems about Consent, for any workspaces, flows, decide requests and  *)
(* bounds: the types hold, every open hold has exactly one closer, allows  *)
(* rest on committed verdicts, and the engine implements Verdict.          *)
(*                                                                         *)
(* TypeOK is not inductive as it stands: a verdict is written from a       *)
(* resolve's record and a posture from a switched row, so TypeInv also     *)
(* says that a task at work names its request, and that a switch in flight *)
(* still has its row.                                                      *)
(*                                                                         *)
(* The inductive invariant on top of it follows a request through its      *)
(* life: nobody works on it before it is registered (Fresh, Unheld); from  *)
(* then on the registration and the four tasks that may pop it exclude     *)
(* each other (Exclusive) until its future is answered (Owned); and a      *)
(* committed verdict is final (Committed).                                 *)
(***************************************************************************)
EXTENDS Consent, TLAPS

\* Tasks at work on a request name it, and what they were asked.
TasksName ==
  /\ \A d \in Resolvers : res[d].pc # "idle" =>
       /\ res[d].req \in Flows
       /\ res[d].verdict \in Verdicts
       /\ res[d].duration \in Durations
  /\ \A t \in Teardowns : td[t].pc \in {"expire", "close"} => td[t].cur \in Flows

\* No workspace is deleted under its own switch.
SwitchesLive ==
  \A w \in Workspaces :
    Switching(w) => mode[w] # "missing" /\ vm[w] # "deleting"

\* A switch starts from a mode, never from a missing row.
TypeInv == TypeOK /\ TasksName /\ SwitchesLive
-------------------------------------------------------------------------------

\* Every statement keeps the table a table of well-formed rows.
LEMMA RowsTyped ==
  ASSUME NEW W, NEW D, NEW F, NEW kept \in [F -> RowType(W, D)]
  PROVE  /\ \A r \in F, w \in W, d \in D :
              Created(kept, r, w, d) \in [F -> RowType(W, D)]
         /\ \A r : \A verdict \in Verdicts, duration \in Durations :
              Decided(kept, r, verdict, duration) \in [F -> RowType(W, D)]
         /\ \A r : Expired(kept, r) \in [F -> RowType(W, D)]
         /\ AllExpired(kept) \in [F -> RowType(W, D)]
         /\ \A r : Revoked(kept, r) \in [F -> RowType(W, D)]
         /\ \A gone : Deleted(kept, gone) \in [F -> RowType(W, D)]
<1> USE DEF RowType, Decisions, Verdicts, Durations
<1>1. ASSUME NEW r \in F, NEW w \in W, NEW d \in D
      PROVE  Created(kept, r, w, d) \in [F -> RowType(W, D)]
  BY DEF Created
<1>2. ASSUME NEW r, NEW verdict \in Verdicts, NEW duration \in Durations
      PROVE  Decided(kept, r, verdict, duration) \in [F -> RowType(W, D)]
  BY DEF Decided
<1>3. ASSUME NEW r PROVE Expired(kept, r) \in [F -> RowType(W, D)]
  BY DEF Expired
<1>4. AllExpired(kept) \in [F -> RowType(W, D)]
  BY DEF AllExpired
<1>5. ASSUME NEW r PROVE Revoked(kept, r) \in [F -> RowType(W, D)]
  BY DEF Revoked
<1>6. ASSUME NEW gone PROVE Deleted(kept, gone) \in [F -> RowType(W, D)]
  BY DEF Deleted
<1> QED
  BY <1>1, <1>2, <1>3, <1>4, <1>5, <1>6

\* A frame published for one request leaves the frames well-typed.
LEMMA AppendTyped ==
  ASSUME NEW S, NEW F, NEW s \in [F -> Seq(S)], NEW g, NEW x \in S
  PROVE  [s EXCEPT ![g] = Append(@, x)] \in [F -> Seq(S)]
<1>1. \A h \in F : Append(s[h], x) \in Seq(S)
  <2>1. \A h \in F : s[h] \in Seq(S)
    OBVIOUS
  <2> QED
    BY <2>1
<1> QED
  BY <1>1

\* Every step keeps every variable in its type.
LEMMA TypeStep == TypeOK /\ TasksName /\ SwitchesLive /\ [Next]_vars => TypeOK'
<1> SUFFICES ASSUME TypeOK, TasksName, SwitchesLive, [Next]_vars PROVE TypeOK'
  OBVIOUS
<1> USE WorkspacesAssumption, FlowsAssumption, BoundsAssumption
<1>rows. rows \in [Flows -> RowType(Workspaces, Dests)]
  BY DEF TypeOK
<1>fut. fut \in [Flows -> {"none", "open", "allow", "deny", "cancelled"}]
  BY DEF TypeOK
<1>timer. timer \in [Flows -> {"none", "armed", "expire", "close", "ended"}]
  BY DEF TypeOK
<1>flow. flow \in [Flows -> {"idle"} \cup Active \cup Ended]
  BY DEF TypeOK
<1>res. res \in [Resolvers -> ResolveType]
  BY DEF TypeOK
<1>td. td \in [Teardowns -> TeardownType]
  BY DEF TypeOK
<1>ruled. ruled \in [Flows -> Verdicts \cup {"none"}]
  BY DEF TypeOK
<1>told. told \in [Flows -> Seq(Labels)]
  BY DEF TypeOK
<1>mode. mode \in [Workspaces -> Modes \cup {"missing"}]
  BY DEF TypeOK
<1>prior. prior \in [Workspaces -> Modes \cup {"none"}]
  BY DEF TypeOK
<1>posture. posture \in [Workspaces -> Modes]
  BY DEF TypeOK
<1>vm. vm \in [Workspaces -> {"down", "attached", "detached", "wedged", "deleting"}]
  BY DEF TypeOK
<1>sets. /\ holds \subseteq Flows /\ undo \subseteq Flows
         /\ session \subseteq Workspaces \X Dests \X Verdicts
  BY DEF TypeOK
<1>table. /\ \A f \in Flows : Created(rows, f, WsOf[f], DestOf[f])
                               \in [Flows -> RowType(Workspaces, Dests)]
          /\ \A f : \A verdict \in Verdicts, duration \in Durations :
               Decided(rows, f, verdict, duration)
                 \in [Flows -> RowType(Workspaces, Dests)]
          /\ \A f : Expired(rows, f) \in [Flows -> RowType(Workspaces, Dests)]
          /\ AllExpired(rows) \in [Flows -> RowType(Workspaces, Dests)]
          /\ \A f : Revoked(rows, f) \in [Flows -> RowType(Workspaces, Dests)]
          /\ \A gone : Deleted(rows, gone)
                         \in [Flows -> RowType(Workspaces, Dests)]
  BY <1>rows, RowsTyped
<1>frame. \A f : \A label \in Labels :
            Published(f, label) \in [Flows -> Seq(Labels)]
  BY <1>told, AppendTyped DEF Published
<1>1. ASSUME NEW f \in Flows, Arrive(f) PROVE TypeOK'
  <2>1. flow' \in [Flows -> {"idle"} \cup Active \cup Ended]
    BY <1>1, <1>flow DEF Arrive, Active, Gating, Recording, Ended
  <2> QED
    BY <1>1, <2>1 DEF Arrive, TypeOK, rowVars, memVars, taskVars, envVars
<1>2. ASSUME NEW f \in Flows, HoldMode(f) PROVE TypeOK'
  <2>1. flow' \in [Flows -> {"idle"} \cup Active \cup Ended]
    BY <1>2, <1>flow DEF HoldMode, GoTo, Active, Gating, Recording, Ended
  <2> QED
    BY <1>2, <2>1 DEF HoldMode, GoTo, NoFault, TypeOK, rowVars, memVars,
      taskVars, envVars
<1>3. ASSUME NEW f \in Flows, HoldRecord(f) PROVE TypeOK'
  <2>1. flow' \in [Flows -> {"idle"} \cup Active \cup Ended]
    BY <1>3, <1>flow DEF HoldRecord, GoTo, Active, Gating, Recording, Ended
  <2> QED
    BY <1>3, <2>1 DEF HoldRecord, GoTo, NoFault, TypeOK, rowVars, memVars,
      taskVars, envVars
<1>4. ASSUME NEW f \in Flows, HoldGate(f) PROVE TypeOK'
  <2>1. flow' \in [Flows -> {"idle"} \cup Active \cup Ended]
    BY <1>4, <1>flow DEF HoldGate, GoTo, Active, Gating, Recording, Ended
  <2> QED
    BY <1>4, <2>1 DEF HoldGate, GoTo, NoFault, TypeOK, rowVars, memVars,
      taskVars, envVars
<1>5. ASSUME NEW f \in Flows, HoldPending(f) PROVE TypeOK'
  <2>1. flow' \in [Flows -> {"idle"} \cup Active \cup Ended]
    BY <1>5, <1>flow DEF HoldPending, GoTo, Active, Gating, Recording, Ended
  <2> QED
    BY <1>5, <2>1 DEF HoldPending, GoTo, NoFault, TypeOK, rowVars, memVars,
      taskVars, envVars
<1>6. ASSUME NEW f \in Flows, HoldCap(f) PROVE TypeOK'
  <2>1. flow' \in [Flows -> {"idle"} \cup Active \cup Ended]
    BY <1>6, <1>flow DEF HoldCap, GoTo, Active, Gating, Recording, Ended
  <2> QED
    BY <1>6, <2>1 DEF HoldCap, GoTo, NoFault, TypeOK, rowVars, memVars,
      taskVars, envVars
<1>7. ASSUME NEW f \in Flows, HoldCreate(f) PROVE TypeOK'
  <2>1. rows' \in [Flows -> RowType(Workspaces, Dests)]
    BY <1>7, <1>rows, <1>table DEF HoldCreate
  <2>2. flow' \in [Flows -> {"idle"} \cup Active \cup Ended]
    BY <1>7, <1>flow DEF HoldCreate, GoTo, Active, Gating, Recording, Ended
  <2> QED
    BY <1>7, <2>1, <2>2 DEF HoldCreate, GoTo, NoFault, TypeOK, rowVars,
      memVars, taskVars, envVars
<1>8. ASSUME NEW f \in Flows, HoldFails(f) PROVE TypeOK'
  <2>1. flow' \in [Flows -> {"idle"} \cup Active \cup Ended]
    BY <1>8, <1>flow DEF HoldFails, GoTo, Active, Gating, Recording, Ended
  <2> QED
    BY <1>8, <2>1 DEF HoldFails, GoTo, Fault, TypeOK, rowVars, memVars,
      taskVars, envVars
<1>9. ASSUME NEW f \in Flows, HoldRegister(f) PROVE TypeOK'
  <2>1. fut' \in [Flows -> {"none", "open", "allow", "deny", "cancelled"}]
    BY <1>9, <1>fut DEF HoldRegister
  <2>2. timer' \in [Flows -> {"none", "armed", "expire", "close", "ended"}]
    BY <1>9, <1>timer DEF HoldRegister
  <2>3. flow' \in [Flows -> {"idle"} \cup Active \cup Ended]
    BY <1>9, <1>flow DEF HoldRegister, GoTo, Active, Gating, Recording, Ended
  <2> QED
    BY <1>9, <2>1, <2>2, <2>3 DEF HoldRegister, GoTo, NoFault, TypeOK,
      rowVars, memVars, taskVars, envVars
<1>10. ASSUME NEW f \in Flows, Answered(f) PROVE TypeOK'
  <2>1. flow' \in [Flows -> {"idle"} \cup Active \cup Ended]
    BY <1>10, <1>flow DEF Answered, GoTo, Active, Gating, Recording, Ended
  <2> QED
    BY <1>10, <2>1 DEF Answered, GoTo, NoFault, TypeOK, rowVars, memVars,
      taskVars, envVars
<1>11. ASSUME NEW f \in Flows, TimerPop(f) PROVE TypeOK'
  <2>1. timer' \in [Flows -> {"none", "armed", "expire", "close", "ended"}]
    BY <1>11, <1>timer DEF TimerPop
  <2> QED
    BY <1>11, <2>1 DEF TimerPop, TypeOK, rowVars, memVars, taskVars, envVars
<1>12. ASSUME NEW f \in Flows, TimerExpire(f) PROVE TypeOK'
  <2>1. rows' \in [Flows -> RowType(Workspaces, Dests)]
    BY <1>12, <1>rows, <1>table DEF TimerExpire, TryExpire
  <2>2. timer' \in [Flows -> {"none", "armed", "expire", "close", "ended"}]
    BY <1>12, <1>timer DEF TimerExpire
  <2> QED
    BY <1>12, <2>1, <2>2 DEF TimerExpire, TryExpire, Fault, NoFault, TypeOK,
      rowVars, memVars, taskVars, envVars
<1>13. ASSUME NEW f \in Flows, TimerClose(f) PROVE TypeOK'
  <2>1. fut' \in [Flows -> {"none", "open", "allow", "deny", "cancelled"}]
    BY <1>13, <1>fut DEF TimerClose, FailCloseHold, Settled
  <2>2. timer' \in [Flows -> {"none", "armed", "expire", "close", "ended"}]
    BY <1>13, <1>timer DEF TimerClose
  <2>3. told' \in [Flows -> Seq(Labels)]
    BY <1>13, <1>told, <1>frame DEF TimerClose, FailCloseHold, Labels
  <2> QED
    BY <1>13, <2>1, <2>2, <2>3 DEF TimerClose, TypeOK, rowVars, memVars,
      taskVars, envVars
<1>14. ASSUME NEW f \in Flows, RevokeFlip(f) PROVE TypeOK'
  <2>1. rows' \in [Flows -> RowType(Workspaces, Dests)]
    BY <1>14, <1>rows, <1>table DEF RevokeFlip
  <2> QED
    BY <1>14, <2>1 DEF RevokeFlip, TypeOK, rowVars, memVars, taskVars, envVars
<1>15. ASSUME NEW f \in Flows, RevokeForget(f) PROVE TypeOK'
  <2> QED
    BY <1>15 DEF RevokeForget, TypeOK, rowVars, memVars, taskVars, envVars
<1>16. ASSUME NEW d \in Resolvers, ResolvePop(d) PROVE TypeOK'
  <2>1. timer' \in [Flows -> {"none", "armed", "expire", "close", "ended"}]
    BY <1>16, <1>timer DEF ResolvePop, Cancelled
  <2>2. res' \in [Resolvers -> ResolveType]
    <3>1. PICK f \in holds, verdict \in Verdicts, duration \in Offered :
            res' = [res EXCEPT ![d] = [pc |-> "decide", req |-> f,
                      verdict |-> verdict, duration |-> duration]]
      BY <1>16 DEF ResolvePop
    <3>2. f \in Flows /\ duration \in Durations
      BY <1>sets, BoundsAssumption
    <3> QED
      BY <1>res, <3>1, <3>2 DEF ResolveType, ResolvePcs
  <2> QED
    BY <1>16, <2>1, <2>2 DEF ResolvePop, TypeOK, rowVars, memVars, taskVars,
      envVars
<1>17. ASSUME NEW d \in Resolvers, ResolveDecide(d) PROVE TypeOK'
  <2>1. rows' \in [Flows -> RowType(Workspaces, Dests)]
    <3>1. res[d].verdict \in Verdicts /\ res[d].duration \in Durations
      BY <1>17 DEF ResolveDecide, TasksName
    <3>2. Decided(rows, res[d].req, res[d].verdict, res[d].duration)
            \in [Flows -> RowType(Workspaces, Dests)]
      BY <1>table, <3>1
    <3> QED
      BY <1>17, <1>rows, <3>2 DEF ResolveDecide
  <2>2. ruled' \in [Flows -> Verdicts \cup {"none"}]
    BY <1>17, <1>ruled, <1>res DEF ResolveDecide, Verdicts, ResolveType
  <2>3. res' \in [Resolvers -> ResolveType]
    BY <1>17, <1>res DEF ResolveDecide, ResolveType, ResolvePcs
  <2> QED
    BY <1>17, <2>1, <2>2, <2>3 DEF ResolveDecide, Fault, NoFault, TypeOK,
      rowVars, memVars, taskVars, envVars
<1>18. ASSUME NEW d \in Resolvers, ResolveFinish(d) PROVE TypeOK'
  <2>1. fut' \in [Flows -> {"none", "open", "allow", "deny", "cancelled"}]
    BY <1>18, <1>fut DEF ResolveFinish, Finish, Settled
  <2>2. res[d].req \in Flows /\ res[d].verdict \in Verdicts
    BY <1>18 DEF ResolveFinish, TasksName
  <2>3. told' \in [Flows -> Seq(Labels)]
    BY <1>18, <1>frame, <2>2 DEF ResolveFinish, Labels
  <2>4. session' \subseteq Workspaces \X Dests \X Verdicts
    BY <1>18, <1>sets, <2>2 DEF ResolveFinish, Remembered
  <2>5. res' \in [Resolvers -> ResolveType]
    BY <1>18, <1>res DEF ResolveFinish, ResolveType, ResolvePcs
  <2> QED
    BY <1>18, <2>1, <2>2, <2>3, <2>4, <2>5 DEF ResolveFinish, TypeOK, rowVars,
      memVars, taskVars, envVars
<1>19. ASSUME NEW d \in Resolvers, ResolveGone(d) PROVE TypeOK'
  <2>1. fut' \in [Flows -> {"none", "open", "allow", "deny", "cancelled"}]
    BY <1>19, <1>fut DEF ResolveGone, Finish, Settled
  <2>2. res' \in [Resolvers -> ResolveType]
    BY <1>19, <1>res DEF ResolveGone, ResolveType, ResolvePcs
  <2> QED
    BY <1>19, <2>1, <2>2 DEF ResolveGone, TypeOK, rowVars, memVars, taskVars,
      envVars
<1>20. ASSUME NEW d \in Resolvers, ResolveExpire(d) PROVE TypeOK'
  <2>1. rows' \in [Flows -> RowType(Workspaces, Dests)]
    BY <1>20, <1>rows, <1>table, <1>res DEF ResolveExpire, TryExpire,
      ResolveType
  <2>2. told' \in [Flows -> Seq(Labels)]
    BY <1>20, <1>told, <1>frame DEF ResolveExpire, Labels
  <2>3. res' \in [Resolvers -> ResolveType]
    BY <1>20, <1>res DEF ResolveExpire, ResolveType, ResolvePcs
  <2> QED
    BY <1>20, <2>1, <2>2, <2>3 DEF ResolveExpire, TryExpire, Fault, NoFault,
      TypeOK, rowVars, memVars, taskVars, envVars
<1>21. ASSUME NEW d \in Resolvers, ResolveTail(d) PROVE TypeOK'
  <2>1. res' \in [Resolvers -> ResolveType]
    BY <1>21, <1>res DEF ResolveTail, ResolveType, ResolvePcs, IdleResolve
  <2> QED
    BY <1>21, <2>1 DEF ResolveTail, TypeOK, rowVars, memVars, taskVars,
      envVars
<1>22. ASSUME NEW d \in Resolvers, ResolveAbort(d) PROVE TypeOK'
  <2>1. rows' \in [Flows -> RowType(Workspaces, Dests)]
    BY <1>22, <1>rows, <1>table, <1>res DEF ResolveAbort, TryExpire,
      ResolveType
  <2>2. res' \in [Resolvers -> ResolveType]
    BY <1>22, <1>res DEF ResolveAbort, ResolveType, ResolvePcs, IdleResolve
  <2> QED
    BY <1>22, <2>1, <2>2 DEF ResolveAbort, TryExpire, Fault, NoFault, TypeOK,
      rowVars, memVars, taskVars, envVars
<1>23. ASSUME NEW d \in Resolvers, ResolveCancelled(d) PROVE TypeOK'
  <2>1. fut' \in [Flows -> {"none", "open", "allow", "deny", "cancelled"}]
    BY <1>23, <1>fut DEF ResolveCancelled, FailCloseHold, Settled
  <2>2. told' \in [Flows -> Seq(Labels)]
    BY <1>23, <1>told, <1>frame DEF ResolveCancelled, FailCloseHold, Labels
  <2>3. res' \in [Resolvers -> ResolveType]
    BY <1>23, <1>res DEF ResolveCancelled, ResolveType, ResolvePcs
  <2> QED
    BY <1>23, <2>1, <2>2, <2>3 DEF ResolveCancelled, TypeOK, rowVars, memVars,
      taskVars, envVars
<1>24. ASSUME NEW t \in Teardowns, TeardownPop(t) PROVE TypeOK'
  <2>1. td' \in [Teardowns -> TeardownType]
    BY <1>24, <1>td, <1>sets DEF TeardownPop, TeardownType, TeardownPcs,
      Teardowns
  <2> QED
    BY <1>24, <2>1 DEF TeardownPop, TypeOK, rowVars, memVars, taskVars,
      envVars
<1>25. ASSUME NEW t \in Teardowns, TeardownExpire(t) PROVE TypeOK'
  <2>1. rows' \in [Flows -> RowType(Workspaces, Dests)]
    BY <1>25, <1>rows, <1>table DEF TeardownExpire, TryExpire
  <2>2. td' \in [Teardowns -> TeardownType]
    BY <1>25, <1>td, <1>sets DEF TeardownExpire, TeardownType, TeardownPcs,
      Teardowns
  <2> QED
    BY <1>25, <2>1, <2>2 DEF TeardownExpire, TryExpire, Fault, NoFault,
      TypeOK, rowVars, memVars, taskVars, envVars
<1>26. ASSUME NEW t \in Teardowns, TeardownClose(t) PROVE TypeOK'
  <2>1. fut' \in [Flows -> {"none", "open", "allow", "deny", "cancelled"}]
    BY <1>26, <1>fut DEF TeardownClose, FailCloseHold, Settled
  <2>2. told' \in [Flows -> Seq(Labels)]
    BY <1>26, <1>told, <1>frame DEF TeardownClose, FailCloseHold, Labels
  <2>3. timer' \in [Flows -> {"none", "armed", "expire", "close", "ended"}]
    BY <1>26, <1>timer DEF TeardownClose, Cancelled
  <2>4. td' \in [Teardowns -> TeardownType]
    BY <1>26, <1>td, <1>sets DEF TeardownClose, TeardownType, TeardownPcs,
      Teardowns
  <2> QED
    BY <1>26, <2>1, <2>2, <2>3, <2>4 DEF TeardownClose, TypeOK, rowVars,
      memVars, taskVars, envVars
<1>27. ASSUME NEW w \in Workspaces, TeardownForget(w) PROVE TypeOK'
  <2>1. td' \in [Teardowns -> TeardownType]
    BY <1>27, <1>td, <1>sets DEF TeardownForget, TeardownType, TeardownPcs,
      Teardowns
  <2> QED
    BY <1>27, <2>1 DEF TeardownForget, TypeOK, rowVars, memVars, taskVars,
      envVars
<1>28. ASSUME NEW w \in Workspaces, TeardownClear(w) PROVE TypeOK'
  <2>1. rows' \in [Flows -> RowType(Workspaces, Dests)]
    BY <1>28, <1>rows, <1>table DEF TeardownClear
  <2>2. td' \in [Teardowns -> TeardownType]
    BY <1>28, <1>td, <1>sets DEF TeardownClear, TeardownType, TeardownPcs,
      Teardowns
  <2> QED
    BY <1>28, <2>1, <2>2 DEF TeardownClear, TypeOK, rowVars, memVars,
      taskVars, envVars
<1>29. ASSUME NEW w \in Workspaces, TeardownClearFails(w) PROVE TypeOK'
  <2>1. vm' \in [Workspaces -> {"down", "attached", "detached", "wedged", "deleting"}]
    BY <1>29, <1>vm DEF TeardownClearFails
  <2>2. td' \in [Teardowns -> TeardownType]
    BY <1>29, <1>td, <1>sets DEF TeardownClearFails, TeardownType,
      TeardownPcs, Teardowns, IdleTeardown
  <2> QED
    BY <1>29, <2>1, <2>2 DEF TeardownClearFails, Fault, TypeOK, rowVars,
      memVars, taskVars, envVars
<1>30. ASSUME NEW w \in Workspaces, Detached(w) PROVE TypeOK'
  <2>1. flow' \in [Flows -> {"idle"} \cup Active \cup Ended]
    BY <1>30, <1>flow DEF Detached, CutOff, Active, Gating, Recording, Ended
  <2>2. fut' \in [Flows -> {"none", "open", "allow", "deny", "cancelled"}]
    BY <1>30, <1>fut DEF Detached, CutOff
  <2>3. vm' \in [Workspaces -> {"down", "attached", "detached", "wedged", "deleting"}]
    BY <1>30, <1>vm DEF Detached
  <2>4. td' \in [Teardowns -> TeardownType]
    BY <1>30, <1>td, <1>sets DEF Detached, TeardownType, TeardownPcs,
      Teardowns, IdleTeardown
  <2> QED
    BY <1>30, <2>1, <2>2, <2>3, <2>4 DEF Detached, TypeOK, rowVars, memVars,
      taskVars, envVars
<1>31. ASSUME NEW w \in Workspaces, Detach(w) PROVE TypeOK'
  <2>1. td' \in [Teardowns -> TeardownType]
    BY <1>31, <1>td, <1>sets DEF Detach, TeardownType, TeardownPcs, Teardowns,
      StartTeardown, Scope
  <2> QED
    BY <1>31, <2>1 DEF Detach, TypeOK, rowVars, memVars, taskVars, envVars
<1>32. ASSUME NEW w \in Workspaces, StopDetached(w) PROVE TypeOK'
  <2>1. vm' \in [Workspaces -> {"down", "attached", "detached", "wedged", "deleting"}]
    BY <1>32, <1>vm DEF StopDetached
  <2> QED
    BY <1>32, <2>1 DEF StopDetached, TypeOK, rowVars, memVars, taskVars,
      envVars
<1>33. ASSUME NEW w \in Workspaces, Attach(w) PROVE TypeOK'
  <2>1. vm' \in [Workspaces -> {"down", "attached", "detached", "wedged", "deleting"}]
    BY <1>33, <1>vm DEF Attach
  <2>2. posture' \in [Workspaces -> Modes]
    BY <1>33, <1>posture, <1>mode DEF Attach, Modes
  <2> QED
    BY <1>33, <2>1, <2>2 DEF Attach, TypeOK, rowVars, memVars, taskVars,
      envVars
<1>34. ASSUME NEW w \in Workspaces, SwitchRetire(w) PROVE TypeOK'
  <2>1. td' \in [Teardowns -> TeardownType]
    BY <1>34, <1>td, <1>sets DEF SwitchRetire, TeardownType, TeardownPcs,
      Teardowns, StartTeardown, Scope
  <2> QED
    BY <1>34, <2>1 DEF SwitchRetire, TypeOK, rowVars, memVars, taskVars,
      envVars
<1>35. ASSUME NEW w \in Workspaces, SwitchCommit(w) PROVE TypeOK'
  <2>1. flow' \in [Flows -> {"idle"} \cup Active \cup Ended]
    BY <1>35, <1>flow DEF SwitchCommit, CutOff, Active, Gating, Recording,
      Ended
  <2>2. fut' \in [Flows -> {"none", "open", "allow", "deny", "cancelled"}]
    BY <1>35, <1>fut DEF SwitchCommit, CutOff
  <2>3. posture' \in [Workspaces -> Modes]
    BY <1>35, <1>posture, <1>mode DEF SwitchCommit, AtInstall, Switching,
      SwitchesLive
  <2>4. prior' \in [Workspaces -> Modes \cup {"none"}]
    BY <1>35, <1>prior DEF SwitchCommit, SwitchOver
  <2>5. td' \in [Teardowns -> TeardownType]
    <3>1. w \in Teardowns
      BY DEF Teardowns
    <3>2. CASE td' = [td EXCEPT ![w] = IdleTeardown]
      BY <1>td, <3>1, <3>2 DEF TeardownType, TeardownPcs, IdleTeardown
    <3>3. CASE td' = [td EXCEPT ![w].pc = "replay"]
      BY <1>td, <3>1, <3>3 DEF TeardownType, TeardownPcs
    <3> QED
      BY <1>35, <3>2, <3>3 DEF SwitchCommit, SwitchOver
  <2> QED
    BY <1>35, <2>1, <2>2, <2>3, <2>4, <2>5 DEF SwitchCommit, TypeOK, rowVars,
      memVars, taskVars, envVars
<1>36. ASSUME NEW w \in Workspaces, SwitchFails(w) \/ SwitchReplay(w)
       PROVE  TypeOK'
  <2>1. mode' \in [Workspaces -> Modes \cup {"missing"}]
    BY <1>36, <1>mode, <1>prior DEF SwitchFails, SwitchReplay, PutBack,
      AtInstall, Switching
  <2>2. prior' \in [Workspaces -> Modes \cup {"none"}]
    BY <1>36, <1>prior DEF SwitchFails, SwitchReplay, SwitchOver
  <2>3. td' \in [Teardowns -> TeardownType]
    <3>1. w \in Teardowns
      BY DEF Teardowns
    <3>2. td' = [td EXCEPT ![w] = IdleTeardown]
      BY <1>36 DEF SwitchFails, SwitchReplay, SwitchOver
    <3>3. IdleTeardown \in TeardownType
      BY DEF IdleTeardown, TeardownType, TeardownPcs
    <3> QED
      BY <1>td, <3>1, <3>2, <3>3
  <2> QED
    BY <1>36, <2>1, <2>2, <2>3 DEF SwitchFails, SwitchReplay, PutBack, Fault,
      NoFault, TypeOK, rowVars, memVars, taskVars, envVars
<1>37. ASSUME NEW w \in Workspaces, SwitchUnattached(w) PROVE TypeOK'
  <2>1. prior' \in [Workspaces -> Modes \cup {"none"}]
    BY <1>37, <1>prior DEF SwitchUnattached
  <2> QED
    BY <1>37, <2>1 DEF SwitchUnattached, TypeOK, rowVars, memVars, taskVars,
      envVars
<1>38. ASSUME NEW w \in Workspaces, DeleteRows(w) PROVE TypeOK'
  <2>1. rows' \in [Flows -> RowType(Workspaces, Dests)]
    BY <1>38, <1>rows, <1>table DEF DeleteRows
  <2>2. vm' \in [Workspaces -> {"down", "attached", "detached", "wedged", "deleting"}]
    BY <1>38, <1>vm DEF DeleteRows
  <2> QED
    BY <1>38, <2>1, <2>2 DEF DeleteRows, TypeOK, rowVars, memVars, taskVars,
      envVars
<1>39. ASSUME NEW w \in Workspaces, DeleteWorkspace(w) PROVE TypeOK'
  <2>1. mode' \in [Workspaces -> Modes \cup {"missing"}]
    BY <1>39, <1>mode DEF DeleteWorkspace
  <2>2. vm' \in [Workspaces -> {"down", "attached", "detached", "wedged", "deleting"}]
    BY <1>39, <1>vm DEF DeleteWorkspace
  <2> QED
    BY <1>39, <2>1, <2>2 DEF DeleteWorkspace, TypeOK, rowVars, memVars,
      taskVars, envVars
<1>40. ASSUME NEW w \in Workspaces, NEW m \in SwitchModes, SwitchWrite(w, m) PROVE TypeOK'
  <2>1. mode' \in [Workspaces -> Modes \cup {"missing"}]
    BY <1>40, <1>mode, <1>prior DEF SwitchWrite
  <2>2. prior' \in [Workspaces -> Modes \cup {"none"}]
    BY <1>40, <1>mode, <1>prior DEF SwitchWrite
  <2> QED
    BY <1>40, <2>1, <2>2 DEF SwitchWrite, TypeOK, rowVars, memVars, taskVars,
      envVars
<1>41. CASE EngineStopped
  <2>1. td' \in [Teardowns -> TeardownType]
    BY <1>41, <1>td, <1>sets DEF EngineStopped, TeardownType, TeardownPcs,
      Teardowns
  <2> QED
    BY <1>41, <2>1 DEF EngineStopped, TypeOK, rowVars, memVars, taskVars,
      envVars
<1>42. CASE StopEngine
  <2>1. td' \in [Teardowns -> TeardownType]
    BY <1>42, <1>td, <1>sets DEF StopEngine, TeardownType, TeardownPcs,
      Teardowns, StartTeardown, Scope
  <2> QED
    BY <1>42, <2>1 DEF StopEngine, TypeOK, rowVars, memVars, taskVars, envVars
<1>43. CASE Restart
  <2>1. rows' \in [Flows -> RowType(Workspaces, Dests)]
    BY <1>43, <1>rows, <1>table DEF Restart
  <2>2. fut' \in [Flows -> {"none", "open", "allow", "deny", "cancelled"}]
    BY <1>43, <1>fut DEF Restart
  <2>3. timer' \in [Flows -> {"none", "armed", "expire", "close", "ended"}]
    BY <1>43, <1>timer DEF Restart
  <2>4. flow' \in [Flows -> {"idle"} \cup Active \cup Ended]
    BY <1>43, <1>flow DEF Restart, Active, Gating, Recording, Ended
  <2>5. res' \in [Resolvers -> ResolveType]
    BY <1>43, <1>res DEF Restart, ResolveType, ResolvePcs, IdleResolve
  <2>6. td' \in [Teardowns -> TeardownType]
    BY <1>43, <1>td, <1>sets DEF Restart, TeardownType, TeardownPcs,
      Teardowns, IdleTeardown
  <2>7. vm' \in [Workspaces -> {"down", "attached", "detached", "wedged", "deleting"}]
    BY <1>43, <1>vm DEF Restart
  <2>8. prior' \in [Workspaces -> Modes \cup {"none"}]
    BY <1>43, <1>prior DEF Restart
  <2> QED
    BY <1>43, <2>1, <2>2, <2>3, <2>4, <2>5, <2>6, <2>7, <2>8 DEF Restart,
      Active, Gating, Recording, Ended, TypeOK, rowVars, memVars, taskVars,
      envVars
<1>44. CASE UNCHANGED vars
  BY <1>44 DEF TypeOK, vars, rowVars, memVars, taskVars, envVars
<1> QED
  BY <1>1, <1>2, <1>3, <1>4, <1>5, <1>6, <1>7, <1>8, <1>9, <1>10, <1>11,
    <1>12, <1>13, <1>14, <1>15, <1>16, <1>17, <1>18, <1>19, <1>20, <1>21,
    <1>22, <1>23, <1>24, <1>25, <1>26, <1>27, <1>28, <1>29, <1>30, <1>31,
    <1>32, <1>33, <1>34, <1>35, <1>36, <1>37, <1>38, <1>39, <1>40, <1>41,
    <1>42, <1>43, <1>44 DEF Next, HoldStep, TimerStep, ResolveStep,
    TeardownStep, SwitchStep, Teardowns

\* The steps that touch a decide request's or a teardown's record.
LEMMA TaskFootprint ==
  [Next]_vars =>
    \/ UNCHANGED <<res, td>>
    \/ \E d \in Resolvers :
         ResolvePop(d) \/ ResolveStep(d) \/ ResolveCancelled(d)
    \/ \E t \in Teardowns : TeardownStep(t)
    \/ \E w \in Workspaces : Detach(w) \/ SwitchStep(w)
    \/ StopEngine
    \/ Restart
  BY DEF Next, vars, taskVars, HoldStep, TimerStep, Arrive, HoldMode,
    HoldRecord, HoldGate, HoldPending, HoldCap, HoldCreate, HoldFails,
    HoldRegister, Answered, GoTo, TimerPop, TimerExpire, TimerClose,
    RevokeFlip, RevokeForget, StopDetached, Attach, DeleteRows,
    DeleteWorkspace, SwitchWrite

\* A task at work goes on naming its request.
LEMMA NamesStep == TypeOK /\ TasksName /\ [Next]_vars => TasksName'
<1> SUFFICES ASSUME TypeOK, TasksName, [Next]_vars PROVE TasksName'
  OBVIOUS
<1>res. res \in [Resolvers -> ResolveType]
  BY DEF TypeOK
<1>td. td \in [Teardowns -> TeardownType]
  BY DEF TypeOK
<1>holds. holds \subseteq Flows
  BY DEF TypeOK
<1>1. CASE UNCHANGED <<res, td>>
  BY <1>1 DEF TasksName
<1>2. ASSUME NEW d \in Resolvers, ResolvePop(d) PROVE TasksName'
  <2>1. PICK f \in holds, verdict \in Verdicts, duration \in Offered :
          res' = [res EXCEPT ![d] = [pc |-> "decide", req |-> f,
                    verdict |-> verdict, duration |-> duration]]
    BY <1>2 DEF ResolvePop
  <2>2. f \in Flows /\ duration \in Durations
    BY <1>holds, BoundsAssumption
  <2>3. td' = td
    BY <1>2 DEF ResolvePop
  <2> QED
    BY <1>res, <2>1, <2>2, <2>3 DEF TasksName
<1>3. ASSUME NEW d \in Resolvers, ResolveStep(d) \/ ResolveCancelled(d)
      PROVE  TasksName'
  <2>1. td' = td
    BY <1>3 DEF ResolveStep, ResolveDecide, ResolveFinish, ResolveGone,
      ResolveExpire, ResolveTail, ResolveAbort, ResolveCancelled
  <2>2. \/ res' = [res EXCEPT ![d] = IdleResolve]
        \/ /\ res[d].pc # "idle"
           /\ \E pc \in ResolvePcs : res' = [res EXCEPT ![d].pc = pc]
    BY <1>3 DEF ResolveStep, ResolveDecide, ResolveFinish, ResolveGone,
      ResolveExpire, ResolveTail, ResolveAbort, ResolveCancelled, ResolvePcs
  <2>3. CASE res' = [res EXCEPT ![d] = IdleResolve]
    BY <1>res, <2>1, <2>3 DEF TasksName, IdleResolve
  <2>4. ASSUME res[d].pc # "idle", NEW pc \in ResolvePcs,
               res' = [res EXCEPT ![d].pc = pc]
        PROVE  TasksName'
    BY <1>res, <2>1, <2>4 DEF TasksName, ResolveType
  <2> QED
    BY <2>2, <2>3, <2>4
<1>4. ASSUME NEW t \in Teardowns, TeardownStep(t) PROVE TasksName'
  <2>1. res' = res
    BY <1>4 DEF TeardownStep, TeardownPop, TeardownExpire, TeardownClose,
      TeardownForget, TeardownClear, TeardownClearFails, Detached,
      EngineStopped
  <2>2. CASE TeardownPop(t)
    BY <1>td, <1>holds, <2>1, <2>2 DEF TeardownPop, TasksName, TeardownType
  <2>3. CASE TeardownExpire(t)
    BY <1>td, <2>1, <2>3 DEF TeardownExpire, TasksName, TeardownType
  <2>4. CASE TeardownClose(t)
    BY <1>td, <2>1, <2>4 DEF TeardownClose, TasksName, TeardownType
  <2>5. CASE \/ td' = [td EXCEPT ![t] = IdleTeardown]
             \/ \E pc \in {"clear", "unbind", "stopped"} :
                  td' = [td EXCEPT ![t].pc = pc]
    BY <1>td, <2>1, <2>5 DEF TasksName, TeardownType, IdleTeardown
  <2> QED
    BY <1>4, <2>2, <2>3, <2>4, <2>5 DEF TeardownStep, TeardownForget,
      TeardownClear, TeardownClearFails, Detached, EngineStopped
<1>5. ASSUME NEW w \in Workspaces, Detach(w) \/ SwitchStep(w)
      PROVE  TasksName'
  <2>1. res' = res
    BY <1>5 DEF Detach, SwitchStep, SwitchRetire, SwitchCommit, SwitchFails,
      SwitchReplay, SwitchUnattached, taskVars
  <2>2. \/ td' = td
        \/ td' = [td EXCEPT ![w] = IdleTeardown]
        \/ td' = [td EXCEPT ![w].pc = "replay"]
        \/ \E kind \in {"stop", "shutdown", "switch"} : StartTeardown(w, kind)
    BY <1>5 DEF Detach, SwitchStep, SwitchRetire, SwitchCommit, SwitchFails,
      SwitchReplay, SwitchOver, SwitchUnattached, taskVars
  <2> QED
    BY <1>td, <2>1, <2>2 DEF TasksName, StartTeardown, IdleTeardown,
      TeardownType
<1>6. CASE StopEngine
  BY <1>6, <1>td DEF StopEngine, StartTeardown, TasksName
<1>7. CASE Restart
  BY <1>7 DEF Restart, TasksName, IdleResolve, IdleTeardown
<1> QED
  BY TaskFootprint, <1>1, <1>2, <1>3, <1>4, <1>5, <1>6, <1>7

\* The steps that touch a switch in flight, its row or its workspace's VM.
LEMMA SwitchFootprint ==
  [Next]_vars =>
    \/ UNCHANGED <<mode, prior, vm>>
    \/ \E w \in Workspaces :
         \/ TeardownClearFails(w) \/ Detached(w) \/ StopDetached(w) \/ Attach(w)
         \/ SwitchCommit(w) \/ SwitchFails(w) \/ SwitchReplay(w)
         \/ SwitchUnattached(w)
         \/ DeleteRows(w) \/ DeleteWorkspace(w)
         \/ \E m \in SwitchModes : SwitchWrite(w, m)
    \/ Restart
  BY DEF Next, vars, envVars, HoldStep, TimerStep, ResolveStep, TeardownStep,
    SwitchStep, Teardowns, Arrive, HoldMode, HoldRecord, HoldGate,
    HoldPending, HoldCap, HoldCreate, HoldFails, HoldRegister, Answered, GoTo,
    TimerPop, TimerExpire, TimerClose, RevokeFlip, RevokeForget, ResolvePop,
    ResolveDecide, ResolveFinish, ResolveGone, ResolveExpire, ResolveTail,
    ResolveAbort, ResolveCancelled, TeardownPop, TeardownExpire,
    TeardownClose, TeardownForget, TeardownClear, EngineStopped, StopEngine,
    Detach, SwitchRetire

\* A workspace is deleted only when no switch is in flight, and a switch
\* starts only on a row that is there.
LEMMA SwitchesStep == TypeOK /\ SwitchesLive /\ [Next]_vars => SwitchesLive'
<1> SUFFICES ASSUME TypeOK, SwitchesLive, [Next]_vars PROVE SwitchesLive'
  OBVIOUS
<1>vars. /\ mode \in [Workspaces -> Modes \cup {"missing"}]
         /\ prior \in [Workspaces -> Modes \cup {"none"}]
         /\ vm \in [Workspaces -> {"down", "attached", "detached", "wedged",
                                   "deleting"}]
  BY DEF TypeOK
<1> USE DEF SwitchesLive, Switching
<1>1. CASE UNCHANGED <<mode, prior, vm>>
  BY <1>1
<1>2. ASSUME NEW w \in Workspaces,
             \/ TeardownClearFails(w) \/ Detached(w) \/ StopDetached(w)
             \/ Attach(w) \/ DeleteRows(w) \/ DeleteWorkspace(w)
      PROVE  SwitchesLive'
  BY <1>2, <1>vars DEF TeardownClearFails, Detached, StopDetached, Attach,
    DeleteRows, DeleteWorkspace
<1>3. ASSUME NEW w \in Workspaces,
             \/ SwitchCommit(w) \/ SwitchFails(w) \/ SwitchReplay(w)
             \/ SwitchUnattached(w)
      PROVE  SwitchesLive'
  BY <1>3, <1>vars DEF SwitchCommit, SwitchFails, SwitchReplay, PutBack,
    SwitchOver, SwitchUnattached
<1>4. ASSUME NEW w \in Workspaces, NEW m \in SwitchModes, SwitchWrite(w, m)
      PROVE  SwitchesLive'
  BY <1>4, <1>vars, BoundsAssumption DEF SwitchWrite, Modes
<1>5. CASE Restart
  BY <1>5 DEF Restart
<1> QED
  BY SwitchFootprint, <1>1, <1>2, <1>3, <1>4, <1>5

LEMMA TypeInit == Init => TypeInv
<1> SUFFICES ASSUME Init PROVE TypeInv
  OBVIOUS
<1>1. /\ res \in [Resolvers -> ResolveType]
      /\ td \in [Teardowns -> TeardownType]
  BY DEF Init, ResolveType, ResolvePcs, IdleResolve, TeardownType,
    TeardownPcs, IdleTeardown
<1>2. rows \in [Flows -> RowType(Workspaces, Dests)]
  BY FlowsAssumption DEF Init, RowType, Decisions
<1>3. told \in [Flows -> Seq(Labels)]
  BY DEF Init
<1>4. mode \in [Workspaces -> Modes] /\ posture \in [Workspaces -> Modes]
  BY BoundsAssumption DEF Init
<1>5. TypeOK
  BY <1>1, <1>2, <1>3, <1>4, BoundsAssumption DEF Init, TypeOK
<1>6. TasksName /\ SwitchesLive
  BY DEF Init, TasksName, SwitchesLive, Switching, IdleResolve, IdleTeardown
<1> QED
  BY <1>5, <1>6 DEF TypeInv

\* Whatever the workspaces, flows, decide requests and bounds, every variable
\* of the engine keeps its type: a verdict column holds a verdict, a posture
\* is one of the three modes, a frame carries one of the three labels.
THEOREM TypeCorrect == Spec => [](TypeInv /\ TypeOK)
<1>1. TypeInv /\ [Next]_vars => TypeInv'
  BY TypeStep, NamesStep, SwitchesStep DEF TypeInv
<1>2. TypeInv => TypeOK
  BY DEF TypeInv
<1> QED
  BY TypeInit, <1>1, <1>2, PTL DEF Spec
-------------------------------------------------------------------------------

\* A flow whose hold has not written its row.
Unasked == {"idle", "mode", "gate", "pending", "cap", "create"}

ResolverHas(d, f) ==
  res[d].req = f /\ res[d].pc \in {"decide", "decided", "gone"}
TeardownHas(t, f) == td[t].cur = f /\ td[t].pc \in {"expire", "close"}

\* Before it is registered, a request has no row but its own INSERT's, no
\* verdict and no future.
Fresh ==
  \A f \in Flows :
    /\ flow[f] \in Unasked =>
         rows[f].decision = "absent" /\ ruled[f] = "none" /\ fut[f] = "none"
    /\ flow[f] = "register" => ruled[f] = "none" /\ fut[f] = "none"

\* Nobody works on a request without a future.
Unheld ==
  \A f \in Flows : fut[f] = "none" =>
    /\ f \notin holds
    /\ ~TimerOwes(f)
    /\ \A d \in Resolvers : ~ResolverHas(d, f)
    /\ \A t \in Teardowns : ~TeardownHas(t, f)

\* Being registered, and having been popped by one task, exclude each other.
Exclusive ==
  \A f \in Flows :
    /\ f \in holds => timer[f] = "armed"
    /\ \A d \in Resolvers : ResolverHas(d, f) =>
         /\ f \notin holds
         /\ ~TimerOwes(f)
         /\ \A e \in Resolvers : ResolverHas(e, f) => e = d
         /\ \A t \in Teardowns : ~TeardownHas(t, f)
    /\ \A t \in Teardowns : TeardownHas(t, f) =>
         /\ f \notin holds
         /\ ~TimerOwes(f)
         /\ \A u \in Teardowns : TeardownHas(u, f) => u = t

\* An open future is somebody's to answer.
Owned ==
  \A f \in Flows : fut[f] = "open" =>
    \/ f \in holds
    \/ TimerOwes(f)
    \/ \E d \in Resolvers : ResolverHas(d, f)
    \/ \E t \in Teardowns : TeardownHas(t, f)

HoldInv == Unheld /\ Exclusive /\ Owned

\* A committed verdict ends the row's pending state for good.
Committed ==
  /\ \A f \in Flows : ruled[f] # "none" => ~IsPending(rows[f])
  /\ \A d \in Resolvers : res[d].pc = "decided" =>
       ruled[res[d].req] = res[d].verdict

IInv == TypeInv /\ Fresh /\ HoldInv /\ Committed /\ AllowsAreRuled
-------------------------------------------------------------------------------

\* A step of a teardown that holds no request: listing, leaving the loop,
\* clearing, unbinding, ending.  Unbinding cancels open futures.
Housekeeping(t) ==
  /\ td[t].pc \notin {"expire", "close"}
  /\ td'[t].pc \notin {"expire", "close"}
  /\ \A u \in Teardowns : u # t => td'[u] = td[u]
  /\ UNCHANGED <<holds, timer, res>>
  /\ fut' = fut \/ \E w \in Workspaces : CutOff(w)

LEMMA HousekeepingSteps ==
  ASSUME TypeOK
  PROVE  /\ \A w \in Workspaces :
              \/ TeardownForget(w) \/ TeardownClear(w) \/ TeardownClearFails(w)
              \/ Detached(w) \/ Detach(w) \/ SwitchRetire(w) \/ SwitchCommit(w)
              \/ SwitchFails(w) \/ SwitchReplay(w)
              => Housekeeping(w)
         /\ EngineStopped \/ StopEngine => Housekeeping(Daemon)
<1>td. td \in [Teardowns -> TeardownType]
  BY DEF TypeOK
<1>1. ASSUME NEW w \in Workspaces,
             TeardownForget(w) \/ TeardownClear(w) \/ TeardownClearFails(w)
      PROVE  Housekeeping(w)
  BY <1>1, <1>td DEF Housekeeping, TeardownForget, TeardownClear,
    TeardownClearFails, LoopOver, IdleTeardown, TeardownType, Teardowns, memVars
<1>2. ASSUME NEW w \in Workspaces, Detached(w) PROVE Housekeeping(w)
  BY <1>2, <1>td DEF Housekeeping, Detached, IdleTeardown, Teardowns
<1>3. ASSUME NEW w \in Workspaces, Detach(w) \/ SwitchRetire(w)
      PROVE  Housekeeping(w)
  BY <1>3, <1>td DEF Housekeeping, Detach, SwitchRetire, StartTeardown,
    Teardowns, memVars
<1>4. ASSUME NEW w \in Workspaces,
             SwitchCommit(w) \/ SwitchFails(w) \/ SwitchReplay(w)
      PROVE  Housekeeping(w)
  <2>1. td[w].pc \in {"idle", "loop", "replay"}
    BY <1>4 DEF SwitchCommit, SwitchFails, SwitchReplay, AtInstall, LoopOver
  <2>2. \/ td' = [td EXCEPT ![w] = IdleTeardown]
        \/ td' = [td EXCEPT ![w].pc = "replay"]
    BY <1>4 DEF SwitchCommit, SwitchFails, SwitchReplay, SwitchOver
  <2>3. UNCHANGED <<holds, timer, res>>
    BY <1>4 DEF SwitchCommit, SwitchFails, SwitchReplay, memVars
  <2>4. fut' = fut \/ CutOff(w)
    BY <1>4 DEF SwitchCommit, SwitchFails, SwitchReplay, memVars
  <2> QED
    BY <1>td, <2>1, <2>2, <2>3, <2>4 DEF Housekeeping, IdleTeardown, Teardowns,
      TeardownType
<1>5. ASSUME EngineStopped \/ StopEngine PROVE Housekeeping(Daemon)
  BY <1>5, <1>td DEF Housekeeping, EngineStopped, StopEngine, StartTeardown,
    LoopOver, TeardownType, Teardowns, memVars
<1> QED
  BY <1>1, <1>2, <1>3, <1>4, <1>5

\* The steps that register, pop, settle or reap a hold.
LEMMA HoldFootprint ==
  TypeOK /\ [Next]_vars =>
    \/ UNCHANGED <<holds, fut, timer, res, td>>
    \/ \E f \in Flows : HoldRegister(f) \/ TimerStep(f)
    \/ \E d \in Resolvers :
         ResolvePop(d) \/ ResolveStep(d) \/ ResolveCancelled(d)
    \/ \E t \in Teardowns :
         TeardownPop(t) \/ TeardownExpire(t) \/ TeardownClose(t)
    \/ \E t \in Teardowns : Housekeeping(t)
    \/ Restart
<1> SUFFICES ASSUME TypeOK, [Next]_vars
             PROVE  \/ UNCHANGED <<holds, fut, timer, res, td>>
                    \/ \E f \in Flows : HoldRegister(f) \/ TimerStep(f)
                    \/ \E d \in Resolvers :
                         ResolvePop(d) \/ ResolveStep(d) \/ ResolveCancelled(d)
                    \/ \E t \in Teardowns :
                         TeardownPop(t) \/ TeardownExpire(t) \/ TeardownClose(t)
                    \/ \E t \in Teardowns : Housekeeping(t)
                    \/ Restart
  OBVIOUS
<1>1. ASSUME NEW f \in Flows, Arrive(f) \/ HoldStep(f) PROVE
        HoldRegister(f) \/ UNCHANGED <<holds, fut, timer, res, td>>
  BY <1>1 DEF Arrive, HoldStep, HoldMode, HoldRecord, HoldGate, HoldPending,
    HoldCap, HoldCreate, HoldFails, Answered, GoTo, memVars
<1>2. ASSUME NEW f \in Flows, RevokeFlip(f) \/ RevokeForget(f) PROVE
        UNCHANGED <<holds, fut, timer, res, td>>
  BY <1>2 DEF RevokeFlip, RevokeForget, memVars
<1>3. ASSUME NEW w \in Workspaces,
             \/ StopDetached(w) \/ Attach(w) \/ SwitchUnattached(w)
             \/ DeleteRows(w) \/ DeleteWorkspace(w)
             \/ \E m \in SwitchModes : SwitchWrite(w, m)
      PROVE  UNCHANGED <<holds, fut, timer, res, td>>
  BY <1>3 DEF StopDetached, Attach, SwitchUnattached, DeleteRows,
    DeleteWorkspace, SwitchWrite, memVars, taskVars
<1>4. ASSUME NEW t \in Teardowns, TeardownStep(t)
      PROVE  \/ TeardownPop(t) \/ TeardownExpire(t) \/ TeardownClose(t)
             \/ Housekeeping(t)
  BY <1>4, HousekeepingSteps DEF TeardownStep, Teardowns
<1>5. ASSUME NEW w \in Workspaces,
             \/ Detach(w) \/ SwitchRetire(w) \/ SwitchCommit(w)
             \/ SwitchFails(w) \/ SwitchReplay(w)
      PROVE  w \in Teardowns /\ Housekeeping(w)
  BY <1>5, HousekeepingSteps DEF Teardowns
<1>6. CASE StopEngine
  BY <1>6, HousekeepingSteps DEF Teardowns
<1>7. CASE UNCHANGED vars
  BY <1>7 DEF vars, memVars, taskVars
<1> QED
  BY <1>1, <1>2, <1>3, <1>4, <1>5, <1>6, <1>7 DEF Next, SwitchStep

\* Every pop finds the hold registered and takes it from everyone else;
\* every answer is given by the one who popped it.
LEMMA HoldStepInv ==
  TypeInv /\ Fresh /\ HoldInv /\ [Next]_vars => HoldInv'
<1> SUFFICES ASSUME TypeInv, Fresh, HoldInv, [Next]_vars
             PROVE  HoldInv'
  OBVIOUS
<1>type. /\ fut \in [Flows -> {"none", "open", "allow", "deny", "cancelled"}]
         /\ timer \in [Flows -> {"none", "armed", "expire", "close", "ended"}]
         /\ res \in [Resolvers -> ResolveType]
         /\ td \in [Teardowns -> TeardownType]
         /\ holds \subseteq Flows
  BY DEF TypeInv, TypeOK
<1>inv. Unheld /\ Exclusive /\ Owned
  BY DEF HoldInv
<1>same. ASSUME UNCHANGED <<res, td>>
         PROVE  /\ \A d, f : ResolverHas(d, f)' <=> ResolverHas(d, f)
                /\ \A t, f : TeardownHas(t, f)' <=> TeardownHas(t, f)
  BY <1>same DEF ResolverHas, TeardownHas
<1> USE DEF HoldInv
<1>1. CASE UNCHANGED <<holds, fut, timer, res, td>>
  BY <1>1, <1>inv DEF Unheld, Exclusive, Owned, TimerOwes, ResolverHas,
    TeardownHas
<1>2. ASSUME NEW f \in Flows, HoldRegister(f) PROVE HoldInv'
  <2>1. fut[f] = "none"
    BY <1>2 DEF HoldRegister, Fresh
  <2>2. /\ holds' = holds \cup {f}
        /\ fut' = [fut EXCEPT ![f] = "open"]
        /\ timer' = [timer EXCEPT ![f] = "armed"]
        /\ UNCHANGED <<res, td>>
    BY <1>2 DEF HoldRegister, GoTo
  <2> QED
    BY <1>type, <1>inv, <1>same, <2>1, <2>2
    DEF Unheld, Exclusive, Owned, TimerOwes
<1>3. ASSUME NEW f \in Flows, TimerPop(f) PROVE HoldInv'
  <2>1. /\ timer[f] = "armed"
        /\ timer' = [timer EXCEPT ![f] =
                       IF f \in holds THEN "expire" ELSE "ended"]
        /\ holds' = holds \ {f}
        /\ UNCHANGED <<fut, res, td>>
    BY <1>3 DEF TimerPop, taskVars
  <2> QED
    BY <1>type, <1>inv, <1>same, <2>1
    DEF Unheld, Exclusive, Owned, TimerOwes
<1>4. ASSUME NEW f \in Flows, TimerExpire(f) PROVE HoldInv'
  <2>1. /\ timer[f] = "expire"
        /\ timer' = [timer EXCEPT ![f] = "close"]
        /\ UNCHANGED <<holds, fut, res, td>>
    BY <1>4 DEF TimerExpire, taskVars
  <2> QED
    BY <1>type, <1>inv, <1>same, <2>1
    DEF Unheld, Exclusive, Owned, TimerOwes
<1>5. ASSUME NEW f \in Flows, TimerClose(f) PROVE HoldInv'
  <2>1. /\ timer[f] = "close"
        /\ timer' = [timer EXCEPT ![f] = "ended"]
        /\ fut' = Settled(f, "deny")
        /\ UNCHANGED <<holds, res, td>>
    BY <1>5 DEF TimerClose, FailCloseHold, taskVars
  <2> QED
    BY <1>type, <1>inv, <1>same, <2>1
    DEF Unheld, Exclusive, Owned, TimerOwes, Settled
<1>6. ASSUME NEW d \in Resolvers, ResolvePop(d) PROVE HoldInv'
  <2>1. PICK f \in holds, verdict \in Verdicts, duration \in Offered :
          /\ holds' = holds \ {f}
          /\ timer' = Cancelled(f)
          /\ res' = [res EXCEPT ![d] = [pc |-> "decide", req |-> f,
                       verdict |-> verdict, duration |-> duration]]
    BY <1>6 DEF ResolvePop
  <2>2. fut' = fut /\ td' = td /\ res[d].pc = "idle" /\ f \in Flows
    BY <1>6, <1>type DEF ResolvePop
  <2>3. /\ timer[f] = "armed"
        /\ timer' = [timer EXCEPT ![f] = "ended"]
    BY <1>inv, <2>1, <2>2 DEF Exclusive, Cancelled
  <2>4. \A e \in Resolvers, g \in Flows :
          ResolverHas(e, g)' <=> IF e = d THEN g = f ELSE ResolverHas(e, g)
    BY <1>type, <2>1 DEF ResolverHas
  <2>5. \A t, g : TeardownHas(t, g)' <=> TeardownHas(t, g)
    BY <2>2 DEF TeardownHas
  <2>6. \A g : ~ResolverHas(d, g)
    BY <2>2 DEF ResolverHas
  <2>7. fut[f] # "none"
    BY <1>inv, <2>1, <2>2 DEF Unheld
  <2> QED
    BY <1>type, <1>inv, <2>1, <2>2, <2>3, <2>4, <2>5, <2>6, <2>7
    DEF Unheld, Exclusive, Owned, TimerOwes
<1>7. ASSUME NEW d \in Resolvers, ResolveDecide(d) PROVE HoldInv'
  <2>1. /\ res[d].pc = "decide"
        /\ \E pc \in {"decided", "gone"} : res' = [res EXCEPT ![d].pc = pc]
        /\ UNCHANGED <<holds, fut, timer, td>>
    BY <1>7 DEF ResolveDecide, memVars
  <2>2. \A e \in Resolvers, g \in Flows : ResolverHas(e, g)' <=> ResolverHas(e, g)
    BY <1>type, <2>1 DEF ResolverHas, ResolveType
  <2>3. \A t, g : TeardownHas(t, g)' <=> TeardownHas(t, g)
    BY <2>1 DEF TeardownHas
  <2> QED
    BY <1>inv, <2>1, <2>2, <2>3 DEF Unheld, Exclusive, Owned, TimerOwes
<1>8. ASSUME NEW d \in Resolvers,
             ResolveFinish(d) \/ ResolveGone(d) \/ ResolveCancelled(d)
      PROVE  HoldInv'
  <2>1. /\ res[d].pc # "idle"
        /\ \E answer \in {"allow", "deny"} : fut' = Settled(res[d].req, answer)
        /\ \E pc \in {"tail", "expire", "abort"} :
             res' = [res EXCEPT ![d].pc = pc]
        /\ UNCHANGED <<holds, timer, td>>
    BY <1>8 DEF ResolveFinish, ResolveGone, ResolveCancelled, Finish,
      FailCloseHold
  <2>2. res[d].req \in Flows
    BY <2>1 DEF TypeInv, TasksName
  <2>3. /\ \A e \in Resolvers, g \in Flows :
             ResolverHas(e, g)' <=> e # d /\ ResolverHas(e, g)
        /\ \A g : ResolverHas(d, g) => g = res[d].req
    BY <1>type, <2>1 DEF ResolverHas, ResolveType
  <2>4. \A t, g : TeardownHas(t, g)' <=> TeardownHas(t, g)
    BY <2>1 DEF TeardownHas
  <2> QED
    BY <1>type, <1>inv, <2>1, <2>2, <2>3, <2>4
    DEF Unheld, Exclusive, Owned, TimerOwes, Settled
<1>9. ASSUME NEW d \in Resolvers,
             ResolveExpire(d) \/ ResolveTail(d) \/ ResolveAbort(d)
      PROVE  HoldInv'
  <2>1. /\ res[d].pc \in {"expire", "tail", "abort"}
        /\ res' = [res EXCEPT ![d] = IdleResolve]
             \/ res' = [res EXCEPT ![d].pc = "tail"]
        /\ UNCHANGED <<holds, fut, timer, td>>
    BY <1>9 DEF ResolveExpire, ResolveTail, ResolveAbort, memVars
  <2>2. \A e \in Resolvers, g \in Flows : ResolverHas(e, g)' <=> ResolverHas(e, g)
    BY <1>type, <2>1 DEF ResolverHas, ResolveType, IdleResolve
  <2>3. \A t, g : TeardownHas(t, g)' <=> TeardownHas(t, g)
    BY <2>1 DEF TeardownHas
  <2> QED
    BY <1>inv, <2>1, <2>2, <2>3 DEF Unheld, Exclusive, Owned, TimerOwes
<1>10. ASSUME NEW t \in Teardowns, TeardownPop(t) PROVE HoldInv'
  <2>1. PICK f \in td[t].todo \cap holds :
          /\ holds' = holds \ {f}
          /\ td' = [td EXCEPT ![t].pc = "expire", ![t].cur = f,
                              ![t].todo = @ \ {f}]
    BY <1>10 DEF TeardownPop
  <2>2. UNCHANGED <<fut, timer, res>> /\ td[t].pc = "loop" /\ f \in Flows
    BY <1>10, <1>type DEF TeardownPop
  <2>3. \A u \in Teardowns, g \in Flows :
          TeardownHas(u, g)' <=> IF u = t THEN g = f ELSE TeardownHas(u, g)
    BY <1>type, <2>1 DEF TeardownHas, TeardownType
  <2>4. \A d, g : ResolverHas(d, g)' <=> ResolverHas(d, g)
    BY <2>2 DEF ResolverHas
  <2>5. \A g : ~TeardownHas(t, g)
    BY <2>2 DEF TeardownHas
  <2>6. fut[f] # "none" /\ timer[f] = "armed"
    BY <1>inv, <2>1, <2>2 DEF Unheld, Exclusive
  <2> QED
    BY <1>type, <1>inv, <2>1, <2>2, <2>3, <2>4, <2>5, <2>6
    DEF Unheld, Exclusive, Owned, TimerOwes
<1>11. ASSUME NEW t \in Teardowns, TeardownExpire(t) PROVE HoldInv'
  <2>1. /\ td[t].pc = "expire"
        /\ td' = [td EXCEPT ![t].pc = "close"]
        /\ UNCHANGED <<holds, fut, timer, res>>
    BY <1>11 DEF TeardownExpire, memVars
  <2>2. \A u \in Teardowns, g \in Flows : TeardownHas(u, g)' <=> TeardownHas(u, g)
    BY <1>type, <2>1 DEF TeardownHas, TeardownType
  <2>3. \A d, g : ResolverHas(d, g)' <=> ResolverHas(d, g)
    BY <2>1 DEF ResolverHas
  <2> QED
    BY <1>inv, <2>1, <2>2, <2>3 DEF Unheld, Exclusive, Owned, TimerOwes
<1>12. ASSUME NEW t \in Teardowns, TeardownClose(t) PROVE HoldInv'
  <2> DEFINE f == td[t].cur
  <2>1. /\ td[t].pc = "close"
        /\ td' = [td EXCEPT ![t].pc = "loop", ![t].cur = NoFlow]
        /\ fut' = Settled(f, "deny")
        /\ timer' = Cancelled(f)
        /\ UNCHANGED <<holds, res>>
    BY <1>12 DEF TeardownClose, FailCloseHold
  <2>2. f \in Flows
    BY <2>1 DEF TypeInv, TasksName
  <2>3. /\ \A u \in Teardowns, g \in Flows :
             TeardownHas(u, g)' <=> u # t /\ TeardownHas(u, g)
        /\ \A g : TeardownHas(t, g) <=> g = f
    BY <1>type, <2>1 DEF TeardownHas, TeardownType
  <2>4. \A d, g : ResolverHas(d, g)' <=> ResolverHas(d, g)
    BY <2>1 DEF ResolverHas
  <2> HIDE DEF f
  <2> QED
    BY <1>type, <1>inv, <2>1, <2>2, <2>3, <2>4
    DEF Unheld, Exclusive, Owned, TimerOwes, Settled, Cancelled
<1>13. ASSUME NEW t \in Teardowns, Housekeeping(t) PROVE HoldInv'
  <2>1. \A u \in Teardowns, g \in Flows : TeardownHas(u, g)' <=> TeardownHas(u, g)
    BY <1>13 DEF Housekeeping, TeardownHas
  <2>2. UNCHANGED <<holds, timer, res>>
    BY <1>13 DEF Housekeeping
  <2>3. \A d, g : ResolverHas(d, g)' <=> ResolverHas(d, g)
    BY <2>2 DEF ResolverHas
  <2>4. \A g \in Flows : fut'[g] # fut[g] =>
          fut[g] = "open" /\ fut'[g] = "cancelled"
    BY <1>13, <1>type DEF Housekeeping, CutOff
  <2> QED
    BY <1>inv, <2>1, <2>2, <2>3, <2>4 DEF Unheld, Exclusive, Owned, TimerOwes
<1>14. CASE Restart
  <2>1. /\ \A d \in Resolvers, g \in Flows : ~ResolverHas(d, g)'
        /\ \A t \in Teardowns, g \in Flows : ~TeardownHas(t, g)'
    BY <1>14 DEF Restart, ResolverHas, TeardownHas, IdleResolve, IdleTeardown
  <2>2. holds' = {} /\ \A g \in Flows : timer'[g] = "none" /\ fut'[g] # "open"
    BY <1>14 DEF Restart
  <2> QED
    BY <2>1, <2>2 DEF Unheld, Exclusive, Owned, TimerOwes
<1> QED
  BY HoldFootprint, <1>1, <1>2, <1>3, <1>4, <1>5, <1>6, <1>7, <1>8, <1>9,
    <1>10, <1>11, <1>12, <1>13, <1>14
  DEF TypeInv, TimerStep, ResolveStep

-------------------------------------------------------------------------------
(***************************************************************************)
(* How a step may move each request: its row, its verdict, its future and  *)
(* its connection.                                                         *)
(***************************************************************************)

\* The statements on the table.
LEMMA RowsFootprint ==
  TypeOK /\ [Next]_vars =>
    \/ UNCHANGED rows
    \/ \E f \in Flows : HoldCreate(f) \/ RevokeFlip(f)
    \/ \E d \in Resolvers : ResolveDecide(d)
    \/ \E f : rows' = Expired(rows, f)
    \/ \E gone : rows' = Deleted(rows, gone)
    \/ rows' = AllExpired(rows)
  BY DEF Next, vars, rowVars, HoldStep, TimerStep, ResolveStep, TeardownStep,
    SwitchStep, Teardowns, Arrive, HoldMode, HoldRecord, HoldGate,
    HoldPending, HoldCap, HoldFails, HoldRegister, Answered, TimerPop,
    TimerExpire, TimerClose, RevokeForget, ResolvePop, ResolveFinish,
    ResolveGone, ResolveExpire, ResolveTail, ResolveAbort, ResolveCancelled,
    TeardownPop, TeardownExpire, TeardownClose, TeardownForget, TeardownClear,
    EngineStopped, StopEngine, Detach, SwitchRetire, TryExpire,
    TeardownClearFails, Detached, StopDetached, Attach, SwitchCommit,
    SwitchFails, SwitchReplay, SwitchUnattached, DeleteRows, DeleteWorkspace,
    SwitchWrite, Restart

\* Only decide commits a verdict.
LEMMA RuledFootprint ==
  TypeOK /\ [Next]_vars =>
    \/ UNCHANGED ruled
    \/ \E d \in Resolvers : ResolveDecide(d)
  BY DEF Next, vars, rowVars, HoldStep, TimerStep, ResolveStep, TeardownStep,
    SwitchStep, Teardowns, Arrive, HoldMode, HoldRecord, HoldGate,
    HoldPending, HoldCap, HoldFails, HoldRegister, Answered, TimerPop,
    TimerExpire, TimerClose, RevokeForget, ResolvePop, ResolveFinish,
    ResolveGone, ResolveExpire, ResolveTail, ResolveAbort, ResolveCancelled,
    TeardownPop, TeardownExpire, TeardownClose, TeardownForget, TeardownClear,
    EngineStopped, StopEngine, Detach, SwitchRetire, TryExpire,
    TeardownClearFails, Detached, StopDetached, Attach, SwitchCommit,
    SwitchFails, SwitchReplay, SwitchUnattached, DeleteRows, DeleteWorkspace,
    SwitchWrite, Restart, HoldCreate, RevokeFlip

\* What settles or cancels a future.
LEMMA FutFootprint ==
  TypeOK /\ [Next]_vars =>
    \/ UNCHANGED fut
    \/ \E f \in Flows : HoldRegister(f)
    \/ \E d \in Resolvers : ResolveFinish(d)
    \/ \E f : fut' = Settled(f, "deny")
    \/ \E w \in Workspaces : CutOff(w)
    \/ Restart
  BY DEF Next, vars, memVars, HoldStep, TimerStep, ResolveStep, TeardownStep,
    SwitchStep, Teardowns, Arrive, HoldMode, HoldRecord, HoldGate,
    HoldPending, HoldCap, HoldFails, Answered, TimerPop, TimerExpire,
    TimerClose, RevokeForget, ResolvePop, ResolveGone, ResolveExpire,
    ResolveTail, Finish, FailCloseHold, ResolveDecide, ResolveAbort,
    ResolveCancelled, TeardownPop, TeardownExpire, TeardownClose,
    TeardownForget, TeardownClear, EngineStopped, StopEngine, Detach,
    SwitchRetire, TeardownClearFails, Detached, StopDetached, Attach,
    SwitchCommit, SwitchFails, SwitchReplay, SwitchUnattached, DeleteRows,
    DeleteWorkspace, SwitchWrite, HoldCreate, RevokeFlip

\* What moves a connection.
LEMMA FlowFootprint ==
  TypeOK /\ [Next]_vars =>
    \/ UNCHANGED flow
    \/ \E f \in Flows : Arrive(f) \/ HoldStep(f)
    \/ \E w \in Workspaces : CutOff(w)
    \/ Restart
  BY DEF Next, vars, taskVars, TimerStep, ResolveStep, TeardownStep,
    SwitchStep, Teardowns, TimerPop, TimerExpire, TimerClose, RevokeForget,
    ResolvePop, ResolveGone, ResolveFinish, ResolveExpire, ResolveTail,
    ResolveDecide, ResolveAbort, ResolveCancelled, TeardownPop,
    TeardownExpire, TeardownClose, TeardownForget, TeardownClear,
    EngineStopped, StopEngine, Detach, SwitchRetire, TeardownClearFails,
    Detached, StopDetached, Attach, SwitchCommit, SwitchFails, SwitchReplay,
    SwitchUnattached, DeleteRows, DeleteWorkspace, SwitchWrite, RevokeFlip

\* What remembers or forgets a host.
LEMMA SessionFootprint ==
  TypeOK /\ [Next]_vars =>
    \/ session' \subseteq session
    \/ \E d \in Resolvers : ResolveFinish(d)
  BY DEF Next, vars, memVars, HoldStep, TimerStep, ResolveStep, TeardownStep,
    SwitchStep, Teardowns, Arrive, HoldMode, HoldRecord, HoldGate,
    HoldPending, HoldCap, HoldCreate, HoldFails, HoldRegister, Answered,
    TimerPop, TimerExpire, TimerClose, RevokeFlip, RevokeForget, ResolvePop,
    ResolveDecide, ResolveGone, ResolveExpire, ResolveTail, ResolveAbort,
    ResolveCancelled, TeardownPop, TeardownExpire, TeardownClose,
    TeardownForget, TeardownClear, TeardownClearFails, Detached,
    EngineStopped, StopEngine, Detach, StopDetached, Attach, SwitchRetire,
    SwitchCommit, SwitchFails, SwitchReplay, SwitchUnattached, SwitchWrite,
    DeleteRows, DeleteWorkspace, Restart

\* The lifecycle of a row: asked once, by its own flow; ended once, by a
\* verdict or by expiry; a verdict revoked at most; any row deleted.
RowMove(f) ==
  LET was == rows[f].decision
      is  == rows'[f].decision
  IN \/ is = was /\ ruled'[f] = ruled[f]
     \/ is \in {"absent"} /\ ruled'[f] = ruled[f]
     \/ /\ was = "absent" /\ is = "pending"
        /\ flow[f] = "create" /\ flow'[f] = "register"
        /\ ruled'[f] = ruled[f]
     \/ was = "pending" /\ is = "expired" /\ ruled'[f] = ruled[f]
     \/ was = "pending" /\ is \in Verdicts /\ ruled'[f] = is
     \/ was \in Verdicts /\ is = "revoked" /\ ruled'[f] = ruled[f]

LEMMA RowMoves ==
  ASSUME TypeInv, Fresh, [Next]_vars
  PROVE  \A f \in Flows : RowMove(f)
<1>type. /\ rows \in [Flows -> RowType(Workspaces, Dests)]
         /\ ruled \in [Flows -> Verdicts \cup {"none"}]
         /\ flow \in [Flows -> {"idle"} \cup Active \cup Ended]
  BY DEF TypeInv, TypeOK
<1>1. ASSUME NEW d \in Resolvers, ResolveDecide(d)
      PROVE  \A f \in Flows : RowMove(f)
  <2>1. res[d].verdict \in Verdicts
    BY <1>1 DEF ResolveDecide, TypeInv, TasksName
  <2>2. CASE UNCHANGED <<rows, ruled>>
    BY <2>2 DEF RowMove
  <2>3. CASE /\ CanDecide(rows, res[d].req)
             /\ rows' = Decided(rows, res[d].req, res[d].verdict,
                                res[d].duration)
             /\ ruled' = [ruled EXCEPT ![res[d].req] = res[d].verdict]
    BY <1>type, <2>1, <2>3 DEF RowMove, CanDecide, Decided, IsPending, RowType
  <2> QED
    BY <1>1, <2>2, <2>3 DEF ResolveDecide
<1>2. ASSUME UNCHANGED ruled, NEW f \in Flows, HoldCreate(f)
      PROVE  \A g \in Flows : RowMove(g)
  <2>1. CASE UNCHANGED rows
    BY <1>2, <2>1 DEF RowMove
  <2>2. CASE rows' = Created(rows, f, WsOf[f], DestOf[f]) /\ GoTo(f, "register")
    <3>1. rows[f].decision = "absent"
      BY <1>2 DEF HoldCreate, Fresh, Unasked
    <3> QED
      BY <1>2, <1>type, <2>2, <3>1 DEF RowMove, Created, GoTo, HoldCreate,
        RowType
  <2> QED
    BY <1>2, <2>1, <2>2 DEF HoldCreate
<1>3. ASSUME UNCHANGED ruled, NEW f \in Flows, RevokeFlip(f)
      PROVE  \A g \in Flows : RowMove(g)
  BY <1>3, <1>type DEF RevokeFlip, CanRevoke, Revoked, RowMove, RowType
<1>4. ASSUME UNCHANGED ruled, NEW f, rows' = Expired(rows, f)
      PROVE  \A g \in Flows : RowMove(g)
  BY <1>4, <1>type DEF Expired, IsPending, RowMove, RowType
<1>5. ASSUME UNCHANGED ruled, NEW gone, rows' = Deleted(rows, gone)
      PROVE  \A g \in Flows : RowMove(g)
  BY <1>5, <1>type DEF Deleted, RowMove, RowType
<1>6. ASSUME UNCHANGED ruled, rows' = AllExpired(rows)
      PROVE  \A g \in Flows : RowMove(g)
  BY <1>6, <1>type DEF AllExpired, IsPending, RowMove, RowType
<1>7. ASSUME UNCHANGED <<rows, ruled>>
      PROVE  \A g \in Flows : RowMove(g)
  BY <1>7 DEF RowMove
<1>8. TypeOK
  BY DEF TypeInv
<1> QED
  BY RowsFootprint, RuledFootprint, <1>1, <1>2, <1>3, <1>4, <1>5, <1>6, <1>7,
    <1>8

\* The life of a future: opened by its registration, settled once, an allow
\* only by a resolve whose verdict was committed.
FutMove(f) ==
  \/ fut'[f] = fut[f]
  \/ fut[f] = "none" /\ fut'[f] = "open" /\ flow[f] = "register"
                     /\ flow'[f] = "wait"
  \/ fut[f] = "open" /\ fut'[f] \in {"deny", "cancelled"}
  \/ /\ fut[f] = "open" /\ fut'[f] = "allow"
     /\ \E d \in Resolvers : /\ res[d].req = f
                             /\ res[d].pc = "decided"
                             /\ res[d].verdict = "allowed"

LEMMA FutMoves ==
  ASSUME TypeInv, Fresh, [Next]_vars
  PROVE  \A f \in Flows : FutMove(f)
<1>type. /\ fut \in [Flows -> {"none", "open", "allow", "deny", "cancelled"}]
         /\ flow \in [Flows -> {"idle"} \cup Active \cup Ended]
  BY DEF TypeInv, TypeOK
<1>1. ASSUME NEW f \in Flows, HoldRegister(f)
      PROVE  \A g \in Flows : FutMove(g)
  BY <1>1, <1>type DEF HoldRegister, GoTo, Fresh, FutMove
<1>2. ASSUME NEW d \in Resolvers, ResolveFinish(d)
      PROVE  \A g \in Flows : FutMove(g)
  BY <1>2, <1>type DEF ResolveFinish, Finish, Settled, FutMove
<1>3. ASSUME NEW f, fut' = Settled(f, "deny")
      PROVE  \A g \in Flows : FutMove(g)
  BY <1>3, <1>type DEF Settled, FutMove
<1>4. ASSUME NEW w \in Workspaces, CutOff(w)
      PROVE  \A g \in Flows : FutMove(g)
  BY <1>4, <1>type DEF CutOff, FutMove
<1>5. CASE Restart
  BY <1>5, <1>type DEF Restart, FutMove
<1>6. CASE UNCHANGED fut
  BY <1>6 DEF FutMove
<1>7. TypeOK
  BY DEF TypeInv
<1> QED
  BY FutFootprint, <1>1, <1>2, <1>3, <1>4, <1>5, <1>6, <1>7

\* A connection never goes back to asking, and registers only from its
\* INSERT.
LEMMA FlowMoves ==
  ASSUME TypeInv, [Next]_vars
  PROVE  \A f \in Flows :
           /\ flow'[f] \in Unasked => flow[f] \in Unasked
           /\ flow'[f] = "register" => flow[f] \in {"create", "register"}
<1> DEFINE Moves(f) ==
      /\ flow'[f] \in Unasked => flow[f] \in Unasked
      /\ flow'[f] = "register" => flow[f] \in {"create", "register"}
<1>type. flow \in [Flows -> {"idle"} \cup Active \cup Ended]
  BY DEF TypeInv, TypeOK
<1>1. ASSUME NEW f \in Flows, Arrive(f) \/ HoldStep(f)
      PROVE  \A g \in Flows : Moves(g)
  <2>1. PICK pc : flow' = [flow EXCEPT ![f] = pc]
    BY <1>1 DEF Arrive, HoldStep, HoldMode, HoldRecord, HoldGate, HoldPending,
      HoldCap, HoldCreate, HoldFails, HoldRegister, Answered, GoTo
  <2>2. Moves(f)
    BY <1>1, <1>type DEF Arrive, HoldStep, HoldMode, HoldRecord, HoldGate,
      HoldPending, HoldCap, HoldCreate, HoldFails, HoldRegister, Answered,
      GoTo, Unasked, Recording, Active, Gating
  <2> QED
    BY <1>type, <2>1, <2>2
<1>2. ASSUME NEW w \in Workspaces, CutOff(w) PROVE \A g \in Flows : Moves(g)
  BY <1>2, <1>type DEF CutOff, Unasked
<1>3. CASE Restart
  BY <1>3, <1>type DEF Restart, Unasked
<1>4. CASE UNCHANGED flow
  BY <1>4
<1>5. TypeOK
  BY DEF TypeInv
<1> QED
  BY FlowFootprint, <1>1, <1>2, <1>3, <1>4, <1>5

-------------------------------------------------------------------------------

\* A request is worked on only once its future is open.
LEMMA FreshStep == TypeInv /\ Fresh /\ HoldInv /\ [Next]_vars => Fresh'
<1> SUFFICES ASSUME TypeInv, Fresh, HoldInv, [Next]_vars,
                    NEW f \in Flows
             PROVE  /\ flow'[f] \in Unasked =>
                         /\ rows'[f].decision = "absent"
                         /\ ruled'[f] = "none" /\ fut'[f] = "none"
                    /\ flow'[f] = "register" =>
                         ruled'[f] = "none" /\ fut'[f] = "none"
  BY DEF Fresh
<1>1. RowMove(f) /\ FutMove(f)
  BY RowMoves, FutMoves
<1>2. /\ flow'[f] \in Unasked => flow[f] \in Unasked
      /\ flow'[f] = "register" => flow[f] \in {"create", "register"}
  BY FlowMoves
<1>3. fut[f] = "none" => ruled'[f] = ruled[f]
  <2>1. CASE UNCHANGED ruled
    BY <2>1
  <2>2. ASSUME NEW d \in Resolvers, ResolveDecide(d), fut[f] = "none"
        PROVE  ruled'[f] = ruled[f]
    <3>1. res[d].req # f
      BY <2>2 DEF ResolveDecide, HoldInv, Unheld, ResolverHas
    <3> QED
      BY <2>2, <3>1 DEF ResolveDecide, TypeInv, TypeOK
  <2> QED
    BY <2>1, <2>2, RuledFootprint DEF TypeInv
<1>4. /\ flow[f] \in Unasked =>
           rows[f].decision = "absent" /\ ruled[f] = "none" /\ fut[f] = "none"
      /\ flow[f] = "register" => ruled[f] = "none" /\ fut[f] = "none"
  BY DEF Fresh
<1> QED
  BY <1>1, <1>2, <1>3, <1>4 DEF RowMove, FutMove, Unasked, Verdicts

\* A verdict committed is never committed again, nor its row made pending.
LEMMA CommittedStep ==
  TypeInv /\ Fresh /\ Committed /\ [Next]_vars => Committed'
<1> SUFFICES ASSUME TypeInv, Fresh, Committed, [Next]_vars
             PROVE  Committed'
  OBVIOUS
<1>type. /\ res \in [Resolvers -> ResolveType]
         /\ rows \in [Flows -> RowType(Workspaces, Dests)]
         /\ ruled \in [Flows -> Verdicts \cup {"none"}]
         /\ TypeOK
  BY DEF TypeInv, TypeOK
<1>1. ASSUME NEW f \in Flows, ruled'[f] # "none"
      PROVE  ~IsPending(rows'[f])
  <2>1. RowMove(f)
    BY RowMoves
  <2>2. ruled[f] # "none" => rows[f].decision # "pending"
    BY DEF Committed, IsPending
  <2>3. flow[f] = "create" => ruled[f] = "none"
    BY DEF Fresh, Unasked
  <2> QED
    BY <1>1, <2>1, <2>2, <2>3 DEF RowMove, IsPending, Verdicts
<1>2. \A f \in Flows : ruled[f] # "none" => ruled'[f] = ruled[f]
  <2> SUFFICES ASSUME NEW f \in Flows, ruled[f] # "none"
               PROVE  ruled'[f] = ruled[f]
    OBVIOUS
  <2>1. RowMove(f) /\ rows[f].decision # "pending"
    BY RowMoves DEF Committed, IsPending
  <2> QED
    BY <2>1 DEF RowMove
<1>3. ASSUME NEW d \in Resolvers, res'[d].pc = "decided"
      PROVE  ruled'[res'[d].req] = res'[d].verdict
  <2>1. CASE res'[d] = res[d]
    <3>1. /\ res[d].req \in Flows /\ res[d].verdict \in Verdicts
          /\ ruled[res[d].req] = res[d].verdict
      BY <1>3, <2>1 DEF TypeInv, TasksName, Committed
    <3>2. ruled[res[d].req] # "none"
      BY <3>1 DEF Verdicts
    <3> QED
      BY <1>2, <2>1, <3>1, <3>2
  <2>2. CASE /\ ResolveDecide(d)
             /\ ruled' = [ruled EXCEPT ![res[d].req] = res[d].verdict]
             /\ res' = [res EXCEPT ![d].pc = "decided"]
    <3>1. res[d].req \in Flows
      BY <2>2 DEF ResolveDecide, TypeInv, TasksName
    <3> QED
      BY <1>type, <2>2, <3>1 DEF ResolveType
  <2>3. \/ res'[d] = res[d]
        \/ /\ ResolveDecide(d)
           /\ ruled' = [ruled EXCEPT ![res[d].req] = res[d].verdict]
           /\ res' = [res EXCEPT ![d].pc = "decided"]
    <3>1. ASSUME NEW e \in Resolvers, ResolvePop(e) PROVE res'[d] = res[d]
      BY <1>3, <1>type, <3>1 DEF ResolvePop
    <3>2. ASSUME NEW e \in Resolvers,
                 ResolveFinish(e) \/ ResolveGone(e) \/ ResolveExpire(e) \/
                 ResolveTail(e) \/ ResolveAbort(e) \/ ResolveCancelled(e)
          PROVE  res'[d] = res[d]
      BY <1>3, <1>type, <3>2 DEF ResolveFinish, ResolveGone, ResolveExpire,
        ResolveTail, ResolveAbort, ResolveCancelled, IdleResolve, ResolveType
    <3>3. ASSUME NEW e \in Resolvers, ResolveDecide(e)
          PROVE  \/ res'[d] = res[d]
                 \/ /\ ResolveDecide(d)
                    /\ ruled' = [ruled EXCEPT ![res[d].req] = res[d].verdict]
                    /\ res' = [res EXCEPT ![d].pc = "decided"]
      BY <1>3, <1>type, <3>3 DEF ResolveDecide, ResolveType
    <3>4. CASE Restart
      BY <1>3, <3>4 DEF Restart, IdleResolve
    <3>5. CASE UNCHANGED res
      BY <3>5
    <3>6. ASSUME NEW f \in Flows, HoldRegister(f) \/ TimerStep(f)
          PROVE  UNCHANGED res
      BY <3>6 DEF HoldRegister, GoTo, TimerStep, TimerPop, TimerExpire,
        TimerClose, taskVars
    <3>7. ASSUME NEW t \in Teardowns,
                 \/ TeardownPop(t) \/ TeardownExpire(t) \/ TeardownClose(t)
                 \/ Housekeeping(t)
          PROVE  UNCHANGED res
      BY <3>7 DEF TeardownPop, TeardownExpire, TeardownClose, Housekeeping
    <3> QED
      BY HoldFootprint, <1>type, <3>1, <3>2, <3>3, <3>4, <3>5, <3>6, <3>7
      DEF ResolveStep
  <2> QED
    BY <2>1, <2>2, <2>3
<1> QED
  BY <1>1, <1>3 DEF Committed

\* An allow is answered, and a host remembered, off a committed verdict.
LEMMA AllowsStep ==
  TypeInv /\ Fresh /\ Committed /\ AllowsAreRuled /\ [Next]_vars
    => AllowsAreRuled'
<1> SUFFICES ASSUME TypeInv, Fresh, Committed, AllowsAreRuled, [Next]_vars
             PROVE  AllowsAreRuled'
  OBVIOUS
<1>1. \A f \in Flows : ruled[f] # "none" => ruled'[f] = ruled[f]
  <2> SUFFICES ASSUME NEW f \in Flows, ruled[f] # "none"
               PROVE  ruled'[f] = ruled[f]
    OBVIOUS
  <2>1. RowMove(f) /\ rows[f].decision # "pending"
    BY RowMoves DEF Committed, IsPending
  <2> QED
    BY <2>1 DEF RowMove
<1>2. ASSUME NEW f \in Flows, fut'[f] = "allow" PROVE ruled'[f] = "allowed"
  <2>1. FutMove(f)
    BY FutMoves
  <2>2. ruled[f] = "allowed"
    BY <1>2, <2>1 DEF FutMove, AllowsAreRuled, Committed
  <2> QED
    BY <1>1, <2>2
<1>3. ASSUME NEW e \in session'
      PROVE  \E f \in Flows :
               WsOf[f] = e[1] /\ DestOf[f] = e[2] /\ ruled'[f] = e[3]
  <2>1. CASE e \in session
    <3>1. PICK f \in Flows : WsOf[f] = e[1] /\ DestOf[f] = e[2] /\ ruled[f] = e[3]
      BY <2>1 DEF AllowsAreRuled
    <3>2. e[3] \in Verdicts
      BY <2>1 DEF TypeInv, TypeOK
    <3> QED
      BY <1>1, <3>1, <3>2 DEF Verdicts
  <2>2. ASSUME NEW d \in Resolvers, ResolveFinish(d), e \notin session
        PROVE  \E f \in Flows :
                 WsOf[f] = e[1] /\ DestOf[f] = e[2] /\ ruled'[f] = e[3]
    <3>1. e = <<WsOf[res[d].req], DestOf[res[d].req], res[d].verdict>>
      BY <1>3, <2>2 DEF ResolveFinish, Remembered
    <3>2. /\ res[d].req \in Flows
          /\ ruled[res[d].req] = res[d].verdict /\ ruled' = ruled
      BY <2>2 DEF ResolveFinish, TypeInv, TasksName, Committed, rowVars
    <3> QED
      BY <3>1, <3>2
  <2> QED
    BY <1>3, <2>1, <2>2, SessionFootprint DEF TypeInv
<1> QED
  BY <1>2, <1>3 DEF AllowsAreRuled

LEMMA InvInit == Init => IInv
<1> SUFFICES ASSUME Init PROVE IInv
  OBVIOUS
<1>1. TypeInv
  BY TypeInit
<1>2. Fresh /\ Committed /\ AllowsAreRuled
  BY DEF Init, Fresh, Committed, AllowsAreRuled, IdleResolve
<1>3. HoldInv
  BY DEF Init, HoldInv, Unheld, Exclusive, Owned, ResolverHas, TeardownHas,
    TimerOwes, IdleResolve, IdleTeardown
<1> QED
  BY <1>1, <1>2, <1>3 DEF IInv

LEMMA InvStep == IInv /\ [Next]_vars => IInv'
  BY TypeStep, NamesStep, SwitchesStep, FreshStep, HoldStepInv, CommittedStep,
    AllowsStep DEF IInv, TypeInv

\* The invariant says more than OneCloser: who owes an answer is one task.
LEMMA InvOneCloser == IInv => OneCloser
<1> SUFFICES ASSUME IInv, NEW f \in Flows, fut[f] = "open"
             PROVE  \/ /\ f \in holds
                       /\ timer[f] = "armed"
                       /\ ResolverOwes(f) = {} /\ TeardownOwes(f) = {}
                    \/ /\ f \notin holds
                       /\ TimerOwes(f)
                       /\ ResolverOwes(f) = {} /\ TeardownOwes(f) = {}
                    \/ /\ f \notin holds
                       /\ ~TimerOwes(f)
                       /\ \/ /\ \E d \in Resolvers : ResolverOwes(f) = {d}
                             /\ TeardownOwes(f) = {}
                          \/ /\ \E t \in Teardowns : TeardownOwes(f) = {t}
                             /\ ResolverOwes(f) = {}
  BY DEF OneCloser
<1>1. /\ \A d \in Resolvers : d \in ResolverOwes(f) <=> ResolverHas(d, f)
      /\ \A t \in Teardowns : t \in TeardownOwes(f) <=> TeardownHas(t, f)
      /\ ResolverOwes(f) \subseteq Resolvers
      /\ TeardownOwes(f) \subseteq Teardowns
  BY DEF ResolverOwes, TeardownOwes, ResolverHas, TeardownHas
<1>2. Exclusive /\ Owned
  BY DEF IInv, HoldInv
<1>3. CASE f \in holds
  BY <1>1, <1>2, <1>3 DEF Exclusive, TimerOwes
<1>4. CASE TimerOwes(f)
  BY <1>1, <1>2, <1>4 DEF Exclusive, TimerOwes
<1>5. ASSUME NEW d \in Resolvers, ResolverHas(d, f)
      PROVE  /\ f \notin holds /\ ~TimerOwes(f)
             /\ ResolverOwes(f) = {d} /\ TeardownOwes(f) = {}
  BY <1>1, <1>2, <1>5 DEF Exclusive
<1>6. ASSUME NEW t \in Teardowns, TeardownHas(t, f)
      PROVE  /\ f \notin holds /\ ~TimerOwes(f)
             /\ TeardownOwes(f) = {t} /\ ResolverOwes(f) = {}
  BY <1>1, <1>2, <1>6 DEF Exclusive
<1> QED
  BY <1>2, <1>3, <1>4, <1>5, <1>6 DEF Owned

THEOREM Invariant == Spec => []IInv
  BY InvInit, InvStep, PTL DEF Spec

\* Whatever the number of flows, decide requests, restarts and failures, no
\* held packet is stranded and none has two closers.
THEOREM EveryHoldHasOneCloser == Spec => []OneCloser
  BY Invariant, InvOneCloser, PTL

\* A packet is released, and a host remembered, only on a verdict that a
\* transaction committed.
THEOREM AllowsRestOnVerdicts == Spec => []AllowsAreRuled
<1>1. IInv => AllowsAreRuled
  BY DEF IInv
<1> QED
  BY Invariant, <1>1, PTL
-------------------------------------------------------------------------------
(***************************************************************************)
(* Consent implements Verdict: each step of the engine moves each request  *)
(* as Verdict allows, or leaves it where it was.                           *)
(***************************************************************************)

\* No row, no verdict and no future, on either side.
LEMMA PromiseInit == Init => Promise!Init
  BY DEF Init, Promise!Init

\* The answer a future gets and the ruling its row gets, seen together: an
\* allow is answered only once granted.
LEMMA PromiseStep == IInv /\ [Next]_vars => [Promise!Next]_Promise!vars
<1> SUFFICES ASSUME IInv, [Next]_vars PROVE Promise!Next
  OBVIOUS
<1> DEFINE ruling == [f \in Flows |-> rows[f].decision]
           granted == {f \in Flows : ruled[f] = "allowed"}
<1>1. TypeInv /\ Fresh /\ Committed /\ TypeOK /\ TypeOK'
  BY InvStep DEF IInv, TypeInv
<1>2. \A f \in Flows : RowMove(f) /\ FutMove(f)
  BY <1>1, RowMoves, FutMoves
<1>3. \A f \in Flows :
        /\ ruling[f] = rows[f].decision /\ ruling'[f] = rows'[f].decision
        /\ f \in granted <=> ruled[f] = "allowed"
        /\ f \in granted' <=> ruled'[f] = "allowed"
  OBVIOUS
<1>4. ASSUME NEW f \in Flows
      PROVE  /\ \/ ruling'[f] \in {ruling[f], "absent"}
                \/ <<ruling[f], ruling'[f]>> \in Promise!RulingSteps
             /\ f \in granted' <=>
                  f \in granted \/ (ruling[f] = "pending" /\ ruling'[f] = "allowed")
  <2>1. ruled[f] # "none" => rows[f].decision # "pending"
    BY <1>1 DEF Committed, IsPending
  <2>2. RowMove(f)
    BY <1>2
  <2> HIDE DEF ruling, granted
  <2> QED
    BY <1>3, <2>1, <2>2 DEF RowMove, Promise!RulingSteps, Verdicts
<1>5. ASSUME NEW f \in Flows
      PROVE  \/ fut'[f] = fut[f]
             \/ fut[f] = "none" /\ fut'[f] = "open"
             \/ /\ fut[f] = "open"
                /\ fut'[f] \in Promise!Answers
                /\ fut'[f] = "allow" => f \in granted
  <2>1. FutMove(f)
    BY <1>2
  <2>2. \A d \in Resolvers : res[d].pc = "decided" =>
          ruled[res[d].req] = res[d].verdict
    BY <1>1 DEF Committed
  <2> QED
    BY <2>1, <2>2 DEF FutMove, Promise!Answers
<1>6. /\ ruling' \in [Flows -> Promise!Rulings]
      /\ granted' \in SUBSET Flows
      /\ fut' \in [Flows -> Promise!Answers \cup {"none", "open"}]
  BY <1>1 DEF TypeOK, RowType, Decisions, Verdicts, Promise!Rulings,
    Promise!Answers
<1> QED
  BY <1>4, <1>5, <1>6 DEF Promise!Next, Promise!RulingMoves, Promise!AnswerMoves

\* Consent keeps the promises of Verdict, whatever the workspaces, flows,
\* decide requests, restarts and failed transactions: rulings move forward
\* only, a packet is answered once, and allowed only when granted.
THEOREM KeepsItsPromise == Spec => KeepsPromise
<1> QED
  BY Invariant, PromiseInit, PromiseStep, PTL DEF Spec, KeepsPromise, Promise!Spec
===============================================================================
