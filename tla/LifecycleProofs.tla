--------------------------- MODULE LifecycleProofs ---------------------------
(***************************************************************************)
(* The safety of Lifecycle, for any workspaces, requests and bounds.       *)
(***************************************************************************)
EXTENDS Lifecycle, TLAPS

\* Which operation a request at a step is of.
Fits(r) ==
  LET q == req[r] IN
  /\ q.pc # "idle" => q.ws \in Workspaces
  /\ q.pc = "lock" => q.op \in {"start", "delete", "move"}
  /\ q.pc \in {"reread", "launch", "spawn", "boot", "started"} => q.op = "start"
  /\ q.pc \in {"write", "restore"} => q.op \in {"start", "stop"}
  /\ q.pc = "stopped" => q.op = "stop"
  /\ q.pc \in {"recheck", "probe", "moving"} => q.op = "move"
  /\ q.pc \in {"shutdown", "press", "terminate", "detach"} =>
       q.op \in {"stop", "reset", "delete"}
  /\ q.pc = "kill" => q.op \in {"reset", "delete"}
  /\ q.pc \in {"drop", "dropped"} => q.op = "reset"
  /\ q.pc \in {"clean", "cleaned"} => q.op = "delete"

\* A start past its second read, and a stop, know a status to put back.
Restorable(r) ==
  \/ req[r].op \notin {"start", "stop"}
  \/ req[r].pc \in {"idle", "lock", "reread"}
  \/ req[r].prior # "missing"

ScanNames == scan.pc \in {"judge", "write"} => scan.ws \in Workspaces

TypeInv ==
  /\ TypeOK
  /\ \A r \in Requests : Fits(r) /\ Restorable(r)
  /\ ScanNames

-------------------------------------------------------------------------------

LEMMA SeamType == ASSUME TypeOK, NEW w \in Workspaces PROVE Seam(w) \in Statuses
BY DEF TypeOK, Seam, Seams, Vmms, Statuses

\* What a request's step to another pc leaves of its record.
LEMMA GoToType ==
  ASSUME TypeOK, NEW r \in Requests, NEW pc \in RequestPcs, GoTo(r, pc)
  PROVE  /\ req' \in [Requests -> RequestType]
         /\ req'[r] = [req[r] EXCEPT !.pc = pc]
         /\ req'[r].pc = pc /\ req'[r].op = req[r].op /\ req'[r].ws = req[r].ws
         /\ req'[r].prior = req[r].prior
         /\ \A s \in Requests \ {r} : req'[s] = req[s]
BY DEF TypeOK, GoTo, RequestType

LEMMA AnswerType ==
  ASSUME TypeOK, NEW r \in Requests, Answer(r)
  PROVE  /\ req' \in [Requests -> RequestType]
         /\ req'[r] = IdleRequest
         /\ \A s \in Requests \ {r} : req'[s] = req[s]
         /\ move' \in [Workspaces -> Requests \cup {Nobody}]
BY DEF TypeOK, Answer, RequestType, IdleRequest, RequestPcs

LEMMA SetStatusType ==
  ASSUME TypeOK, NEW w \in Workspaces, NEW status \in Statuses \cup {"missing"},
         SetStatus(w, status)
  PROVE  row' \in [Workspaces -> Statuses \cup {"missing"}]
BY DEF TypeOK, SetStatus

LEMMA DiscardType ==
  ASSUME TypeOK, NEW r \in Requests, Discard(r)
  PROVE  starting' \subseteq Workspaces /\ stopping' \subseteq Workspaces
BY DEF TypeOK, Discard

\* A request's record speaks for itself alone.
LEMMA OthersFit ==
  ASSUME TypeInv, NEW r \in Requests,
         \A s \in Requests \ {r} : req'[s] = req[s], Fits(r)', Restorable(r)'
  PROVE  \A s \in Requests : Fits(s)' /\ Restorable(s)'
BY DEF TypeInv, Fits, Restorable

LEMMA IdleFits ==
  ASSUME NEW r \in Requests, req'[r] = IdleRequest
  PROVE  Fits(r)' /\ Restorable(r)'
BY DEF Fits, Restorable, IdleRequest

LEMMA Tables ==
  /\ LockedPc["start"] = "reread" /\ LockedPc["delete"] = "shutdown"
  /\ LockedPc["move"] = "recheck"
  /\ LandedPc["stop"] = "stopped" /\ LandedPc["reset"] = "drop"
  /\ LandedPc["delete"] = "clean"
  /\ FailedPc["stop"] = "restore" /\ FailedPc["reset"] = "kill"
  /\ FailedPc["delete"] = "kill"
BY DEF LockedPc, LandedPc, FailedPc

LEMMA LockGoes ==
  ASSUME TypeInv, NEW r \in Requests, req[r].pc \in {"lock"},
         GoTo(r, LockedPc[req[r].op])
  PROVE  /\ req' \in [Requests -> RequestType]
         /\ \A s \in Requests \ {r} : req'[s] = req[s]
         /\ Fits(r)' /\ Restorable(r)'
<1>own. TypeOK /\ Fits(r) /\ Restorable(r)
  BY DEF TypeInv
<1>1. CASE req[r].op = "start"
  <2>1. GoTo(r, "reread")
    BY <1>1, Tables
  <2> QED
    BY <1>1, <2>1, <1>own, GoToType DEF Fits, Restorable, RequestPcs
<1>2. CASE req[r].op = "delete"
  <2>1. GoTo(r, "shutdown")
    BY <1>2, Tables
  <2> QED
    BY <1>2, <2>1, <1>own, GoToType DEF Fits, Restorable, RequestPcs
<1>3. CASE req[r].op = "move"
  <2>1. GoTo(r, "recheck")
    BY <1>3, Tables
  <2> QED
    BY <1>3, <2>1, <1>own, GoToType DEF Fits, Restorable, RequestPcs
<1> QED
  BY <1>1, <1>2, <1>3, <1>own DEF Fits

LEMMA LandedGoes ==
  ASSUME TypeInv, NEW r \in Requests, req[r].pc \in {"shutdown", "detach", "kill"},
         GoTo(r, LandedPc[req[r].op])
  PROVE  /\ req' \in [Requests -> RequestType]
         /\ \A s \in Requests \ {r} : req'[s] = req[s]
         /\ Fits(r)' /\ Restorable(r)'
<1>own. TypeOK /\ Fits(r) /\ Restorable(r)
  BY DEF TypeInv
<1>1. CASE req[r].op = "stop"
  <2>1. GoTo(r, "stopped")
    BY <1>1, Tables
  <2> QED
    BY <1>1, <2>1, <1>own, GoToType DEF Fits, Restorable, RequestPcs
<1>2. CASE req[r].op = "reset"
  <2>1. GoTo(r, "drop")
    BY <1>2, Tables
  <2> QED
    BY <1>2, <2>1, <1>own, GoToType DEF Fits, Restorable, RequestPcs
<1>3. CASE req[r].op = "delete"
  <2>1. GoTo(r, "clean")
    BY <1>3, Tables
  <2> QED
    BY <1>3, <2>1, <1>own, GoToType DEF Fits, Restorable, RequestPcs
<1> QED
  BY <1>1, <1>2, <1>3, <1>own DEF Fits

LEMMA FailedGoes ==
  ASSUME TypeInv, NEW r \in Requests, req[r].pc \in {"press", "terminate"},
         GoTo(r, FailedPc[req[r].op])
  PROVE  /\ req' \in [Requests -> RequestType]
         /\ \A s \in Requests \ {r} : req'[s] = req[s]
         /\ Fits(r)' /\ Restorable(r)'
<1>own. TypeOK /\ Fits(r) /\ Restorable(r)
  BY DEF TypeInv
<1>1. CASE req[r].op = "stop"
  <2>1. GoTo(r, "restore")
    BY <1>1, Tables
  <2> QED
    BY <1>1, <2>1, <1>own, GoToType DEF Fits, Restorable, RequestPcs
<1>2. CASE req[r].op = "reset"
  <2>1. GoTo(r, "kill")
    BY <1>2, Tables
  <2> QED
    BY <1>2, <2>1, <1>own, GoToType DEF Fits, Restorable, RequestPcs
<1>3. CASE req[r].op = "delete"
  <2>1. GoTo(r, "kill")
    BY <1>3, Tables
  <2> QED
    BY <1>3, <2>1, <1>own, GoToType DEF Fits, Restorable, RequestPcs
<1> QED
  BY <1>1, <1>2, <1>3, <1>own DEF Fits

\* Every step of a request keeps what its record says.
LEMMA RecordStep ==
  ASSUME TypeInv, NEW r \in Requests, RequestStep(r)
  PROVE  /\ req' \in [Requests -> RequestType]
         /\ \A s \in Requests : Fits(s)' /\ Restorable(s)'
<1> DEFINE Good == /\ req' \in [Requests -> RequestType]
                   /\ \A s \in Requests \ {r} : req'[s] = req[s]
                   /\ Fits(r)' /\ Restorable(r)'
<1>own. TypeOK /\ Fits(r) /\ Restorable(r)
  BY DEF TypeInv
<1>req. req \in [Requests -> RequestType] /\ row \in [Workspaces -> Statuses \cup {"missing"}]
  BY DEF TypeInv, TypeOK
<1>1. ASSUME TakeLock(r) PROVE Good
  BY <1>1, <1>own, GoToType, LockGoes, LandedGoes, FailedGoes
     DEF TakeLock, At, Fits, Restorable, RequestPcs
<1>2. ASSUME GiveUp(r) PROVE Good
  BY <1>2, <1>own, GoToType, AnswerType, IdleFits
     DEF GiveUp, At, Fits, Restorable, RequestPcs
<1>3. ASSUME Reread(r) PROVE Good
  <2>1. CASE Answer(r)
    BY <2>1, <1>own, AnswerType, IdleFits
  <2>2. CASE /\ row[req[r].ws] # "missing"
             /\ req' = [req EXCEPT ![r].pc = "write", ![r].prior = row[req[r].ws]]
    <3>1. /\ row[req[r].ws] \in Statuses \cup {"missing"}
          /\ req[r].op = "start" /\ req[r].ws \in Workspaces
      BY <1>3, <1>own, <1>req DEF Reread, At, Fits
    <3>2. req' \in [Requests -> RequestType]
      <4> DEFINE q == [req[r] EXCEPT !.pc = "write", !.prior = row[req[r].ws]]
      <4>1. q \in RequestType
        BY <3>1, <1>req DEF RequestType, RequestPcs
      <4>2. req' = [req EXCEPT ![r] = q]
        BY <2>2
      <4> QED
        BY <4>1, <4>2, <1>req
    <3>3. /\ \A s \in Requests \ {r} : req'[s] = req[s]
          /\ req'[r].pc = "write" /\ req'[r].prior # "missing"
          /\ req'[r].op = "start" /\ req'[r].ws \in Workspaces
      BY <2>2, <3>1, <1>req DEF RequestType
    <3> QED
      BY <3>2, <3>3 DEF Fits, Restorable
  <2> QED
    BY <1>3, <2>1, <2>2 DEF Reread
<1>4. ASSUME WriteMark(r) PROVE Good
  BY <1>4, <1>own, GoToType, AnswerType, IdleFits
     DEF WriteMark, At, Fits, Restorable, RequestPcs
<1>5. ASSUME Restore(r) PROVE Good
  BY <1>5, <1>own, GoToType, AnswerType, IdleFits
     DEF Restore, At, Fits, Restorable, RequestPcs
<1>6. ASSUME Settle(r) PROVE Good
  BY <1>6, <1>own, GoToType, AnswerType, IdleFits
     DEF Settle, At, Fits, Restorable, RequestPcs
<1>7. ASSUME Recheck(r) PROVE Good
  BY <1>7, <1>own, GoToType, AnswerType, IdleFits
     DEF Recheck, At, Fits, Restorable, RequestPcs
<1>8. ASSUME Probe(r) PROVE Good
  BY <1>8, <1>own, GoToType, AnswerType, IdleFits
     DEF Probe, At, Fits, Restorable, RequestPcs
<1>9. ASSUME Moved(r) PROVE Good
  BY <1>9, <1>own, GoToType, AnswerType, IdleFits
     DEF Moved, At, Fits, Restorable, RequestPcs
<1>10. ASSUME Launch(r) PROVE Good
  BY <1>10, <1>own, GoToType, AnswerType, IdleFits
     DEF Launch, At, Fits, Restorable, RequestPcs
<1>11. ASSUME Spawn(r) PROVE Good
  BY <1>11, <1>own, GoToType, AnswerType, IdleFits
     DEF Spawn, At, Fits, Restorable, RequestPcs
<1>12. ASSUME Create(r) PROVE Good
  BY <1>12, <1>own, <1>req DEF Create, apiVars, Fits, Restorable
<1>13. ASSUME Boot(r) PROVE Good
  BY <1>13, <1>own, GoToType, AnswerType, IdleFits
     DEF Boot, At, Fits, Restorable, RequestPcs
<1>14. ASSUME LaunchFails(r) PROVE Good
  BY <1>14, <1>own, GoToType, AnswerType, IdleFits
     DEF LaunchFails, At, Fits, Restorable, RequestPcs
<1>15. ASSUME ShutdownAbsent(r) PROVE Good
  BY <1>15, <1>own, GoToType, LockGoes, LandedGoes, FailedGoes
     DEF ShutdownAbsent, At, Fits, Restorable, RequestPcs, Landed
<1>16. ASSUME Shutdown(r) PROVE Good
  BY <1>16, <1>own, GoToType, AnswerType, IdleFits
     DEF Shutdown, At, Fits, Restorable, RequestPcs
<1>17. ASSUME Press(r) PROVE Good
  BY <1>17, <1>own, GoToType, AnswerType, IdleFits
     DEF Press, At, Fits, Restorable, RequestPcs
<1>18. ASSUME PressTimeout(r) PROVE Good
  BY <1>18, <1>own, GoToType, LockGoes, LandedGoes, FailedGoes
     DEF PressTimeout, At, Fits, Restorable, RequestPcs
<1>19. ASSUME Terminate(r) PROVE Good
  BY <1>19, <1>own, GoToType, LockGoes, LandedGoes, FailedGoes
     DEF Terminate, At, Fits, Restorable, RequestPcs
<1>20. ASSUME NetDetach(r) PROVE Good
  BY <1>20, <1>own, GoToType, LockGoes, LandedGoes, FailedGoes
     DEF NetDetach, At, Fits, Restorable, RequestPcs, Landed
<1>21. ASSUME Kill(r) PROVE Good
  BY <1>21, <1>own, GoToType, AnswerType, IdleFits, LockGoes, LandedGoes, FailedGoes
     DEF Kill, At, Fits, Restorable, RequestPcs
<1>22. ASSUME Drop(r) PROVE Good
  BY <1>22, <1>own, GoToType, AnswerType, IdleFits
     DEF Drop, At, Fits, Restorable, RequestPcs
<1>23. ASSUME Cleanup(r) PROVE Good
  BY <1>23, <1>own, GoToType, AnswerType, IdleFits
     DEF Cleanup, At, Fits, Restorable, RequestPcs
<1> QED
  BY <1>1, <1>2, <1>3, <1>4, <1>5, <1>6, <1>7, <1>8, <1>9, <1>10, <1>11, <1>12,
     <1>13, <1>14, <1>15, <1>16, <1>17, <1>18, <1>19, <1>20, <1>21, <1>22,
     <1>23, OthersFit
     DEF RequestStep, OwnStep

\* The variables of a workspace, the locks and the marks.
Rest ==
  /\ row \in [Workspaces -> Statuses \cup {"missing"}]
  /\ vmm \in [Workspaces -> Vmms]
  /\ procs \subseteq Workspaces /\ net \subseteq Workspaces
  /\ guard \in [Workspaces -> Requests \cup {Nobody}]
  /\ move \in [Workspaces -> Requests \cup {Nobody}]
  /\ starting \subseteq Workspaces /\ stopping \subseteq Workspaces

LEMMA RestStep ==
  ASSUME TypeInv, NEW r \in Requests, RequestStep(r)
  PROVE  Rest' /\ UNCHANGED <<scan, begun, events, crashes>>
<1> DEFINE Good == Rest' /\ UNCHANGED <<scan, begun, events, crashes>>
<1>own. TypeOK /\ Fits(r)
  BY DEF TypeInv
<1>rest. /\ Rest
         /\ ~At(r, "idle") => req[r].ws \in Workspaces
         /\ req[r].prior \in Statuses \cup {"missing"}
  BY <1>own DEF Rest, TypeOK, Fits, At, RequestType
<1>1. ASSUME TakeLock(r) PROVE Good
  BY <1>1, <1>own, <1>rest
     DEF TakeLock, At, Rest, apiVars, drvVars
<1>2. ASSUME GiveUp(r) PROVE Good
  BY <1>2, <1>own, <1>rest, AnswerType
     DEF GiveUp, At, Rest, apiVars, drvVars
<1>3. ASSUME Reread(r) PROVE Good
  BY <1>3, <1>own, <1>rest, AnswerType
     DEF Reread, At, Rest, apiVars, drvVars
<1>4. ASSUME WriteMark(r) PROVE Good
  BY <1>4, <1>own, <1>rest, SetStatusType
     DEF WriteMark, At, Rest, apiVars, drvVars, Statuses
<1>5. ASSUME Restore(r) PROVE Good
  BY <1>5, <1>own, <1>rest, AnswerType, SetStatusType, DiscardType
     DEF Restore, At, Rest, apiVars, drvVars
<1>6. ASSUME Settle(r) PROVE Good
  BY <1>6, <1>own, <1>rest, AnswerType, SetStatusType
     DEF Settle, At, Rest, apiVars, drvVars, Statuses
<1>7. ASSUME Recheck(r) PROVE Good
  BY <1>7, <1>own, <1>rest, AnswerType
     DEF Recheck, At, Rest, apiVars, drvVars
<1>8. ASSUME Probe(r) PROVE Good
  BY <1>8, <1>own, <1>rest, AnswerType
     DEF Probe, At, Rest, apiVars, drvVars
<1>9. ASSUME Moved(r) PROVE Good
  BY <1>9, <1>own, <1>rest, AnswerType
     DEF Moved, At, Rest, apiVars, drvVars
<1>10. ASSUME Launch(r) PROVE Good
  BY <1>10, <1>own, <1>rest
     DEF Launch, At, Rest, apiVars, drvVars
<1>11. ASSUME Spawn(r) PROVE Good
  BY <1>11, <1>own, <1>rest
     DEF Spawn, At, Rest, apiVars, drvVars, Vmms
<1>12. ASSUME Create(r) PROVE Good
  BY <1>12, <1>own, <1>rest
     DEF Create, At, Rest, apiVars, drvVars, Vmms
<1>13. ASSUME Boot(r) PROVE Good
  BY <1>13, <1>own, <1>rest, DiscardType
     DEF Boot, At, Rest, apiVars, drvVars, Release, Vmms
<1>14. ASSUME LaunchFails(r) PROVE Good
  BY <1>14, <1>own, <1>rest
     DEF LaunchFails, At, Rest, apiVars, drvVars, Release, Vmms
<1>15. ASSUME ShutdownAbsent(r) PROVE Good
  BY <1>15, <1>own, <1>rest, DiscardType
     DEF ShutdownAbsent, At, Rest, apiVars, drvVars, Landed
<1>16. ASSUME Shutdown(r) PROVE Good
  BY <1>16, <1>own, <1>rest
     DEF Shutdown, At, Rest, apiVars, drvVars
<1>17. ASSUME Press(r) PROVE Good
  BY <1>17, <1>own, <1>rest
     DEF Press, At, Rest, apiVars, drvVars, Vmms
<1>18. ASSUME PressTimeout(r) PROVE Good
  BY <1>18, <1>own, <1>rest
     DEF PressTimeout, At, Rest, apiVars, drvVars, Release
<1>19. ASSUME Terminate(r) PROVE Good
  BY <1>19, <1>own, <1>rest
     DEF Terminate, At, Rest, apiVars, drvVars, Release, Vmms
<1>20. ASSUME NetDetach(r) PROVE Good
  BY <1>20, <1>own, <1>rest, DiscardType
     DEF NetDetach, At, Rest, apiVars, drvVars, Release, Landed
<1>21. ASSUME Kill(r) PROVE Good
  BY <1>21, <1>own, <1>rest, AnswerType
     DEF Kill, At, Rest, apiVars, drvVars, Vmms
<1>22. ASSUME Drop(r) PROVE Good
  BY <1>22, <1>own, <1>rest, AnswerType
     DEF Drop, At, Rest, apiVars, drvVars
<1>23. ASSUME Cleanup(r) PROVE Good
  BY <1>23, <1>own, <1>rest
     DEF Cleanup, At, Rest, apiVars, drvVars, Vmms
<1> QED
  BY <1>1, <1>2, <1>3, <1>4, <1>5, <1>6, <1>7, <1>8, <1>9, <1>10, <1>11, <1>12,
     <1>13, <1>14, <1>15, <1>16, <1>17, <1>18, <1>19, <1>20, <1>21, <1>22, <1>23
     DEF RequestStep, OwnStep

LEMMA ScanTypes ==
  ASSUME TypeInv, ScanStep
  PROVE  TypeInv'
<1>own. TypeOK /\ ScanNames /\ \A r \in Requests : Fits(r) /\ Restorable(r)
  BY DEF TypeInv
<1>scan. scan \in ScanType /\ row \in [Workspaces -> Statuses \cup {"missing"}]
  BY <1>own DEF TypeOK
<1> DEFINE Good == /\ scan' \in ScanType /\ ScanNames'
                   /\ row' \in [Workspaces -> Statuses \cup {"missing"}]
                   /\ UNCHANGED <<drvVars, move, starting, stopping, req, begun,
                                  events, crashes>>
<1>1. ASSUME ScanRows PROVE Good
  BY <1>1, <1>scan DEF ScanRows, ScanType, ScanNames, apiVars
<1>2. ASSUME ScanProbe PROVE Good
  <2>1. PICK w \in scan.todo :
          scan' = [scan EXCEPT !.pc = "judge", !.ws = w, !.seam = Seam(w),
                               !.todo = @ \ {w}]
    BY <1>2 DEF ScanProbe
  <2>2. w \in Workspaces /\ Seam(w) \in Statuses
    BY <1>own, <1>scan, SeamType DEF ScanType
  <2> QED
    BY <1>2, <2>1, <2>2, <1>scan DEF ScanProbe, ScanType, ScanNames, apiVars
<1>pass. ASSUME Pass PROVE scan' \in ScanType /\ ScanNames'
  BY <1>pass, <1>scan DEF Pass, ScanType, ScanNames, Statuses
<1>3. ASSUME ScanJudge PROVE Good
  <2>1. CASE Pass
    BY <1>3, <2>1, <1>pass, <1>scan DEF ScanJudge, apiVars
  <2>2. CASE scan' = [scan EXCEPT !.pc = "write"]
    <3>1. scan' \in ScanType /\ ScanNames'
      BY <1>3, <2>2, <1>own, <1>scan DEF ScanJudge, ScanType, ScanNames
    <3> QED
      BY <1>3, <3>1, <1>scan DEF ScanJudge, apiVars
  <2> QED
    BY <1>3, <2>1, <2>2 DEF ScanJudge
<1>4. ASSUME ScanWrite PROVE Good
  <2>1. scan.ws \in Workspaces /\ scan.seam \in Statuses
    BY <1>4, <1>own, <1>scan DEF ScanWrite, ScanNames, ScanType
  <2>2. row' \in [Workspaces -> Statuses \cup {"missing"}]
    BY <1>4, <1>own, <2>1, SetStatusType DEF ScanWrite
  <2> QED
    BY <1>4, <2>2, <1>pass DEF ScanWrite
<1>5. ASSUME ScanSleep PROVE Good
  BY <1>5, <1>scan
     DEF ScanSleep, IdleScan, ScanType, ScanNames, Statuses, apiVars
<1>6. Good
  BY <1>1, <1>2, <1>3, <1>4, <1>5 DEF ScanStep
<1> QED
  BY <1>6, <1>own DEF TypeInv, TypeOK, drvVars, Fits, Restorable

LEMMA BeginTypes ==
  ASSUME TypeInv, NEW r \in Requests, Begin(r)
  PROVE  TypeInv'
<1>own. TypeOK /\ ScanNames /\ \A s \in Requests : Fits(s) /\ Restorable(s)
  BY DEF TypeInv
<1>1. PICK op \in Ops, w \in Workspaces :
        /\ row[w] # "missing"
        /\ req' = [req EXCEPT ![r] =
                     [op |-> op, ws |-> w, pc |-> FirstPc[op],
                      prior |-> IF op = "stop" THEN row[w] ELSE "missing"]]
        /\ stopping' = IF op = "stop" THEN stopping \cup {w} ELSE stopping
  BY DEF Begin
<1>2. /\ op \in AllOps
      /\ op = "start" => FirstPc[op] = "lock"
      /\ op = "stop" => FirstPc[op] = "write"
      /\ op = "reset" => FirstPc[op] = "shutdown"
      /\ op = "delete" => FirstPc[op] = "lock"
      /\ op = "move" => FirstPc[op] = "lock"
  BY LifecycleAssumption DEF FirstPc, AllOps
<1>3. row[w] \in Statuses \cup {"missing"} /\ req \in [Requests -> RequestType]
  BY <1>own DEF TypeOK
<1>4. FirstPc[op] \in RequestPcs
  BY <1>2 DEF AllOps, RequestPcs
<1>5. [op |-> op, ws |-> w, pc |-> FirstPc[op],
       prior |-> IF op = "stop" THEN row[w] ELSE "missing"] \in RequestType
  BY <1>2, <1>3, <1>4 DEF RequestType
<1>6. /\ req' \in [Requests -> RequestType]
      /\ \A s \in Requests \ {r} : req'[s] = req[s]
      /\ req'[r].op = op /\ req'[r].ws = w /\ req'[r].pc = FirstPc[op]
      /\ op = "stop" => req'[r].prior # "missing"
  BY <1>1, <1>3, <1>5
<1>7. Fits(r)' /\ Restorable(r)'
  BY <1>2, <1>6 DEF Fits, Restorable, AllOps
<1>8. \A s \in Requests : Fits(s)' /\ Restorable(s)'
  BY <1>6, <1>7, OthersFit
<1>9. begun' \in 0..MaxRequests
  BY <1>own, LifecycleAssumption DEF Begin, TypeOK
<1>10. TypeOK'
  BY <1>own, <1>1, <1>6, <1>9 DEF Begin, TypeOK, drvVars
<1> QED
  BY <1>8, <1>10, <1>own DEF TypeInv, ScanNames, Begin

LEMMA WorldTypes ==
  ASSUME TypeInv, (\E w \in Workspaces : Serve(w) \/ Happens(w)) \/ Crash
  PROVE  TypeInv'
<1>own. TypeOK /\ ScanNames /\ \A s \in Requests : Fits(s) /\ Restorable(s)
  BY DEF TypeInv
<1>1. ASSUME NEW w \in Workspaces, Serve(w) PROVE TypeInv'
  <2>1. TypeOK'
    BY <1>1, <1>own DEF Serve, TypeOK, Vmms, apiVars
  <2> QED
    BY <2>1, <1>1, <1>own
       DEF Serve, apiVars, TypeInv, ScanNames, Fits, Restorable
<1>2. ASSUME NEW w \in Workspaces, Happens(w) PROVE TypeInv'
  <2>1. events' \in 0..MaxEvents
    BY <1>2, <1>own, LifecycleAssumption DEF Happens, TypeOK
  <2>2. TypeOK'
    BY <1>2, <2>1, <1>own DEF Happens, TypeOK, Vmms, apiVars
  <2> QED
    BY <2>2, <1>2, <1>own
       DEF Happens, apiVars, TypeInv, ScanNames, Fits, Restorable
<1>3. ASSUME Crash PROVE TypeInv'
  <2>1. crashes' \in 0..MaxCrashes
    BY <1>3, <1>own, LifecycleAssumption DEF Crash, TypeOK
  <2>2. IdleRequest \in RequestType /\ IdleScan \in ScanType
    BY DEF IdleRequest, RequestType, RequestPcs, IdleScan, ScanType, Statuses
  <2>3. TypeOK'
    BY <1>3, <2>1, <2>2, <1>own DEF Crash, TypeOK
  <2>4. \A s \in Requests : Fits(s)' /\ Restorable(s)'
    BY <1>3, IdleFits DEF Crash
  <2> QED
    BY <2>3, <2>4, <1>3 DEF TypeInv, ScanNames, Crash, IdleScan
<1> QED
  BY <1>1, <1>2, <1>3

LEMMA InitTypes == Init => TypeInv
<1> SUFFICES ASSUME Init PROVE TypeInv
  OBVIOUS
<1>1. IdleRequest \in RequestType /\ IdleScan \in ScanType
  BY DEF IdleRequest, RequestType, RequestPcs, IdleScan, ScanType, Statuses
<1>2. TypeOK
  BY <1>1, LifecycleAssumption DEF Init, TypeOK, Statuses, Vmms
<1>3. \A s \in Requests : Fits(s) /\ Restorable(s)
  BY DEF Init, Fits, Restorable, IdleRequest
<1> QED
  BY <1>2, <1>3 DEF TypeInv, ScanNames, Init, IdleScan

LEMMA TypeStep == TypeInv /\ [Next]_vars => TypeInv'
<1> SUFFICES ASSUME TypeInv, [Next]_vars PROVE TypeInv'
  OBVIOUS
<1>1. ASSUME NEW r \in Requests, RequestStep(r) PROVE TypeInv'
  BY <1>1, RecordStep, RestStep DEF TypeInv, TypeOK, Rest, ScanNames
<1>2. CASE UNCHANGED vars
  BY <1>2
     DEF vars, drvVars, apiVars, TypeInv, TypeOK, ScanNames, Fits, Restorable
<1> QED
  BY <1>1, <1>2, BeginTypes, ScanTypes, WorldTypes DEF Next

\* The types, for any workspaces, requests and bounds.
THEOREM TypeCorrect == Spec => []TypeOK
<1>1. TypeInv => TypeOK
  BY DEF TypeInv
<1> QED
  BY <1>1, InitTypes, TypeStep, PTL DEF Spec

-------------------------------------------------------------------------------

\* Who holds a lock, and who a guard.
Locking(r) ==
  req[r].op \in {"start", "delete", "move"} /\ req[r].pc \notin {"idle", "lock"}
Guarding(r) == req[r].pc \in {"spawn", "boot", "press", "terminate", "detach"}

Locked == \A r \in Requests : Locking(r) => move[req[r].ws] = r
Guarded == \A r \in Requests : Guarding(r) => guard[req[r].ws] = r

\* A step of r may keep what r holds, take what is free, or give back its own.
SameWs(r) == req'[r].ws = req[r].ws
LockEffect(r) ==
  \/ UNCHANGED move /\ (Locking(r)' => Locking(r) /\ SameWs(r))
  \/ /\ move[req[r].ws] = Nobody /\ move' = [move EXCEPT ![req[r].ws] = r]
     /\ req[r].ws \in Workspaces /\ SameWs(r)
  \/ Answer(r)
GuardEffect(r) ==
  \/ UNCHANGED guard /\ (Guarding(r)' => Guarding(r) /\ SameWs(r))
  \/ /\ guard[req[r].ws] = Nobody /\ guard' = [guard EXCEPT ![req[r].ws] = r]
     /\ req[r].ws \in Workspaces /\ SameWs(r)
  \/ Guarding(r) /\ Release(r) /\ ~Guarding(r)'

LEMMA AnswerEffects ==
  ASSUME TypeOK, NEW r \in Requests, Answer(r), UNCHANGED guard
  PROVE  /\ LockEffect(r) /\ GuardEffect(r)
         /\ \A s \in Requests \ {r} : req'[s] = req[s]
<1>1. /\ req'[r] = IdleRequest
      /\ \A s \in Requests \ {r} : req'[s] = req[s]
  BY AnswerType
<1>2. ~Guarding(r)'
  BY <1>1 DEF Guarding, IdleRequest
<1> QED
  BY <1>1, <1>2 DEF LockEffect, GuardEffect

LEMMA Effects ==
  ASSUME TypeInv, NEW r \in Requests, RequestStep(r)
  PROVE  /\ LockEffect(r) /\ GuardEffect(r)
         /\ \A s \in Requests \ {r} : req'[s] = req[s]
<1>own. TypeOK /\ Fits(r)
  BY DEF TypeInv
<1>req. req \in [Requests -> RequestType]
  BY <1>own DEF TypeOK
<1> DEFINE Good == /\ LockEffect(r) /\ GuardEffect(r)
                   /\ \A s \in Requests \ {r} : req'[s] = req[s]
<1>1. ASSUME TakeLock(r) PROVE Good
  <2>1. /\ LockedPc[req[r].op] \in RequestPcs
        /\ LockedPc[req[r].op] \notin {"idle", "spawn", "boot", "press", "terminate", "detach"}
    BY <1>1, <1>own, Tables DEF TakeLock, At, Fits, RequestPcs
  <2> QED
    BY <1>1, <2>1, <1>own, GoToType
       DEF TakeLock, drvVars, At, LockEffect, GuardEffect, Locking, Guarding,
           SameWs, Fits, RequestPcs
<1>2. ASSUME GiveUp(r) PROVE Good
  BY <1>2, <1>own, AnswerEffects DEF GiveUp, drvVars
<1>3. ASSUME Reread(r) PROVE Good
  <2>1. CASE Answer(r)
    BY <1>3, <2>1, <1>own, AnswerType
       DEF Reread, drvVars, LockEffect, GuardEffect, Guarding, IdleRequest
  <2>2. CASE /\ req' = [req EXCEPT ![r].pc = "write", ![r].prior = row[req[r].ws]]
             /\ UNCHANGED move
    <3>1. /\ \A s \in Requests \ {r} : req'[s] = req[s]
          /\ req'[r].op = req[r].op /\ req'[r].pc = "write" /\ SameWs(r)
      BY <2>2, <1>req DEF RequestType, SameWs
    <3> QED
      BY <1>3, <2>2, <3>1
         DEF Reread, drvVars, At, LockEffect, GuardEffect, Locking, Guarding
  <2> QED
    BY <1>3, <2>1, <2>2 DEF Reread
<1>4. ASSUME WriteMark(r) PROVE Good
  BY <1>4, <1>own, GoToType
     DEF WriteMark, drvVars, At, LockEffect, GuardEffect, Locking, Guarding,
         SameWs, Fits, RequestPcs
<1>5. ASSUME Restore(r) PROVE Good
  BY <1>5, <1>own, AnswerEffects DEF Restore, drvVars
<1>6. ASSUME Settle(r) PROVE Good
  BY <1>6, <1>own, AnswerEffects DEF Settle, drvVars
<1>7. ASSUME Recheck(r) PROVE Good
  <2>1. CASE Answer(r)
    BY <1>7, <2>1, <1>own, AnswerEffects DEF Recheck, drvVars
  <2>2. CASE GoTo(r, "probe") /\ UNCHANGED move
    BY <1>7, <2>2, <1>own, GoToType
       DEF Recheck, drvVars, At, LockEffect, GuardEffect, Locking, Guarding,
           SameWs, Fits, RequestPcs
  <2> QED
    BY <1>7, <2>1, <2>2 DEF Recheck
<1>8. ASSUME Probe(r) PROVE Good
  <2>1. CASE Answer(r)
    BY <1>8, <2>1, <1>own, AnswerEffects DEF Probe, drvVars
  <2>2. CASE GoTo(r, "moving") /\ UNCHANGED move
    BY <1>8, <2>2, <1>own, GoToType
       DEF Probe, drvVars, At, LockEffect, GuardEffect, Locking, Guarding,
           SameWs, Fits, RequestPcs
  <2> QED
    BY <1>8, <2>1, <2>2 DEF Probe
<1>9. ASSUME Moved(r) PROVE Good
  BY <1>9, <1>own, AnswerEffects DEF Moved, drvVars
<1>10. ASSUME Launch(r) PROVE Good
  BY <1>10, <1>own, GoToType
     DEF Launch, drvVars, At, LockEffect, GuardEffect, Locking, Guarding,
         SameWs, Fits, RequestPcs
<1>11. ASSUME Spawn(r) PROVE Good
  BY <1>11, <1>own, GoToType
     DEF Spawn, drvVars, At, LockEffect, GuardEffect, Locking, Guarding,
         SameWs, Fits, RequestPcs
<1>12. ASSUME Create(r) PROVE Good
  BY <1>12, <1>own, GoToType
     DEF Create, drvVars, At, LockEffect, GuardEffect, Locking, Guarding,
         SameWs, Fits, RequestPcs, apiVars
<1>13. ASSUME Boot(r) PROVE Good
  BY <1>13, <1>own, GoToType
     DEF Boot, drvVars, At, LockEffect, GuardEffect, Locking, Guarding, SameWs,
         Fits, RequestPcs
<1>14. ASSUME LaunchFails(r) PROVE Good
  BY <1>14, <1>own, GoToType
     DEF LaunchFails, drvVars, At, LockEffect, GuardEffect, Locking, Guarding,
         SameWs, Fits, RequestPcs
<1>15. ASSUME ShutdownAbsent(r) PROVE Good
  <2>1. /\ LandedPc[req[r].op] \in RequestPcs
        /\ LandedPc[req[r].op] \notin {"idle", "spawn", "boot", "press", "terminate", "detach"}
    BY <1>15, <1>own, Tables DEF ShutdownAbsent, At, Fits, RequestPcs
  <2> QED
    BY <1>15, <2>1, <1>own, GoToType
       DEF ShutdownAbsent, drvVars, At, LockEffect, GuardEffect, Locking,
           Guarding, SameWs, Fits, RequestPcs, Landed
<1>16. ASSUME Shutdown(r) PROVE Good
  BY <1>16, <1>own, GoToType
     DEF Shutdown, drvVars, At, LockEffect, GuardEffect, Locking, Guarding,
         SameWs, Fits, RequestPcs
<1>17. ASSUME Press(r) PROVE Good
  BY <1>17, <1>own, GoToType
     DEF Press, drvVars, At, LockEffect, GuardEffect, Locking, Guarding,
         SameWs, Fits, RequestPcs
<1>18. ASSUME PressTimeout(r) PROVE Good
  <2>1. /\ FailedPc[req[r].op] \in RequestPcs
        /\ FailedPc[req[r].op] \notin {"idle", "spawn", "boot", "press", "terminate", "detach"}
    BY <1>18, <1>own, Tables DEF PressTimeout, At, Fits, RequestPcs
  <2> QED
    BY <1>18, <2>1, <1>own, GoToType
       DEF PressTimeout, drvVars, At, LockEffect, GuardEffect, Locking,
           Guarding, SameWs, Fits, RequestPcs
<1>19. ASSUME Terminate(r) PROVE Good
  <2>1. /\ FailedPc[req[r].op] \in RequestPcs
        /\ FailedPc[req[r].op] \notin {"idle", "spawn", "boot", "press", "terminate", "detach"}
    BY <1>19, <1>own, Tables DEF Terminate, At, Fits, RequestPcs
  <2> QED
    BY <1>19, <2>1, <1>own, GoToType
       DEF Terminate, drvVars, At, LockEffect, GuardEffect, Locking, Guarding,
           SameWs, Fits, RequestPcs
<1>20. ASSUME NetDetach(r) PROVE Good
  <2>1. /\ LandedPc[req[r].op] \in RequestPcs
        /\ LandedPc[req[r].op] \notin {"idle", "spawn", "boot", "press", "terminate", "detach"}
    BY <1>20, <1>own, Tables DEF NetDetach, At, Fits, RequestPcs
  <2> QED
    BY <1>20, <2>1, <1>own, GoToType
       DEF NetDetach, drvVars, At, LockEffect, GuardEffect, Locking, Guarding,
           SameWs, Fits, RequestPcs, Landed
<1>21. ASSUME Kill(r) PROVE Good
  <2>1. /\ LandedPc[req[r].op] \in RequestPcs
        /\ LandedPc[req[r].op] \notin {"idle", "spawn", "boot", "press", "terminate", "detach"}
    BY <1>21, <1>own, Tables DEF Kill, At, Fits, RequestPcs
  <2>2. CASE Answer(r)
    BY <1>21, <2>2, <1>own, AnswerEffects DEF Kill, drvVars
  <2>3. CASE GoTo(r, LandedPc[req[r].op]) /\ UNCHANGED move
    BY <1>21, <2>1, <2>3, <1>own, GoToType
       DEF Kill, drvVars, At, LockEffect, GuardEffect, Locking, Guarding,
           SameWs, Fits, RequestPcs
  <2> QED
    BY <1>21, <2>2, <2>3 DEF Kill
<1>22. ASSUME Drop(r) PROVE Good
  <2>1. CASE Answer(r)
    BY <1>22, <2>1, <1>own, AnswerEffects DEF Drop, drvVars
  <2>2. CASE GoTo(r, "dropped") /\ UNCHANGED move
    BY <1>22, <2>2, <1>own, GoToType
       DEF Drop, drvVars, At, LockEffect, GuardEffect, Locking, Guarding,
           SameWs, Fits, RequestPcs
  <2> QED
    BY <1>22, <2>1, <2>2 DEF Drop
<1>23. ASSUME Cleanup(r) PROVE Good
  BY <1>23, <1>own, GoToType
     DEF Cleanup, drvVars, At, LockEffect, GuardEffect, Locking, Guarding,
         SameWs, Fits, RequestPcs
<1> QED
  BY <1>1, <1>2, <1>3, <1>4, <1>5, <1>6, <1>7, <1>8, <1>9, <1>10, <1>11, <1>12,
     <1>13, <1>14, <1>15, <1>16, <1>17, <1>18, <1>19, <1>20, <1>21, <1>22, <1>23
     DEF RequestStep, OwnStep

\* So nobody else's lock or guard changes hands.
LEMMA LockStep ==
  ASSUME TypeInv, Locked, Guarded, NEW r \in Requests, RequestStep(r)
  PROVE  Locked' /\ Guarded'
<1>own. /\ move \in [Workspaces -> Requests \cup {Nobody}]
        /\ guard \in [Workspaces -> Requests \cup {Nobody}]
        /\ Nobody \notin Requests
        /\ \A s \in Requests : Fits(s)
        /\ TypeOK
  BY LifecycleAssumption DEF TypeInv, TypeOK
<1>eff. /\ LockEffect(r) /\ GuardEffect(r)
        /\ \A s \in Requests \ {r} : req'[s] = req[s]
  BY Effects
<1>1. ASSUME NEW s \in Requests, Locking(s)' PROVE move'[req'[s].ws] = s
  <2>1. CASE s = r
    <3>1. CASE Answer(r)
      BY <1>1, <2>1, <3>1, <1>own, AnswerType DEF Locking, IdleRequest
    <3> QED
      BY <1>1, <2>1, <3>1, <1>own, <1>eff DEF LockEffect, Locked, SameWs
  <2>2. CASE s # r
    <3>1. /\ req'[s] = req[s] /\ Locking(s) /\ req[s].ws \in Workspaces
          /\ move[req[s].ws] = s
      BY <1>1, <2>2, <1>own, <1>eff DEF Locking, Fits, Locked
    <3> QED
      BY <2>2, <3>1, <1>own, <1>eff DEF LockEffect, Answer
  <2> QED
    BY <2>1, <2>2
<1>2. ASSUME NEW s \in Requests, Guarding(s)' PROVE guard'[req'[s].ws] = s
  <2>1. CASE s = r
    BY <1>2, <2>1, <1>own, <1>eff DEF GuardEffect, Guarded, SameWs
  <2>2. CASE s # r
    <3>1. /\ req'[s] = req[s] /\ Guarding(s) /\ req[s].ws \in Workspaces
          /\ guard[req[s].ws] = s
      BY <1>2, <2>2, <1>own, <1>eff DEF Guarding, Fits, Guarded
    <3>2. Guarding(r) => guard[req[r].ws] = r
      BY DEF Guarded
    <3> QED
      BY <2>2, <3>1, <3>2, <1>own, <1>eff DEF GuardEffect, Release
  <2> QED
    BY <2>1, <2>2
<1> QED
  BY <1>1, <1>2 DEF Locked, Guarded

-------------------------------------------------------------------------------

\* What a request at a step may count on, whatever the others do meanwhile.
Starting(r) == req[r].op = "start" /\ req[r].pc \notin {"idle", "lock", "reread"}
Staged(r) ==
  LET w == req[r].ws
      pc == req[r].pc
  IN /\ Starting(r) => row[w] # "missing"
     /\ pc \in {"spawn", "cleaned"} => vmm[w] \notin Alive
     /\ pc \in {"spawn", "boot"} => w \in net
     /\ pc \in {"terminate", "detach"} => vmm[w] # "guest"
     /\ pc = "moving" => vmm[w] \notin {"guest", "hung"}
     /\ pc \in {"probe", "moving"} => row[w] # "missing"

Safe == (\A r \in Requests : Staged(r)) /\ NoOrphanVm /\ GuestHasNet
SafeInv == TypeInv /\ Locked /\ Guarded /\ Safe

\* What a step of r may do to a row, a VMM and a network attachment.
RowEffect(r) ==
  \/ \A w \in Workspaces : row'[w] = "missing" <=> row[w] = "missing"
  \/ At(r, "cleaned") /\ row' = [row EXCEPT ![req[r].ws] = "missing"]
VmmEffect(r) ==
  LET Becomes(status) == vmm' = [vmm EXCEPT ![req[r].ws] = status]
      was == vmm[req[r].ws]
  IN \/ UNCHANGED vmm
     \/ Becomes("off") \/ Becomes("absent")
     \/ At(r, "spawn") /\ Becomes("spawned")
     \/ At(r, "boot") /\ was = "serving" /\ Becomes("made")
     \/ At(r, "boot") /\ was = "made" /\ Becomes("guest")
     \/ was = "guest" /\ Becomes("down")
NetEffect(r) ==
  \/ net \subseteq net'
  \/ /\ net' = net \ {req[r].ws}
     /\ guard[req[r].ws] = Nobody \/ Guarding(r)
     /\ vmm'[req[r].ws] # "guest"

LEMMA SetStatusKeeps ==
  ASSUME TypeOK, NEW v \in Workspaces, NEW status, status # "missing",
         SetStatus(v, status)
  PROVE  \A w \in Workspaces : row'[w] = "missing" <=> row[w] = "missing"
BY DEF TypeOK, SetStatus

LEMMA RowEffects ==
  ASSUME TypeInv, NEW r \in Requests, RequestStep(r)
  PROVE  RowEffect(r)
<1>own. TypeOK /\ Fits(r) /\ Restorable(r)
  BY DEF TypeInv
<1>1. CASE UNCHANGED row
  BY <1>1 DEF RowEffect
<1>2. CASE WriteMark(r)
  BY <1>2, <1>own, SetStatusKeeps DEF WriteMark, RowEffect, At, Fits
<1>3. CASE Restore(r)
  BY <1>3, <1>own, SetStatusKeeps DEF Restore, RowEffect, At, Fits, Restorable
<1>4. CASE Settle(r)
  BY <1>4, <1>own, SetStatusKeeps DEF Settle, RowEffect, At, Fits
<1> QED
  BY <1>1, <1>2, <1>3, <1>4
     DEF RequestStep, OwnStep, TakeLock, GiveUp, Reread, Recheck, Probe, Moved, Launch,
         Spawn, Create, Boot, LaunchFails, ShutdownAbsent, Shutdown, Press,
         PressTimeout, Terminate, NetDetach, Kill, Drop, Cleanup, apiVars

LEMMA VmmEffects ==
  ASSUME TypeInv, NEW r \in Requests, RequestStep(r)
  PROVE  VmmEffect(r)
<1>1. CASE UNCHANGED vmm
  BY <1>1 DEF VmmEffect
<1>2. CASE Spawn(r)
  BY <1>2, <1>1 DEF Spawn, VmmEffect
<1>3. CASE Create(r)
  BY <1>3, <1>1 DEF Create, VmmEffect
<1>4. CASE Boot(r)
  BY <1>4, <1>1 DEF Boot, VmmEffect
<1>5. CASE LaunchFails(r)
  BY <1>5, <1>1 DEF LaunchFails, VmmEffect
<1>6. CASE Press(r)
  BY <1>6, <1>1 DEF Press, VmmEffect
<1>7. CASE Terminate(r)
  BY <1>7, <1>1 DEF Terminate, VmmEffect
<1>8. CASE Kill(r)
  BY <1>8, <1>1 DEF Kill, VmmEffect
<1>9. CASE Cleanup(r)
  BY <1>9, <1>1 DEF Cleanup, VmmEffect
<1> QED
  BY <1>1, <1>2, <1>3, <1>4, <1>5, <1>6, <1>7, <1>8, <1>9
     DEF RequestStep, OwnStep, drvVars, TakeLock, GiveUp, Reread, WriteMark, Restore,
         Settle, Recheck, Probe, Moved, Launch, ShutdownAbsent, Shutdown,
         PressTimeout, NetDetach, Drop

LEMMA NetEffects ==
  ASSUME TypeInv, Safe, NEW r \in Requests, RequestStep(r)
  PROVE  NetEffect(r)
<1>own. /\ Fits(r) /\ Staged(r) /\ vmm \in [Workspaces -> Vmms]
  BY DEF TypeInv, TypeOK, Safe
<1>1. CASE UNCHANGED net
  BY <1>1 DEF NetEffect
<1>2. CASE Launch(r)
  BY <1>2, <1>1, <1>own DEF Launch, NetEffect, At, Fits, Staged, Guarding, Alive
<1>3. CASE LaunchFails(r)
  BY <1>3, <1>1, <1>own
     DEF LaunchFails, NetEffect, At, Fits, Staged, Guarding, Alive
<1>4. CASE ShutdownAbsent(r)
  BY <1>4, <1>1, <1>own
     DEF ShutdownAbsent, NetEffect, At, Fits, Staged, Guarding, Alive
<1>5. CASE NetDetach(r)
  BY <1>5, <1>1, <1>own
     DEF NetDetach, NetEffect, At, Fits, Staged, Guarding, Alive
<1>6. CASE Kill(r)
  BY <1>6, <1>1, <1>own DEF Kill, NetEffect, At, Fits, Staged, Guarding, Alive
<1>7. CASE Drop(r)
  BY <1>7, <1>1, <1>own DEF Drop, NetEffect, At, Fits, Staged, Guarding, Alive
<1>8. CASE Cleanup(r)
  BY <1>8, <1>1, <1>own
     DEF Cleanup, NetEffect, At, Fits, Staged, Guarding, Alive
<1> QED
  BY <1>1, <1>2, <1>3, <1>4, <1>5, <1>6, <1>7, <1>8
     DEF RequestStep, OwnStep, drvVars, TakeLock, GiveUp, Reread, WriteMark, Restore,
         Settle, Recheck, Probe, Moved, Spawn, Create, Boot, Shutdown, Press,
         PressTimeout, Terminate

\* What the others count on survives a step of r.
LEMMA OthersStaged ==
  ASSUME SafeInv, NEW r \in Requests, RequestStep(r),
         NEW s \in Requests \ {r}
  PROVE  Staged(s)'
<1> DEFINE w == req[s].ws
<1>own. /\ TypeInv /\ Fits(r) /\ Fits(s) /\ Staged(s) /\ Safe
        /\ vmm \in [Workspaces -> Vmms] /\ net \subseteq Workspaces
        /\ row \in [Workspaces -> Statuses \cup {"missing"}]
        /\ Nobody \notin Requests
  BY LifecycleAssumption DEF SafeInv, TypeInv, TypeOK, Safe
<1>same. req'[s] = req[s]
  BY <1>own, Effects
<1>eff. RowEffect(r) /\ VmmEffect(r) /\ NetEffect(r)
  BY <1>own, RowEffects, VmmEffects, NetEffects
<1>apart. ASSUME req[s].ws = req[r].ws
          PROVE  ~(Locking(r) /\ Locking(s)) /\ ~(Guarding(r) /\ Guarding(s))
  BY <1>apart DEF SafeInv, Locked, Guarded
<1>ws. req[s].pc # "idle" => w \in Workspaces
  BY <1>own DEF Fits
<1>1. ASSUME Starting(s) PROVE row'[w] # "missing"
  <2>1. Locking(s) /\ w \in Workspaces /\ row[w] # "missing"
    BY <1>1, <1>own, <1>ws DEF Starting, Locking, Staged
  <2>2. At(r, "cleaned") => Locking(r)
    BY <1>own DEF At, Locking, Fits
  <2> QED
    BY <2>1, <2>2, <1>eff, <1>apart, <1>own DEF RowEffect
<1>2. ASSUME req[s].pc \in {"spawn", "cleaned"} PROVE vmm'[w] \notin Alive
  <2>1. vmm[w] \notin Alive /\ w \in Workspaces /\ Locking(s)
    BY <1>2, <1>own, <1>ws DEF Staged, Locking, Fits
  <2>2. At(r, "spawn") \/ At(r, "boot") => Locking(r)
    BY <1>own DEF At, Locking, Fits
  <2> QED
    BY <2>1, <2>2, <1>eff, <1>apart, <1>own DEF VmmEffect, Alive
<1>3. ASSUME req[s].pc \in {"spawn", "boot"} PROVE w \in net'
  <2>1. w \in net /\ Guarding(s) /\ guard[w] = s
    BY <1>3, <1>own DEF Staged, Guarding, SafeInv, Guarded
  <2> QED
    BY <2>1, <1>eff, <1>apart, <1>own DEF NetEffect
<1>4. ASSUME req[s].pc \in {"terminate", "detach"} PROVE vmm'[w] # "guest"
  <2>1. vmm[w] # "guest" /\ w \in Workspaces /\ Guarding(s)
    BY <1>4, <1>own, <1>ws DEF Staged, Guarding
  <2>2. At(r, "boot") => Guarding(r)
    BY DEF At, Guarding
  <2> QED
    BY <2>1, <2>2, <1>eff, <1>apart, <1>own DEF VmmEffect
<1>5. ASSUME req[s].pc = "moving" PROVE vmm'[w] \notin {"guest", "hung"}
  <2>1. vmm[w] \notin {"guest", "hung"} /\ w \in Workspaces /\ Locking(s)
    BY <1>5, <1>own, <1>ws DEF Staged, Locking, Fits
  <2>2. At(r, "boot") => Locking(r)
    BY <1>own DEF At, Locking, Fits
  <2> QED
    BY <2>1, <2>2, <1>eff, <1>apart, <1>own DEF VmmEffect
<1>6. ASSUME req[s].pc \in {"probe", "moving"} PROVE row'[w] # "missing"
  <2>1. Locking(s) /\ w \in Workspaces /\ row[w] # "missing"
    BY <1>6, <1>own, <1>ws DEF Staged, Locking, Fits
  <2>2. At(r, "cleaned") => Locking(r)
    BY <1>own DEF At, Locking, Fits
  <2> QED
    BY <2>1, <2>2, <1>eff, <1>apart, <1>own DEF RowEffect
<1> QED
  BY <1>1, <1>2, <1>3, <1>4, <1>5, <1>6, <1>same DEF Staged, Starting

\* What r may count on at its next step.
LEMMA SelfStaged ==
  ASSUME SafeInv, NEW r \in Requests, RequestStep(r)
  PROVE  Staged(r)'
<1>own. /\ TypeInv /\ TypeOK /\ Fits(r) /\ Staged(r)
        /\ vmm \in [Workspaces -> Vmms] /\ net \subseteq Workspaces
        /\ row \in [Workspaces -> Statuses \cup {"missing"}]
        /\ req \in [Requests -> RequestType]
  BY DEF SafeInv, TypeInv, TypeOK, Safe
<1>row. RowEffect(r)
  BY <1>own, RowEffects
<1>1. ASSUME TakeLock(r) PROVE Staged(r)'
  <2>1. /\ LockedPc[req[r].op] \in RequestPcs
        /\ LockedPc[req[r].op] \notin {"spawn", "boot", "terminate", "detach", "probe", "moving", "cleaned"}
        /\ req[r].op = "start" => LockedPc[req[r].op] = "reread"
    BY <1>1, <1>own, Tables DEF TakeLock, At, Fits, RequestPcs
  <2> QED
    BY <1>1, <2>1, <1>own, GoToType
       DEF TakeLock, Staged, Starting, At, RequestPcs, Fits
<1>2. ASSUME GiveUp(r) PROVE Staged(r)'
  <2>1. req'[r] = IdleRequest
    BY <1>2, <1>own, AnswerType DEF GiveUp
  <2> QED
    BY <2>1 DEF Staged, Starting, IdleRequest
<1>3. ASSUME Reread(r) PROVE Staged(r)'
  <2>1. CASE Answer(r)
    <3>1. req'[r] = IdleRequest
      BY <2>1, <1>own, AnswerType
    <3> QED
      BY <3>1 DEF Staged, Starting, IdleRequest
  <2>2. CASE /\ row[req[r].ws] # "missing"
             /\ req' = [req EXCEPT ![r].pc = "write", ![r].prior = row[req[r].ws]]
    <3>1. req'[r].pc = "write" /\ req'[r].ws = req[r].ws
      BY <2>2, <1>own DEF RequestType
    <3> QED
      BY <1>3, <2>2, <3>1 DEF Reread, Staged, Starting
  <2> QED
    BY <1>3, <2>1, <2>2 DEF Reread
<1>4. ASSUME WriteMark(r) PROVE Staged(r)'
  <2>1. /\ req[r].ws \in Workspaces /\ req[r].pc = "write"
        /\ req[r].op = "start" => row[req[r].ws] # "missing"
    BY <1>4, <1>own DEF WriteMark, At, Fits, Staged, Starting
  <2>2. req[r].op = "start" => row'[req[r].ws] # "missing"
    BY <2>1, <1>row DEF RowEffect, At
  <2> QED
    BY <1>4, <2>2, <1>own, GoToType DEF WriteMark, Staged, Starting, RequestPcs
<1>5. ASSUME Restore(r) PROVE Staged(r)'
  <2>1. req'[r] = IdleRequest
    BY <1>5, <1>own, AnswerType DEF Restore
  <2> QED
    BY <2>1 DEF Staged, Starting, IdleRequest
<1>6. ASSUME Settle(r) PROVE Staged(r)'
  <2>1. req'[r] = IdleRequest
    BY <1>6, <1>own, AnswerType DEF Settle
  <2> QED
    BY <2>1 DEF Staged, Starting, IdleRequest
<1>7. ASSUME Recheck(r) PROVE Staged(r)'
  <2>1. CASE Answer(r)
    <3>1. req'[r] = IdleRequest
      BY <2>1, <1>own, AnswerType
    <3> QED
      BY <3>1 DEF Staged, Starting, IdleRequest
  <2>2. CASE GoTo(r, "probe") /\ ~Answer(r)
    BY <1>7, <2>2, <1>own, GoToType
       DEF Recheck, At, Staged, Starting, Fits, RequestPcs, drvVars, Free
  <2> QED
    BY <1>7, <2>1, <2>2 DEF Recheck
<1>8. ASSUME Probe(r) PROVE Staged(r)'
  <2>1. CASE Answer(r)
    <3>1. req'[r] = IdleRequest
      BY <2>1, <1>own, AnswerType
    <3> QED
      BY <3>1 DEF Staged, Starting, IdleRequest
  <2>2. CASE GoTo(r, "moving") /\ ~Answer(r)
    <3>1. /\ req[r].ws \in Workspaces /\ Seam(req[r].ws) \in {"absent", "stopped"}
          /\ UNCHANGED <<vmm, row>> /\ req[r].op = "move"
          /\ row[req[r].ws] # "missing"
      BY <1>8, <2>2, <1>own DEF Probe, At, Fits, Staged, drvVars
    <3>2. vmm[req[r].ws] \notin {"guest", "hung"}
      BY <3>1, <1>own DEF Seam, Seams
    <3> QED
      BY <2>2, <3>1, <3>2, <1>own, GoToType DEF Staged, Starting, RequestPcs
  <2> QED
    BY <1>8, <2>1, <2>2 DEF Probe
<1>9. ASSUME Moved(r) PROVE Staged(r)'
  <2>1. req'[r] = IdleRequest
    BY <1>9, <1>own, AnswerType DEF Moved
  <2> QED
    BY <2>1 DEF Staged, Starting, IdleRequest
<1>10. ASSUME Launch(r) PROVE Staged(r)'
  BY <1>10, <1>own, <1>row, GoToType
     DEF Launch, At, Staged, Starting, Fits, RequestPcs, Launchable, Alive,
         drvVars, Vmms, RowEffect
<1>11. ASSUME Spawn(r) PROVE Staged(r)'
  BY <1>11, <1>own, <1>row, GoToType
     DEF Spawn, At, Staged, Starting, Fits, RequestPcs, Launchable, Alive,
         drvVars, Vmms, RowEffect
<1>12. ASSUME Create(r) PROVE Staged(r)'
  BY <1>12, <1>own, <1>row, GoToType
     DEF Create, At, Staged, Starting, Fits, RequestPcs, apiVars, RequestType,
         Launchable, Alive, drvVars, Vmms, RowEffect
<1>13. ASSUME Boot(r) PROVE Staged(r)'
  BY <1>13, <1>own, <1>row, GoToType
     DEF Boot, At, Staged, Starting, Fits, RequestPcs, Launchable, Alive,
         drvVars, Vmms, RowEffect
<1>14. ASSUME LaunchFails(r) PROVE Staged(r)'
  BY <1>14, <1>own, <1>row, GoToType
     DEF LaunchFails, At, Staged, Starting, Fits, RequestPcs, Launchable,
         Alive, drvVars, Vmms, RowEffect
<1>15. ASSUME ShutdownAbsent(r) PROVE Staged(r)'
  <2>1. /\ LandedPc[req[r].op] \in RequestPcs
        /\ LandedPc[req[r].op] \notin {"spawn", "boot", "terminate", "detach", "probe", "moving", "cleaned"}
        /\ req[r].op = "start" => LandedPc[req[r].op] = "reread"
    BY <1>15, <1>own, Tables DEF ShutdownAbsent, At, Fits, RequestPcs
  <2> QED
    BY <1>15, <2>1, <1>own, GoToType
       DEF ShutdownAbsent, Landed, Staged, Starting, At, RequestPcs, Fits
<1>16. ASSUME Shutdown(r) PROVE Staged(r)'
  BY <1>16, <1>own, <1>row, GoToType
     DEF Shutdown, At, Staged, Starting, Fits, RequestPcs, RowEffect
<1>17. ASSUME Press(r) PROVE Staged(r)'
  BY <1>17, <1>own, <1>row, GoToType
     DEF Press, At, Staged, Starting, Fits, RequestPcs, Launchable, Alive,
         drvVars, Vmms, RowEffect
<1>18. ASSUME PressTimeout(r) PROVE Staged(r)'
  <2>1. /\ FailedPc[req[r].op] \in RequestPcs
        /\ FailedPc[req[r].op] \notin {"spawn", "boot", "terminate", "detach", "probe", "moving", "cleaned"}
        /\ req[r].op = "start" => FailedPc[req[r].op] = "reread"
    BY <1>18, <1>own, Tables DEF PressTimeout, At, Fits, RequestPcs
  <2> QED
    BY <1>18, <2>1, <1>own, GoToType
       DEF PressTimeout, Staged, Starting, At, RequestPcs, Fits
<1>19. ASSUME Terminate(r) PROVE Staged(r)'
  <2>1. /\ FailedPc[req[r].op] \in RequestPcs
        /\ FailedPc[req[r].op] \notin {"spawn", "boot", "terminate", "detach", "probe", "moving", "cleaned"}
        /\ req[r].op = "start" => FailedPc[req[r].op] = "reread"
    BY <1>19, <1>own, Tables DEF Terminate, At, Fits, RequestPcs
  <2> QED
    BY <1>19, <2>1, <1>own, GoToType
       DEF Terminate, Staged, Starting, At, RequestPcs, Fits
<1>20. ASSUME NetDetach(r) PROVE Staged(r)'
  <2>1. /\ LandedPc[req[r].op] \in RequestPcs
        /\ LandedPc[req[r].op] \notin {"spawn", "boot", "terminate", "detach", "probe", "moving", "cleaned"}
        /\ req[r].op = "start" => LandedPc[req[r].op] = "reread"
    BY <1>20, <1>own, Tables DEF NetDetach, At, Fits, RequestPcs
  <2> QED
    BY <1>20, <2>1, <1>own, GoToType
       DEF NetDetach, Landed, Staged, Starting, At, RequestPcs, Fits
<1>21. ASSUME Kill(r) PROVE Staged(r)'
  <2>1. /\ LandedPc[req[r].op] \in RequestPcs
        /\ LandedPc[req[r].op] \notin {"spawn", "boot", "terminate", "detach", "probe", "moving", "cleaned"}
        /\ req[r].op = "start" => LandedPc[req[r].op] = "reread"
    BY <1>21, <1>own, Tables DEF Kill, At, Fits, RequestPcs
  <2>2. CASE Answer(r)
    <3>1. req'[r] = IdleRequest
      BY <2>2, <1>own, AnswerType
    <3> QED
      BY <3>1 DEF Staged, Starting, IdleRequest
  <2>3. CASE GoTo(r, LandedPc[req[r].op])
    BY <1>21, <2>1, <2>3, <1>own, GoToType
       DEF Kill, Staged, Starting, At, RequestPcs, Fits
  <2> QED
    BY <1>21, <2>2, <2>3 DEF Kill
<1>22. ASSUME Drop(r) PROVE Staged(r)'
  <2>1. CASE Answer(r)
    <3>1. req'[r] = IdleRequest
      BY <2>1, <1>own, AnswerType
    <3> QED
      BY <3>1 DEF Staged, Starting, IdleRequest
  <2>2. CASE GoTo(r, "dropped") /\ ~Answer(r)
    BY <1>22, <2>2, <1>own, GoToType
       DEF Drop, At, Staged, Starting, Fits, RequestPcs, drvVars
  <2> QED
    BY <1>22, <2>1, <2>2 DEF Drop
<1>23. ASSUME Cleanup(r) PROVE Staged(r)'
  BY <1>23, <1>own, <1>row, GoToType
     DEF Cleanup, At, Staged, Starting, Fits, RequestPcs, Launchable, Alive,
         drvVars, Vmms, RowEffect
<1> QED
  BY <1>1, <1>2, <1>3, <1>4, <1>5, <1>6, <1>7, <1>8, <1>9, <1>10, <1>11, <1>12,
     <1>13, <1>14, <1>15, <1>16, <1>17, <1>18, <1>19, <1>20, <1>21, <1>22, <1>23
     DEF RequestStep, OwnStep

LEMMA SafeRequest ==
  ASSUME SafeInv, NEW r \in Requests, RequestStep(r)
  PROVE  Safe'
<1>own. /\ TypeInv /\ Fits(r) /\ Staged(r) /\ Safe
        /\ vmm \in [Workspaces -> Vmms] /\ net \subseteq Workspaces
        /\ row \in [Workspaces -> Statuses \cup {"missing"}]
  BY DEF SafeInv, TypeInv, TypeOK, Safe
<1>eff. RowEffect(r) /\ VmmEffect(r) /\ NetEffect(r)
  BY <1>own, RowEffects, VmmEffects, NetEffects
<1>crash. crashes' = crashes
  BY <1>own, RestStep
<1>1. \A s \in Requests : Staged(s)'
  BY OthersStaged, SelfStaged
<1>2. ASSUME NEW w \in Workspaces, row'[w] = "missing" PROVE vmm'[w] \notin Alive
  <2>1. CASE row[w] = "missing"
    <3>1. vmm[w] \notin Alive
      BY <2>1, <1>own DEF Safe, NoOrphanVm
    <3>2. At(r, "spawn") => req[r].ws # w
      BY <2>1, <1>own DEF At, Staged, Starting, Fits
    <3> QED
      BY <3>1, <3>2, <1>eff, <1>own DEF VmmEffect, Alive
  <2>2. CASE row[w] # "missing"
    <3>1. At(r, "cleaned") /\ w = req[r].ws
      BY <1>2, <2>2, <1>eff, <1>own DEF RowEffect
    <3>2. vmm[w] \notin Alive
      BY <3>1, <1>own DEF Staged, At
    <3> QED
      BY <3>1, <3>2, <1>eff, <1>own DEF VmmEffect, Alive, At
  <2> QED
    BY <2>1, <2>2
<1>3. ASSUME NEW w \in Workspaces, vmm'[w] = "guest", crashes' = 0 PROVE w \in net'
  <2>1. w \in net
    <3>1. CASE vmm[w] = "guest"
      BY <1>3, <3>1, <1>own, <1>crash DEF Safe, GuestHasNet
    <3>2. CASE vmm[w] # "guest"
      BY <1>3, <3>2, <1>eff, <1>own DEF VmmEffect, Staged, At
    <3> QED
      BY <3>1, <3>2
  <2> QED
    BY <2>1, <1>3, <1>eff DEF NetEffect
<1> QED
  BY <1>1, <1>2, <1>3 DEF Safe, NoOrphanVm, GuestHasNet

-------------------------------------------------------------------------------

\* A request begins holding nothing.
LEMMA SafeBegin ==
  ASSUME SafeInv, NEW r \in Requests, Begin(r)
  PROVE  Locked' /\ Guarded' /\ Safe'
<1>own. /\ SafeInv /\ TypeInv /\ Safe /\ req \in [Requests -> RequestType]
  BY DEF SafeInv, TypeInv, TypeOK
<1>1. PICK op \in Ops, w \in Workspaces :
        req' = [req EXCEPT ![r] =
                  [op |-> op, ws |-> w, pc |-> FirstPc[op],
                   prior |-> IF op = "stop" THEN row[w] ELSE "missing"]]
  BY DEF Begin
<1>2. /\ FirstPc[op] \in {"lock", "write", "shutdown"}
      /\ op \in {"start", "delete", "move"} => FirstPc[op] = "lock"
  BY LifecycleAssumption DEF FirstPc, AllOps
<1>3. /\ req'[r].op = op /\ req'[r].pc = FirstPc[op]
      /\ \A s \in Requests \ {r} : req'[s] = req[s]
  BY <1>1, <1>own
<1>4. UNCHANGED <<vmm, procs, net, guard, row, move, crashes>>
  BY DEF Begin, drvVars
<1>5. ~Locking(r)' /\ ~Guarding(r)' /\ Staged(r)'
  BY <1>2, <1>3 DEF Locking, Guarding, Staged, Starting
<1>6. Locked' /\ Guarded'
  BY <1>3, <1>4, <1>5, <1>own DEF SafeInv, Locked, Guarded, Locking, Guarding
<1>7. \A s \in Requests : Staged(s)'
  BY <1>3, <1>4, <1>5, <1>own DEF Safe, Staged, Starting
<1> QED
  BY <1>4, <1>6, <1>7, <1>own DEF Safe, NoOrphanVm, GuestHasNet

\* The watcher deletes no row and touches no VMM.
LEMMA SafeScan ==
  ASSUME SafeInv, ScanStep
  PROVE  Locked' /\ Guarded' /\ Safe'
<1>own. /\ TypeInv /\ TypeOK /\ Safe /\ Locked /\ Guarded
        /\ scan \in ScanType
  BY DEF SafeInv, TypeInv, TypeOK
<1>1. UNCHANGED <<vmm, procs, net, guard, move, req, crashes>>
  BY DEF ScanStep, ScanRows, ScanProbe, ScanJudge, ScanWrite, ScanSleep,
         drvVars, apiVars
<1>2. \A w \in Workspaces : row'[w] = "missing" <=> row[w] = "missing"
  <2>1. CASE ScanWrite
    <3>1. scan.ws \in Workspaces /\ scan.seam # "missing"
      BY <2>1, <1>own DEF ScanWrite, TypeInv, ScanNames, ScanType, Statuses
    <3> QED
      BY <2>1, <3>1, <1>own, SetStatusKeeps DEF ScanWrite
  <2> QED
    BY <2>1 DEF ScanStep, ScanRows, ScanProbe, ScanJudge, ScanSleep, apiVars
<1>3. Locked' /\ Guarded'
  BY <1>1, <1>own DEF Locked, Guarded, Locking, Guarding
<1>4. \A s \in Requests : Staged(s)'
  BY <1>1, <1>2, <1>own DEF Safe, Staged, Starting, TypeInv, Fits
<1> QED
  BY <1>1, <1>2, <1>3, <1>4, <1>own DEF Safe, NoOrphanVm, GuestHasNet

LEMMA SafeWorld ==
  ASSUME SafeInv, (\E w \in Workspaces : Serve(w) \/ Happens(w)) \/ Crash
  PROVE  Locked' /\ Guarded' /\ Safe'
<1>own. /\ TypeInv /\ Safe /\ Locked /\ Guarded /\ crashes \in Nat
        /\ vmm \in [Workspaces -> Vmms]
        /\ \A s \in Requests : Staged(s) /\ Fits(s)
  BY LifecycleAssumption DEF SafeInv, TypeInv, TypeOK, Safe
<1>1. ASSUME NEW w \in Workspaces, Serve(w) \/ Happens(w)
      PROVE  Locked' /\ Guarded' /\ Safe'
  <2>1. /\ UNCHANGED <<procs, net, guard, row, move, req, crashes>>
        /\ \/ vmm[w] = "spawned" /\ vmm' = [vmm EXCEPT ![w] = "serving"]
           \/ vmm[w] = "guest" /\ vmm' = [vmm EXCEPT ![w] = "hung"]
           \/ vmm[w] \in Alive /\ vmm' = [vmm EXCEPT ![w] = "off"]
    BY <1>1 DEF Serve, Happens, apiVars
  <2>2. Locked' /\ Guarded'
    BY <2>1, <1>own DEF Locked, Guarded, Locking, Guarding
  <2>3. \A s \in Requests : Staged(s)'
    BY <2>1, <1>own DEF Staged, Starting, Fits, Alive
  <2>4. NoOrphanVm' /\ GuestHasNet'
    BY <2>1, <1>own DEF Safe, NoOrphanVm, GuestHasNet, Alive
  <2> QED
    BY <2>2, <2>3, <2>4 DEF Safe
<1>2. ASSUME Crash PROVE Locked' /\ Guarded' /\ Safe'
  <2>1. /\ \A s \in Requests : req'[s] = IdleRequest
        /\ UNCHANGED <<vmm, row>> /\ crashes' # 0
    BY <1>2, <1>own DEF Crash
  <2>2. \A s \in Requests : ~Locking(s)' /\ ~Guarding(s)' /\ Staged(s)'
    BY <2>1 DEF Locking, Guarding, Staged, Starting, IdleRequest
  <2> QED
    BY <2>1, <2>2, <1>own DEF Locked, Guarded, Safe, NoOrphanVm, GuestHasNet
<1> QED
  BY <1>1, <1>2

LEMMA SafeInit == Init => SafeInv
<1> SUFFICES ASSUME Init PROVE SafeInv
  OBVIOUS
<1>1. \A s \in Requests : ~Locking(s) /\ ~Guarding(s) /\ Staged(s)
  BY DEF Init, Locking, Guarding, Staged, Starting, IdleRequest
<1>2. NoOrphanVm /\ GuestHasNet
  BY DEF Init, NoOrphanVm, GuestHasNet
<1> QED
  BY <1>1, <1>2, InitTypes DEF SafeInv, Locked, Guarded, Safe

LEMMA SafeStep == SafeInv /\ [Next]_vars => SafeInv'
<1> SUFFICES ASSUME SafeInv, [Next]_vars PROVE SafeInv'
  OBVIOUS
<1>1. TypeInv'
  BY TypeStep DEF SafeInv
<1>2. ASSUME NEW r \in Requests, RequestStep(r) PROVE Locked' /\ Guarded' /\ Safe'
  BY <1>2, LockStep, SafeRequest DEF SafeInv
<1>3. ASSUME UNCHANGED vars PROVE Locked' /\ Guarded' /\ Safe'
  <2>1. UNCHANGED <<row, vmm, net, guard, move, req, crashes>>
    BY <1>3 DEF vars, drvVars, apiVars
  <2>2. Locked' /\ Guarded'
    BY <2>1 DEF SafeInv, Locked, Guarded, Locking, Guarding
  <2>3. \A s \in Requests : Staged(s)'
    BY <2>1 DEF SafeInv, Safe, Staged, Starting
  <2> QED
    BY <2>1, <2>2, <2>3 DEF SafeInv, Safe, NoOrphanVm, GuestHasNet
<1>4. ASSUME NEW r \in Requests, Begin(r) PROVE Locked' /\ Guarded' /\ Safe'
  BY <1>4, SafeBegin
<1>5. ASSUME ScanStep PROVE Locked' /\ Guarded' /\ Safe'
  BY <1>5, SafeScan
<1>6. ASSUME (\E w \in Workspaces : Serve(w) \/ Happens(w)) \/ Crash
      PROVE  Locked' /\ Guarded' /\ Safe'
  BY <1>6, SafeWorld
<1>7. Locked' /\ Guarded' /\ Safe'
  BY <1>2, <1>3, <1>4, <1>5, <1>6 DEF Next
<1> QED
  BY <1>1, <1>7 DEF SafeInv

\* The invariant that carries the theorems below.
THEOREM Invariance == Spec => []SafeInv
BY SafeInit, SafeStep, PTL DEF Spec

\* No move touches a volume that a guest has attached: the move's lock keeps
\* every start away from its last look at the VMM to its end.
THEOREM MovesAreSafe == Spec => []VolumeSafe
<1>1. SafeInv => VolumeSafe
  BY DEF SafeInv, Safe, Staged, VolumeSafe, At
<1> QED
  BY <1>1, Invariance, PTL

\* No VM outlives its row: start reads the row again under the lock that the
\* delete held.
THEOREM NoOrphans == Spec => []NoOrphanVm
<1>1. SafeInv => NoOrphanVm
  BY DEF SafeInv, Safe
<1> QED
  BY <1>1, Invariance, PTL

\* A guest keeps the network its start attached: whoever detaches it holds the
\* driver's guard, or finds it free, over a VMM that runs no guest.
THEOREM GuestsKeepNet == Spec => []GuestHasNet
<1>1. SafeInv => GuestHasNet
  BY DEF SafeInv, Safe
<1> QED
  BY <1>1, Invariance, PTL

\* A VMM is spawned only where none lives: under the guard nothing comes to
\* life between the launch's check and its spawn.
THEOREM OneVmmEach == Spec => OneVmm
<1> DEFINE Other == \A w \in Workspaces :
                      vmm[w] \in Alive \ {"spawned"} => vmm'[w] # "spawned"
<1>1. SafeInv /\ [Next]_vars => [Other]_vars
  <2> SUFFICES ASSUME SafeInv, [Next]_vars PROVE Other \/ UNCHANGED vars
    OBVIOUS
  <2>own. /\ TypeInv /\ vmm \in [Workspaces -> Vmms]
          /\ \A r \in Requests : Staged(r)
    BY DEF SafeInv, TypeInv, TypeOK, Safe
  <2>1. ASSUME NEW r \in Requests, RequestStep(r) PROVE Other
    <3>1. VmmEffect(r) /\ (At(r, "spawn") => vmm[req[r].ws] \notin Alive)
      BY <2>1, <2>own, VmmEffects DEF Staged, At
    <3> QED
      BY <3>1, <2>own DEF VmmEffect
  <2>2. ASSUME NEW r \in Requests, Begin(r) PROVE Other
    BY <2>2 DEF Begin, drvVars
  <2>3. CASE ScanStep
    BY <2>3 DEF ScanStep, ScanRows, ScanProbe, ScanJudge, ScanWrite, ScanSleep,
                drvVars
  <2>4. ASSUME NEW w \in Workspaces, Serve(w) \/ Happens(w) PROVE Other
    BY <2>4, <2>own DEF Serve, Happens
  <2>5. CASE Crash
    BY <2>5 DEF Crash
  <2> QED
    BY <2>1, <2>2, <2>3, <2>4, <2>5 DEF Next
<1>2. Spec => [][Other]_vars
  BY <1>1, Invariance, PTL DEF Spec
<1> QED
  BY <1>2 DEF OneVmm
-------------------------------------------------------------------------------
(***************************************************************************)
(* Lifecycle implements Volumes: each step is one of its steps, or leaves  *)
(* the users of every volume as they were.                                 *)
(***************************************************************************)

\* What Volumes sees of a workspace.
Present(w) == row[w] # "missing"
Runs(w) == vmm[w] \in {"guest", "hung"}
Moving(w) == \E r \in Requests : At(r, "moving") /\ req[r].ws = w

\* A step of r begins a move, ends its own, or leaves every move alone.
MoveEffect(r) ==
  \/ (At(r, "moving")' <=> At(r, "moving")) /\ (At(r, "moving") => SameWs(r))
  \/ /\ At(r, "probe") /\ At(r, "moving")' /\ SameWs(r)
     /\ ~Runs(req[r].ws) /\ UNCHANGED <<row, vmm>>
  \/ At(r, "moving") /\ ~At(r, "moving")' /\ UNCHANGED <<row, vmm>>

\* A request that answers no longer moves anything.
LEMMA AnsweredMoves ==
  ASSUME TypeOK, NEW r \in Requests, Answer(r)
  PROVE  ~At(r, "moving")'
BY AnswerType DEF At, IdleRequest

\* A step keeps the operation of its request, or answers it.
LEMMA OpKept ==
  ASSUME TypeInv, NEW r \in Requests, RequestStep(r)
  PROVE  Answer(r) \/ req'[r].op = req[r].op
<1>req. req \in [Requests -> RequestType]
  BY DEF TypeInv, TypeOK
<1>1. ASSUME NEW pc, GoTo(r, pc) PROVE req'[r].op = req[r].op
  BY <1>1, <1>req DEF GoTo, RequestType
<1>2. CASE Reread(r)
  <2>1. CASE req' = [req EXCEPT ![r].pc = "write", ![r].prior = row[req[r].ws]]
    BY <2>1, <1>req DEF RequestType
  <2> QED
    BY <1>2, <2>1 DEF Reread
<1>3. CASE Create(r)
  BY <1>3 DEF Create, apiVars
<1>4. CASE TakeLock(r) \/ WriteMark(r) \/ Recheck(r) \/ Probe(r) \/ Launch(r)
  BY <1>1, <1>4 DEF TakeLock, WriteMark, Recheck, Probe, Launch
<1>5. CASE Spawn(r) \/ Boot(r) \/ LaunchFails(r) \/ Cleanup(r) \/ Drop(r)
  BY <1>1, <1>5 DEF Spawn, Boot, LaunchFails, Cleanup, Drop
<1>6. CASE ShutdownAbsent(r) \/ NetDetach(r) \/ Kill(r)
  BY <1>1, <1>6 DEF ShutdownAbsent, NetDetach, Kill, Landed
<1>7. CASE Shutdown(r) \/ Press(r) \/ PressTimeout(r) \/ Terminate(r)
  BY <1>1, <1>7 DEF Shutdown, Press, PressTimeout, Terminate
<1> QED
  BY <1>2, <1>3, <1>4, <1>5, <1>6, <1>7
     DEF RequestStep, OwnStep, GiveUp, Restore, Settle, Moved

LEMMA MoveEffects ==
  ASSUME SafeInv, NEW r \in Requests, RequestStep(r)
  PROVE  MoveEffect(r)
<1>own. TypeInv /\ TypeOK /\ Fits(r) /\ vmm \in [Workspaces -> Vmms]
  BY DEF SafeInv, TypeInv, TypeOK
<1>fits. Fits(r)'
  BY <1>own, RecordStep
<1>1. CASE req[r].op # "move"
  <2>1. ~At(r, "moving")
    BY <1>1, <1>own DEF Fits, At
  <2>2. ~At(r, "moving")'
    BY <1>1, <1>own, <1>fits, OpKept, AnsweredMoves DEF Fits, At
  <2> QED
    BY <2>1, <2>2 DEF MoveEffect
<1>2. CASE req[r].op = "move"
  <2>pc. req[r].pc \in {"idle", "lock", "recheck", "probe", "moving"}
    BY <1>2, <1>own DEF Fits, TypeOK, RequestType, RequestPcs
  <2>0. CASE ~At(r, "moving") /\ Answer(r)
    BY <2>0, <1>own, AnsweredMoves DEF MoveEffect
  <2>1. CASE TakeLock(r)
    <3>1. GoTo(r, "recheck") /\ ~At(r, "moving")
      BY <1>2, <2>1, Tables DEF TakeLock, At
    <3> QED
      BY <3>1, <1>own, GoToType DEF MoveEffect, At, RequestPcs
  <2>2. CASE Recheck(r) /\ ~Answer(r)
    <3>1. GoTo(r, "probe") /\ ~At(r, "moving")
      BY <2>2 DEF Recheck, At
    <3> QED
      BY <3>1, <1>own, GoToType DEF MoveEffect, At, RequestPcs
  <2>3. CASE Probe(r) /\ ~Answer(r)
    <3>1. /\ GoTo(r, "moving") /\ At(r, "probe") /\ UNCHANGED <<row, vmm>>
          /\ Seam(req[r].ws) \in {"absent", "stopped"} /\ req[r].ws \in Workspaces
      BY <2>3, <1>own DEF Probe, At, Fits, drvVars
    <3>2. ~Runs(req[r].ws)
      BY <3>1, <1>own DEF Seam, Seams, Runs
    <3> QED
      BY <3>1, <3>2, <1>own, GoToType DEF MoveEffect, At, RequestPcs, SameWs
  <2>4. CASE Moved(r)
    BY <2>4, <1>own, AnsweredMoves DEF Moved, MoveEffect, drvVars
  <2>5. \/ GiveUp(r) \/ TakeLock(r) \/ Recheck(r) \/ Probe(r) \/ Moved(r)
    BY <2>pc
       DEF RequestStep, OwnStep, At, Reread, WriteMark, Restore, Settle, Launch, Spawn,
           Create, Boot, LaunchFails, ShutdownAbsent, Shutdown, Press,
           PressTimeout, Terminate, NetDetach, Kill, Drop, Cleanup
  <2>6. GiveUp(r) \/ Recheck(r) \/ Probe(r) => ~At(r, "moving")
    BY DEF GiveUp, Recheck, Probe, At
  <2>7. GiveUp(r) => Answer(r)
    BY DEF GiveUp
  <2> QED
    BY <2>0, <2>1, <2>2, <2>3, <2>4, <2>5, <2>6, <2>7
<1> QED
  BY <1>1, <1>2

\* Steps that keep the rows and the moves, and boot no guest.
LEMMA QuietVolumes ==
  ASSUME NEW w \in Workspaces,
         \A v \in Workspaces : /\ Present(v)' <=> Present(v)
                               /\ Moving(v)' <=> Moving(v)
                               /\ Runs(v)' => Runs(v)
                               /\ v # w => (Runs(v) => Runs(v)')
  PROVE  Leases!Halt(w) \/ UNCHANGED Leases!vars
<1>1. CASE Runs(w)'
  BY <1>1 DEF Leases!vars, Present, Moving, Runs
<1>2. CASE ~Runs(w)'
  BY <1>2 DEF Leases!Halt, Present, Moving, Runs
<1> QED
  BY <1>1, <1>2

\* Requests that move volumes of one workspace are one request.
LEMMA OneMover ==
  ASSUME SafeInv, NEW r \in Requests, NEW s \in Requests, At(s, "moving"),
         Locking(r), req[s].ws = req[r].ws
  PROVE  s = r
<1>1. Locking(s)
  BY DEF SafeInv, TypeInv, Fits, Locking, At
<1> QED
  BY <1>1 DEF SafeInv, Locked

LEMMA RequestVolumes ==
  ASSUME SafeInv, NEW r \in Requests, RequestStep(r)
  PROVE  [Leases!Next]_Leases!vars
<1>own. /\ TypeInv /\ TypeOK /\ Fits(r) /\ Staged(r)
        /\ vmm \in [Workspaces -> Vmms]
        /\ row \in [Workspaces -> Statuses \cup {"missing"}]
  BY DEF SafeInv, TypeInv, TypeOK, Safe
<1>ws. PICK w \in Workspaces : w = req[r].ws
  BY <1>own
     DEF Fits, RequestStep, OwnStep, TakeLock, GiveUp, Reread, WriteMark, Restore, Settle,
         Recheck, Probe, Moved, Launch, Spawn, Create, Boot, LaunchFails,
         ShutdownAbsent, Shutdown, Press, PressTimeout, Terminate, NetDetach,
         Kill, Drop, Cleanup, At
<1>eff. RowEffect(r) /\ VmmEffect(r) /\ MoveEffect(r)
  BY <1>own, RowEffects, VmmEffects, MoveEffects
<1>others. \A s \in Requests \ {r} : req'[s] = req[s]
  BY <1>own, Effects
<1>locking. At(r, "boot") \/ At(r, "cleaned") \/ At(r, "moving") \/ At(r, "probe")
              => Locking(r)
  BY <1>own DEF At, Fits, Locking
<1>1. CASE At(r, "probe") /\ At(r, "moving")'
  <2>1. /\ UNCHANGED <<row, vmm>> /\ SameWs(r) /\ ~Runs(w)
        /\ Locking(r) /\ Present(w) /\ ~At(r, "moving")
    BY <1>1, <1>eff, <1>locking, <1>own, <1>ws DEF MoveEffect, At, Staged, Present
  <2>2. ~Moving(w)
    BY <2>1, <1>ws, OneMover DEF Moving
  <2>3. \A v \in Workspaces : Moving(v)' <=> Moving(v) \/ v = w
    BY <1>1, <2>1, <1>others, <1>ws DEF Moving, SameWs, At
  <2>4. Leases!Move(w)
    BY <2>1, <2>2, <2>3, <1>ws DEF Leases!Move, Present, Runs, Moving
  <2> QED
    BY <2>4, <1>ws DEF Leases!Next
<1>2. CASE At(r, "moving") /\ ~At(r, "moving")'
  <2>1. UNCHANGED <<row, vmm>> /\ Locking(r)
    BY <1>2, <1>eff, <1>locking DEF MoveEffect, At
  <2>2. \A v \in Workspaces : Moving(v)' <=> Moving(v) /\ v # w
    BY <1>2, <2>1, <1>others, <1>ws, OneMover DEF Moving, At
  <2>3. Leases!Done(w)
    BY <2>1, <2>2 DEF Leases!Done, Moving
  <2> QED
    BY <2>3, <1>ws DEF Leases!Next
<1>3. CASE (At(r, "moving")' <=> At(r, "moving")) /\ (At(r, "moving") => SameWs(r))
  <2>moves. \A v \in Workspaces : Moving(v)' <=> Moving(v)
    BY <1>3, <1>others DEF Moving, SameWs, At
  <2>1. CASE ~Present(w)' /\ Present(w)
    <3>1. At(r, "cleaned") /\ row' = [row EXCEPT ![w] = "missing"]
      BY <2>1, <1>eff, <1>ws DEF RowEffect, Present
    <3>2. Locking(r) /\ vmm[w] \notin Alive
      BY <3>1, <1>locking, <1>own, <1>ws DEF Staged, At
    <3>3. ~Moving(w)
      BY <3>1, <3>2, <1>ws, OneMover DEF Moving, At
    <3>4. \A v \in Workspaces : /\ Present(v)' <=> Present(v) /\ v # w
                                /\ Runs(v)' <=> Runs(v)
      BY <3>1, <3>2, <1>eff, <1>own, <1>ws
         DEF VmmEffect, At, Runs, Present, Alive
    <3>5. ~Runs(w)
      BY <3>2 DEF Runs, Alive
    <3>6. Leases!Delete(w)
      BY <3>3, <3>4, <3>5, <2>moves, <1>ws DEF Leases!Delete, Present, Runs, Moving
    <3> QED
      BY <3>6, <1>ws DEF Leases!Next
  <2>2. CASE Present(w) => Present(w)'
    <3>rows. \A v \in Workspaces : Present(v)' <=> Present(v)
      BY <2>2, <1>eff, <1>own, <1>ws DEF RowEffect, Present
    <3>1. CASE Runs(w)' /\ ~Runs(w)
      <4>1. At(r, "boot") /\ \A v \in Workspaces : Runs(v)' <=> Runs(v) \/ v = w
        BY <3>1, <1>eff, <1>own, <1>ws DEF VmmEffect, Runs
      <4>2. Locking(r) /\ Present(w)
        BY <4>1, <1>locking, <1>own, <1>ws DEF At, Staged, Starting, Fits, Present
      <4>3. ~Moving(w)
        BY <4>1, <4>2, <1>ws, OneMover DEF At, Moving
      <4>4. Leases!Boot(w)
        BY <4>1, <4>2, <4>3, <3>rows, <2>moves, <1>ws
           DEF Leases!Boot, Present, Runs, Moving
      <4> QED
        BY <4>4, <1>ws DEF Leases!Next
    <3>2. CASE Runs(w)' => Runs(w)
      <4>1. \A v \in Workspaces : v # w => (Runs(v)' <=> Runs(v))
        BY <1>eff, <1>own, <1>ws DEF VmmEffect, Runs
      <4>2. Leases!Halt(w) \/ UNCHANGED Leases!vars
        BY <3>2, <3>rows, <2>moves, <4>1, <1>ws, QuietVolumes
      <4> QED
        BY <4>2, <1>ws DEF Leases!Next
    <3> QED
      BY <3>1, <3>2
  <2> QED
    BY <2>1, <2>2
<1> QED
  BY <1>1, <1>2, <1>3, <1>eff DEF MoveEffect

\* A request that begins, the watcher, a VMM of itself and a restart.
LEMMA OtherVolumes ==
  ASSUME SafeInv,
         \/ \E r \in Requests : Begin(r)
         \/ ScanStep
         \/ \E w \in Workspaces : Serve(w) \/ Happens(w)
         \/ Crash
         \/ UNCHANGED vars
  PROVE  [Leases!Next]_Leases!vars
<1>own. /\ TypeInv /\ TypeOK /\ vmm \in [Workspaces -> Vmms]
        /\ req \in [Requests -> RequestType] /\ scan \in ScanType
  BY DEF SafeInv, TypeInv, TypeOK
<1>1. ASSUME NEW r \in Requests, Begin(r) PROVE UNCHANGED Leases!vars
  <2>1. PICK op \in Ops, w \in Workspaces :
          req' = [req EXCEPT ![r] =
                    [op |-> op, ws |-> w, pc |-> FirstPc[op],
                     prior |-> IF op = "stop" THEN row[w] ELSE "missing"]]
    BY <1>1 DEF Begin
  <2>2. FirstPc[op] # "moving"
    BY LifecycleAssumption DEF FirstPc, AllOps
  <2>3. /\ ~At(r, "moving") /\ ~At(r, "moving")' /\ UNCHANGED <<row, vmm>>
        /\ \A s \in Requests \ {r} : req'[s] = req[s]
    BY <1>1, <2>1, <2>2, <1>own DEF Begin, At, drvVars
  <2>4. \A v \in Workspaces : Moving(v)' <=> Moving(v)
    BY <2>3 DEF Moving, At
  <2> QED
    BY <2>3, <2>4 DEF Leases!vars, Moving
<1>2. ASSUME ScanStep PROVE UNCHANGED Leases!vars
  <2>1. UNCHANGED <<vmm, req>>
    BY <1>2 DEF ScanStep, ScanRows, ScanProbe, ScanJudge, ScanWrite, ScanSleep,
                drvVars, apiVars
  <2>2. \A w \in Workspaces : row'[w] = "missing" <=> row[w] = "missing"
    <3>1. CASE ScanWrite
      <4>1. scan.ws \in Workspaces /\ scan.seam # "missing"
        BY <3>1, <1>own DEF ScanWrite, TypeInv, ScanNames, ScanType, Statuses
      <4> QED
        BY <3>1, <4>1, <1>own, SetStatusKeeps DEF ScanWrite
    <3> QED
      BY <1>2, <3>1 DEF ScanStep, ScanRows, ScanProbe, ScanJudge, ScanSleep, apiVars
  <2> QED
    BY <2>1, <2>2 DEF Leases!vars, At
<1>3. ASSUME NEW w \in Workspaces, Serve(w) \/ Happens(w)
      PROVE  [Leases!Next]_Leases!vars
  <2>1. /\ UNCHANGED <<row, req>>
        /\ \/ vmm[w] = "spawned" /\ vmm' = [vmm EXCEPT ![w] = "serving"]
           \/ vmm[w] = "guest" /\ vmm' = [vmm EXCEPT ![w] = "hung"]
           \/ vmm[w] \in Alive /\ vmm' = [vmm EXCEPT ![w] = "off"]
    BY <1>3 DEF Serve, Happens, apiVars
  <2>2. \A v \in Workspaces : /\ Present(v)' <=> Present(v)
                              /\ Moving(v)' <=> Moving(v)
                              /\ Runs(v)' => Runs(v)
                              /\ v # w => (Runs(v) => Runs(v)')
    BY <2>1, <1>own DEF Present, Moving, Runs, At
  <2> QED
    BY <2>2, QuietVolumes DEF Leases!Next
<1>4. ASSUME Crash PROVE Leases!Restart
  <2>1. UNCHANGED <<row, vmm>> /\ \A s \in Requests : ~At(s, "moving")'
    BY <1>4 DEF Crash, At, IdleRequest
  <2> QED
    BY <2>1 DEF Leases!Restart
<1>5. ASSUME UNCHANGED vars PROVE UNCHANGED Leases!vars
  BY <1>5 DEF vars, drvVars, apiVars, Leases!vars, At
<1> QED
  BY <1>1, <1>2, <1>3, <1>4, <1>5 DEF Leases!Next

LEMMA VolumesInit == Init => Leases!Init
<1> SUFFICES ASSUME Init PROVE Leases!Init
  OBVIOUS
<1>1. \A r \in Requests : ~At(r, "moving")
  BY DEF Init, At, IdleRequest
<1> QED
  BY <1>1 DEF Init, Leases!Init

\* A workspace's volumes have one user at a time: a guest, the exchange of one
\* of them or the delete, for any requests, VMMs that die or hang, and daemon
\* restarts that leave guests running.
THEOREM LeasesItsVolumes == Spec => LeasesVolumes
<1>1. SafeInv /\ [Next]_vars => [Leases!Next]_Leases!vars
  BY RequestVolumes, OtherVolumes DEF Next
<1> QED
  BY <1>1, Invariance, VolumesInit, PTL DEF Spec, LeasesVolumes, Leases!Spec
==============================================================================
