------------------------------- MODULE SecretsProofs -------------------------------
(***************************************************************************)
(* The safety of Secrets, for any names, ids, requests and bounds.         *)
(*                                                                         *)
(* The store's lock is the argument: whoever holds it may owe a repair,    *)
(* and only its holder.  So plaintext, a marker or a row without its       *)
(* ciphertext is always accounted for: by its row, by a mishap that is     *)
(* named, or by the holder's next step.                                    *)
(***************************************************************************)
EXTENDS Secrets, TLAPS

\* The steps a request takes under the lock.
UnderLock == {"insert", "encrypt", "retire", "delete", "forget", "validate", "reencrypt"}

\* Where a request of each kind may stand, and what it holds there.
Fits(c) ==
  LET q == call[c] IN
  /\ q.op = "none" => q.pc = "idle"
  /\ q.op = "mint" => q.pc \in {"lock", "insert", "encrypt", "arm", "delete", "forget"}
  /\ q.op = "revoke" => q.pc \in {"lock", "delete", "forget"}
  /\ q.op = "unlock" => q.pc \in {"lock", "validate", "reencrypt"}
  /\ q.op = "sweep" => q.pc \in {"lock", "retire", "delete", "forget"}
  /\ q.op = "pending" => q.pc \in {"mark", "view"}
  /\ q.op = "renew" => q.pc \in {"extend", "rearm"}
  /\ q.op = "mint" /\ q.pc \in {"lock", "insert"} => q.row.name \in Names
  /\ q.op = "mint" /\ (q.pc \in {"encrypt", "arm", "delete", "forget"} \/ q.id # 0) =>
       q.id \in Ids /\ q.row.name \in Names /\ q.row.mint \in 1..minted
  /\ q.op = "revoke" => q.id \in Ids /\ q.row.name \in Names /\ q.row.mint \in 1..minted
  /\ q.op = "sweep" /\ q.pc \in {"delete", "forget"} =>
       q.id \in Ids /\ q.row.name \in Names /\ q.row.mint \in 1..minted
  /\ q.op = "unlock" => q.id \in Ids /\ q.row.mint \in Values
  /\ q.op # "unlock" => q.row.mint \in 0..minted
  /\ \A e \in q.ids : e[2].name \in Names /\ e[2].mint \in 1..minted

\* The lock's holder is exactly the request that stands under it.
Locked(c) == lock = c <=> call[c].pc \in UnderLock

\* The row a mint or an unlock writes to is there.
Staged(c) ==
  LET q == call[c] IN
  /\ q.pc = "encrypt" => row[q.id].name = q.row.name /\ row[q.id].mint = q.row.mint
  /\ q.pc = "reencrypt" => q.id \in LiveIds

\* A row has a name and a mint, and a mint tells whose row it is, to every
\* request that read one.
RowsNamed ==
  \A i \in LiveIds :
    /\ row[i].name \in Names /\ row[i].mint \in 1..minted
    /\ \A j \in LiveIds : row[i].mint = row[j].mint => row[i].name = row[j].name
MintsTell(c) ==
  \A i \in LiveIds :
    /\ call[c].op # "unlock" /\ row[i].mint = call[c].row.mint => row[i].name = call[c].row.name
    /\ \A e \in call[c].ids : row[i].mint = e[2].mint => row[i].name = e[2].name

\* What the lock's holder owes: the plaintext and the marker of the row it has
\* deleted, the ciphertext of the row it has inserted.
Owes(pc) == lock # Nobody /\ call[lock].pc = pc
PlainOwned ==
  \A n \in Names : cache[n] # Cold =>
    Holds(n) # {} \/ n \in misfired \/ (Owes("forget") /\ call[lock].row.name = n)
MarkOwned ==
  \A i \in Ids : served[i] # "none" =>
    i \in LiveIds \/ i \in haunted \/ (Owes("forget") /\ call[lock].id = i)
BlobOwned ==
  \A i \in Ids :
    /\ i \in LiveIds /\ blob[i] = 0 =>
         \/ (Owes("encrypt") \/ Owes("delete")) /\ call[lock].id = i
         \/ i \in bare
    /\ blob[i] # 0 => i \in LiveIds

IInv ==
  /\ TypeOK /\ RowsNamed
  /\ \A c \in Calls : Fits(c) /\ Locked(c) /\ Staged(c) /\ MintsTell(c)
  /\ PlainOwned /\ MarkOwned /\ BlobOwned

-------------------------------------------------------------------------------
\* The types of a request's record, however it moves on.
LEMMA CallSteps ==
  ASSUME call \in [Calls -> CallType], NEW c \in Calls
  PROVE  /\ \A pc : pc \in PcNames =>
              /\ GoTo(c, pc) => call' \in [Calls -> CallType]
              /\ \A i \in 0..MaxId, r \in RowType : Aim(c, pc, i, r) => call' \in [Calls -> CallType]
         /\ End(c) => call' \in [Calls -> CallType]
<1>1. call[c] \in CallType
  OBVIOUS
<1>2. ASSUME NEW pc \in PcNames
      PROVE  /\ [call[c] EXCEPT !.pc = pc] \in CallType
             /\ \A i \in 0..MaxId, r \in RowType :
                  [call[c] EXCEPT !.pc = pc, !.id = i, !.row = r] \in CallType
  BY <1>1 DEF CallType
<1>3. ASSUME End(c) PROVE call' \in [Calls -> CallType]
  <2>1. NoRow \in RowType /\ 0 \in 0..MaxId
    BY SecretsAssumption DEF NoRow, RowOf, RowType
  <2>2. IdleCall \in CallType
    BY <2>1 DEF IdleCall, CallOf, CallType, PcNames
  <2>. QED  BY <1>3, <2>2 DEF End
<1>4. ASSUME NEW pc \in PcNames PROVE GoTo(c, pc) => call' \in [Calls -> CallType]
  BY <1>2, <1>4 DEF GoTo
<1>5. ASSUME NEW pc \in PcNames, NEW i \in 0..MaxId, NEW r \in RowType
      PROVE  Aim(c, pc, i, r) => call' \in [Calls -> CallType]
  <2>1. [call[c] EXCEPT !.pc = pc, !.id = i, !.row = r] \in CallType
    BY <1>2, <1>5
  <2>2. ASSUME Aim(c, pc, i, r) PROVE call' = [call EXCEPT ![c] = [call[c] EXCEPT !.pc = pc, !.id = i, !.row = r]]
    BY <2>2 DEF Aim
  <2>. QED  BY <2>1, <2>2
<1>. QED  BY <1>3, <1>4, <1>5

\* What of the types a request's record brings in.
LEMMA CallFields ==
  ASSUME TypeOK, NEW c \in Calls
  PROVE  /\ call[c] \in CallType /\ call[c].id \in 0..MaxId /\ call[c].row \in RowType
         /\ call[c].row.mint \in 0..MaxMints /\ call[c].ids \subseteq Ids \X RowType
BY DEF TypeOK, CallType, RowType

\* Every step leaves records of requests.
LEMMA StepCalls ==
  ASSUME TypeOK, NEW c \in Calls, Fits(c), Step(c)
  PROVE  call' \in [Calls -> CallType]
<1>0. /\ \A pc \in PcNames : GoTo(c, pc) => call' \in [Calls -> CallType]
      /\ \A pc \in PcNames, i \in 0..MaxId, r \in RowType :
           Aim(c, pc, i, r) => call' \in [Calls -> CallType]
      /\ End(c) => call' \in [Calls -> CallType]
      /\ call \in [Calls -> CallType]
  BY CallSteps DEF TypeOK
<1>a. call[c].row \in RowType /\ minted \in 0..MaxMints /\ MaxMints \in Nat
  BY CallFields, SecretsAssumption DEF TypeOK
<1>1. CASE TakeLock(c)
  BY <1>1, <1>0, <1>a DEF TakeLock, PcNames, At
<1>2. CASE MintRefused(c)
  BY <1>2, <1>0, <1>a DEF MintRefused, PcNames, At
<1>3. CASE MintInsert(c)
  <2>1. RowOf(call[c].row.name, minted + 1) \in RowType
    BY <1>3, <1>a DEF MintInsert, RowOf, RowType
  <2>2. \A i \in Ids : i \in 0..MaxId
    BY SecretsAssumption DEF Ids
  <2>. QED  BY <1>3, <1>0, <2>1, <2>2 DEF MintInsert, PcNames
<1>4. CASE MintEncrypt(c)
  BY <1>4, <1>0, <1>a DEF MintEncrypt, PcNames, At
<1>5. CASE MintArm(c)
  BY <1>5, <1>0, <1>a DEF MintArm, PcNames, At
<1>6. CASE SweepNext(c)
  <2>1. ASSUME NEW e \in call[c].ids, Pick(c, e)
        PROVE  call' \in [Calls -> CallType]
    <3>1. e \in Ids \X RowType /\ call[c] \in CallType /\ call[c].ids \subseteq Ids \X RowType
      BY CallFields
    <3>2. e[1] \in 0..MaxId /\ e[2] \in RowType /\ call[c].ids \ {e} \in SUBSET (Ids \X RowType)
      BY <3>1, SecretsAssumption DEF Ids
    <3>3. [call[c] EXCEPT !.pc = "delete", !.id = e[1], !.row = e[2], !.ids = call[c].ids \ {e}]
            \in CallType
      BY <3>1, <3>2 DEF CallType, PcNames
    <3>. QED  BY <2>1, <3>3, <1>0 DEF Pick
  <2>. QED  BY <1>6, <2>1, <1>0 DEF SweepNext
<1>7. CASE Delete(c)
  BY <1>7, <1>0, <1>a DEF Delete, PcNames, At
<1>8. CASE Forget(c)
  BY <1>8, <1>0, <1>a DEF Forget, PcNames, At
<1>9. CASE PendingMark(c)
  BY <1>9, <1>0, <1>a DEF PendingMark, PcNames, At
<1>10. CASE PendingView(c)
  BY <1>10, <1>0, <1>a DEF PendingView, PcNames, At
<1>11. CASE UnlockRefused(c)
  BY <1>11, <1>0, <1>a DEF UnlockRefused, PcNames, At
<1>12. CASE UnlockStore(c)
  BY <1>12, <1>0, <1>a DEF UnlockStore, PcNames, At
<1>13. CASE UnlockReencrypt(c)
  BY <1>13, <1>0, <1>a DEF UnlockReencrypt, PcNames, At
<1>14. CASE RenewExtend(c)
  BY <1>14, <1>0, <1>a DEF RenewExtend, SetExpired, PcNames, At
<1>15. CASE RenewArm(c)
  BY <1>15, <1>0, <1>a DEF RenewArm, SetExpired, PcNames, At
<1>. QED
  BY <1>1, <1>2, <1>3, <1>4, <1>5, <1>6, <1>7, <1>8, <1>9, <1>10, <1>11, <1>12, <1>13,
     <1>14, <1>15 DEF Step

\* Every step of a request keeps the types.
LEMMA StepTypes ==
  ASSUME TypeOK, NEW c \in Calls, Fits(c), Staged(c), RowsNamed, Step(c)
  PROVE  TypeOK'
<1>0. /\ call' \in [Calls -> CallType] /\ TypeOK
      /\ call[c] \in CallType /\ call[c].id \in 0..MaxId /\ call[c].row \in RowType
      /\ call[c].row.mint \in 0..MaxMints /\ call[c].ids \subseteq Ids \X RowType
      /\ call[c].row.name \in Names \cup {NoName} /\ call[c].prior \in BOOLEAN
  BY StepCalls, CallFields DEF CallType, RowType
<1>a. /\ call[c].pc \in {"encrypt", "forget"} => call[c].row.name \in Names
      /\ call[c].pc \in {"reencrypt", "validate"} => call[c].row.mint \in 1..MaxMints
      /\ MaxMints \in Nat /\ MaxId \in Nat /\ MaxOperators \in Nat /\ MaxEvents \in Nat
  BY <1>0, SecretsAssumption DEF Fits, CallType, Values
<1>b. /\ \A n \in Names, v \in 0..MaxMints : Store(n, v) => cache' \in [Names -> [value : 0..MaxMints, kind : Kinds]]
      /\ \A n : [cache EXCEPT ![n] = Cold] \in [Names -> [value : 0..MaxMints, kind : Kinds]]
      /\ Event => events' \in 0..MaxEvents
  <2>1. [value |-> 0, kind |-> "none"] \in [value : 0..MaxMints, kind : Kinds]
    BY <1>a DEF Kinds
  <2>2. \A v \in 0..MaxMints : [value |-> v, kind |-> window] \in [value : 0..MaxMints, kind : Kinds]
    BY <1>0 DEF Kinds, TypeOK
  <2>3. ASSUME NEW n \in Names, NEW v \in 0..MaxMints, Store(n, v)
        PROVE  cache' \in [Names -> [value : 0..MaxMints, kind : Kinds]]
    BY <2>2, <2>3, <1>0 DEF TypeOK, Store
  <2>4. \A n : [cache EXCEPT ![n] = Cold] \in [Names -> [value : 0..MaxMints, kind : Kinds]]
    BY <2>1, <1>0 DEF TypeOK, Cold
  <2>5. Event => events' \in 0..MaxEvents
    BY <1>0, <1>a DEF TypeOK, Event
  <2>. QED  BY <2>3, <2>4, <2>5
<1>c. /\ \A i, e : e \in BOOLEAN => (SetExpired(i, e) => row' \in [Ids -> RowType])
      /\ \A n \in Names \cup {NoName}, m \in 0..MaxMints : RowOf(n, m) \in RowType
      /\ \A i \in LiveIds : row[i].name \in Names
  <2>1. ASSUME NEW r \in RowType, NEW e \in BOOLEAN PROVE [r EXCEPT !.expired = e] \in RowType
    BY DEF RowType
  <2>2. ASSUME NEW i, NEW e \in BOOLEAN, SetExpired(i, e) PROVE row' \in [Ids -> RowType]
    <3>1. CASE i \in LiveIds
      BY <2>1, <2>2, <3>1, <1>0 DEF SetExpired, TypeOK, LiveIds
    <3>2. CASE i \notin LiveIds
      BY <2>2, <3>2, <1>0 DEF SetExpired, TypeOK
    <3>. QED  BY <3>1, <3>2
  <2>3. \A n \in Names \cup {NoName}, m \in 0..MaxMints : RowOf(n, m) \in RowType
    BY DEF RowOf, RowType
  <2>. QED  BY <2>2, <2>3 DEF RowsNamed
<1>1. CASE TakeLock(c)
  BY <1>1, <1>0, <1>a, <1>b, <1>c DEF TakeLock, TypeOK, Ids, Values, Kinds, NoRow,
     LiveIds, At, rows, plain, session, ghosts
<1>2. CASE MintRefused(c)
  BY <1>2, <1>0, <1>a, <1>b, <1>c DEF MintRefused, LiveIds, TypeOK, Ids, Values, Kinds,
     NoRow, At, rows, plain, session, ghosts
<1>3. CASE MintInsert(c)
  <2>1. minted' \in 0..MaxMints /\ minted + 1 \in 0..MaxMints
    BY <1>3, <1>0, <1>a DEF MintInsert, TypeOK
  <2>2. RowOf(call[c].row.name, minted + 1) \in RowType
    BY <2>1, <1>0, <1>c
  <2>3. row' \in [Ids -> RowType]
    BY <1>3, <2>2, <1>0 DEF MintInsert, TypeOK
  <2>. QED  BY <1>3, <2>1, <2>3, <1>0 DEF MintInsert, TypeOK, plain, session
<1>4. CASE MintEncrypt(c)
  BY <1>4, <1>0, <1>a, <1>b, <1>c DEF MintEncrypt, TypeOK, Ids, Values, Kinds, NoRow,
     LiveIds, At, rows, plain, session, ghosts
<1>5. CASE MintArm(c)
  BY <1>5, <1>0, <1>a, <1>b, <1>c DEF MintArm, TypeOK, Ids, Values, Kinds, NoRow,
     LiveIds, At, rows, plain, session, ghosts
<1>6. CASE SweepNext(c)
  BY <1>6, <1>0, <1>a, <1>b, <1>c DEF SweepNext, TypeOK, Ids, Values, Kinds, NoRow,
     LiveIds, At, rows, plain, session, ghosts
<1>7. CASE Delete(c)
  <2>1. NoRow \in RowType /\ 0 \in 0..MaxMints
    BY <1>a, <1>c DEF NoRow
  <2>2. row' \in [Ids -> RowType]
    BY <1>7, <2>1, <1>0 DEF Delete, TypeOK
  <2>3. blob' \in [Ids -> 0..MaxMints]
    BY <1>7, <2>1, <1>0 DEF Delete, TypeOK
  <2>4. misfired' \subseteq Names
    BY <1>7, <1>0 DEF Delete, TypeOK
  <2>. QED  BY <1>7, <2>2, <2>3, <2>4, <1>0 DEF Delete, TypeOK, plain, session
<1>8. CASE Forget(c)
  BY <1>8, <1>0, <1>a, <1>b, <1>c DEF Forget, TypeOK, Ids, Values, Kinds, NoRow, LiveIds,
     At, rows, plain, session, ghosts
<1>9. CASE PendingMark(c)
  <2>1. \A e \in call[c].ids : e[1] \in Ids
    BY <1>0
  <2>2. served' \in [Ids -> Kinds] /\ haunted' \subseteq Ids
    BY <1>9, <2>1, <1>0 DEF PendingMark, TypeOK, Kinds
  <2>. QED  BY <1>9, <2>2, <1>0 DEF PendingMark, TypeOK, rows, session
<1>10. CASE PendingView(c)
  BY <1>10, <1>0, <1>a, <1>b, <1>c DEF PendingView, TypeOK, Ids, Values, Kinds, NoRow,
     LiveIds, At, rows, plain, session, ghosts
<1>11. CASE UnlockRefused(c)
  BY <1>11, <1>0, <1>a, <1>b, <1>c DEF UnlockRefused, LiveIds, TypeOK, Ids, Values,
     Kinds, NoRow, At, rows, plain, session, ghosts
<1>12. CASE UnlockStore(c)
  BY <1>12, <1>0, <1>a, <1>b, <1>c DEF UnlockStore, LiveIds, TypeOK, Ids, Values, Kinds,
     NoRow, At, rows, plain, session, ghosts
<1>13. CASE UnlockReencrypt(c)
  BY <1>13, <1>0, <1>a, <1>b, <1>c DEF UnlockReencrypt, TypeOK, Ids, Values, Kinds,
     NoRow, LiveIds, At, rows, plain, session, ghosts
<1>14. CASE RenewExtend(c)
  BY <1>14, <1>0, <1>a, <1>b, <1>c DEF RenewExtend, LiveIds, TypeOK, Ids, Values, Kinds,
     NoRow, At, rows, plain, session, ghosts
<1>15. CASE RenewArm(c)
  BY <1>15, <1>0, <1>a, <1>b, <1>c DEF RenewArm, LiveIds, TypeOK, Ids, Values, Kinds,
     NoRow, At, rows, plain, session, ghosts
<1>. QED
  BY <1>1, <1>2, <1>3, <1>4, <1>5, <1>6, <1>7, <1>8, <1>9, <1>10, <1>11, <1>12, <1>13,
     <1>14, <1>15 DEF Step

-------------------------------------------------------------------------------
\* The fields of a request's record after each way it moves on.
Moves(c) ==
  /\ \A pc : GoTo(c, pc) =>
       /\ call'[c].pc = pc /\ call'[c].op = call[c].op /\ call'[c].id = call[c].id
       /\ call'[c].row = call[c].row /\ call'[c].ids = call[c].ids
  /\ \A pc, i, r : Aim(c, pc, i, r) =>
       /\ call'[c].pc = pc /\ call'[c].op = call[c].op /\ call'[c].id = i
       /\ call'[c].row = r /\ call'[c].ids = call[c].ids
  /\ \A e : Pick(c, e) =>
       /\ call'[c].pc = "delete" /\ call'[c].op = call[c].op /\ call'[c].id = e[1]
       /\ call'[c].row = e[2] /\ call'[c].ids = call[c].ids \ {e}
  /\ End(c) =>
       /\ call'[c].pc = "idle" /\ call'[c].op = "none" /\ call'[c].id = 0
       /\ call'[c].row = NoRow /\ call'[c].ids = {}

\* They hold of a request whose record has its type.
LEMMA HaveMoves ==
  ASSUME call \in [Calls -> CallType], NEW c \in Calls
  PROVE  Moves(c)
<1>1. call[c] \in CallType
  OBVIOUS
<1>2. ASSUME NEW pc, GoTo(c, pc)
      PROVE  /\ call'[c].pc = pc /\ call'[c].op = call[c].op /\ call'[c].id = call[c].id
             /\ call'[c].row = call[c].row /\ call'[c].ids = call[c].ids
  BY <1>1, <1>2 DEF GoTo, CallType
<1>3. ASSUME NEW pc, NEW i, NEW r, Aim(c, pc, i, r)
      PROVE  /\ call'[c].pc = pc /\ call'[c].op = call[c].op /\ call'[c].id = i
             /\ call'[c].row = r /\ call'[c].ids = call[c].ids
  BY <1>1, <1>3 DEF Aim, CallType
<1>4. ASSUME End(c)
      PROVE  /\ call'[c].pc = "idle" /\ call'[c].op = "none" /\ call'[c].id = 0
             /\ call'[c].row = NoRow /\ call'[c].ids = {}
  BY <1>4 DEF End, IdleCall, CallOf
<1>5. ASSUME NEW e, Pick(c, e)
      PROVE  /\ call'[c].pc = "delete" /\ call'[c].op = call[c].op /\ call'[c].id = e[1]
             /\ call'[c].row = e[2] /\ call'[c].ids = call[c].ids \ {e}
  BY <1>1, <1>5 DEF Pick, CallType
<1>. QED  BY <1>2, <1>3, <1>4, <1>5 DEF Moves

\* What a step makes of the rows, the lock and the other requests: the rows keep
\* their names and mints, but for the insert and the delete.
RowsKeep ==
  \A i \in Ids : /\ row'[i].name = row[i].name /\ row'[i].mint = row[i].mint
                 /\ row'[i] = NoRow <=> row[i] = NoRow
RowStep(c) ==
  \/ RowsKeep /\ minted' = minted
  \/ /\ At(c, "insert") /\ minted' = minted + 1 /\ minted' \in 0..MaxMints
     /\ \E i \in Ids \ LiveIds :
          row' = [row EXCEPT ![i] = RowOf(call[c].row.name, minted + 1)]
  \/ At(c, "delete") /\ minted' = minted /\ row' = [row EXCEPT ![call[c].id] = NoRow]

\* Every step of a request is one of those.
LEMMA RowSteps ==
  ASSUME TypeOK, NEW c \in Calls, RowsNamed, Step(c)
  PROVE  RowStep(c)
<1>0. /\ TypeOK /\ MaxMints \in Nat /\ MaxId \in Nat /\ minted \in 0..MaxMints
      /\ \A i \in Ids : i \in Nat
      /\ \A i \in Ids : NextId(i) => i \notin LiveIds
  BY SecretsAssumption DEF TypeOK, Ids, NextId
<1>a. ASSUME NEW i, NEW e \in BOOLEAN, SetExpired(i, e) PROVE RowsKeep
  <2>1. ASSUME NEW r \in RowType
        PROVE  /\ [r EXCEPT !.expired = e].name = r.name /\ [r EXCEPT !.expired = e].mint = r.mint
               /\ r.mint # 0 => [r EXCEPT !.expired = e] # NoRow
    BY DEF RowType, NoRow, RowOf
  <2>2. CASE i \in LiveIds
    <3>1. row' = [row EXCEPT ![i] = [row[i] EXCEPT !.expired = e]] /\ i \in Ids /\ row[i] \in RowType
      BY <1>a, <2>2 DEF SetExpired, LiveIds, TypeOK
    <3>2. row[i].mint # 0
      BY <2>2, SMT DEF RowsNamed
    <3>. QED  BY <3>1, <3>2, <2>1, <2>2 DEF RowsKeep, TypeOK, LiveIds
  <2>3. CASE i \notin LiveIds
    BY <1>a, <2>3 DEF SetExpired, RowsKeep
  <2>. QED  BY <2>2, <2>3
<1>b. call[c].prior \in BOOLEAN
  BY <1>0 DEF TypeOK, CallType
<1>1. CASE TakeLock(c)
  BY <1>1, <1>0, <1>a, <1>b DEF TakeLock, RowStep, RowsKeep, At, rows
<1>2. CASE MintRefused(c)
  BY <1>2, <1>0, <1>a, <1>b DEF MintRefused, RowStep, RowsKeep, At, rows
<1>3. CASE MintInsert(c)
  <2>1. minted' = minted + 1 /\ minted < MaxMints /\ At(c, "insert")
    BY <1>3 DEF MintInsert
  <2>2. PICK i \in Ids : NextId(i) /\ row' = [row EXCEPT ![i] = RowOf(call[c].row.name, minted + 1)]
    BY <1>3 DEF MintInsert
  <2>3. minted' \in 0..MaxMints
    BY <1>0, <2>1
  <2>. QED  BY <1>0, <2>1, <2>2, <2>3 DEF RowStep
<1>4. CASE MintEncrypt(c)
  BY <1>4, <1>0, <1>a, <1>b DEF MintEncrypt, RowStep, RowsKeep, At, rows
<1>5. CASE MintArm(c)
  BY <1>5, <1>0, <1>a, <1>b DEF MintArm, RowStep, RowsKeep, At, rows
<1>6. CASE SweepNext(c)
  BY <1>6, <1>0, <1>a, <1>b DEF SweepNext, RowStep, RowsKeep, At, rows
<1>7. CASE Delete(c)
  BY <1>7, <1>0, <1>a, <1>b DEF Delete, RowStep, RowsKeep, At, rows
<1>8. CASE Forget(c)
  BY <1>8, <1>0, <1>a, <1>b DEF Forget, RowStep, RowsKeep, At, rows
<1>9. CASE PendingMark(c)
  BY <1>9, <1>0, <1>a, <1>b DEF PendingMark, RowStep, RowsKeep, At, rows
<1>10. CASE PendingView(c)
  BY <1>10, <1>0, <1>a, <1>b DEF PendingView, RowStep, RowsKeep, At, rows
<1>11. CASE UnlockRefused(c)
  BY <1>11, <1>0, <1>a, <1>b DEF UnlockRefused, RowStep, RowsKeep, At, rows
<1>12. CASE UnlockStore(c)
  BY <1>12, <1>0, <1>a, <1>b DEF UnlockStore, RowStep, RowsKeep, At, rows
<1>13. CASE UnlockReencrypt(c)
  BY <1>13, <1>0, <1>a, <1>b DEF UnlockReencrypt, RowStep, RowsKeep, At, rows
<1>14. CASE RenewExtend(c)
  BY <1>14, <1>0, <1>a, <1>b DEF RenewExtend, RowStep, RowsKeep, At, rows
<1>15. CASE RenewArm(c)
  BY <1>15, <1>0, <1>a, <1>b DEF RenewArm, RowStep, RowsKeep, At, rows
<1>. QED
  BY <1>1, <1>2, <1>3, <1>4, <1>5, <1>6, <1>7, <1>8, <1>9, <1>10, <1>11, <1>12, <1>13,
     <1>14, <1>15 DEF Step

\* Nothing moves but the request itself, and the lock only at its own hand.
LEMMA CallFrame ==
  ASSUME TypeOK, NEW c \in Calls, Fits(c), Locked(c), Step(c)
  PROVE  /\ \A d \in Calls \ {c} : call'[d] = call[d]
         /\ \/ lock' = lock /\ (call'[c].pc \in UnderLock <=> call[c].pc \in UnderLock)
            \/ lock = Nobody /\ lock' = c /\ call'[c].pc \in UnderLock
            \/ lock = c /\ lock' = Nobody /\ call'[c].pc \notin UnderLock
<1>0. Moves(c) /\ DOMAIN call = Calls
  BY HaveMoves DEF TypeOK
<1>a. /\ call[c].op = "mint" => call[c].pc # "retire" 
      /\ lock = c <=> call[c].pc \in UnderLock
  BY DEF Fits, Locked
<1>b. ASSUME NEW d \in Calls \ {c} PROVE call'[d] = call[d]
  BY <1>0 DEF Step, TakeLock, MintRefused, MintInsert, MintEncrypt, MintArm, SweepNext, Delete,
     Forget, PendingMark, PendingView, UnlockRefused, UnlockStore, UnlockReencrypt,
     RenewExtend, RenewArm, GoTo, Aim, End, Pick
<1>1. CASE TakeLock(c)
  BY <1>1, <1>0, <1>a, <1>b DEF TakeLock, Moves, UnderLock, At, session
<1>2. CASE MintRefused(c)
  BY <1>2, <1>0, <1>a, <1>b DEF MintRefused, Moves, UnderLock, At, session
<1>3. CASE MintInsert(c)
  BY <1>3, <1>0, <1>a, <1>b DEF MintInsert, Moves, UnderLock, At, session
<1>4. CASE MintEncrypt(c)
  BY <1>4, <1>0, <1>a, <1>b DEF MintEncrypt, Moves, UnderLock, At, session
<1>5. CASE MintArm(c)
  BY <1>5, <1>0, <1>a, <1>b DEF MintArm, Moves, UnderLock, At, session
<1>6. CASE SweepNext(c)
  BY <1>6, <1>0, <1>a, <1>b DEF SweepNext, Moves, UnderLock, At, session
<1>7. CASE Delete(c)
  BY <1>7, <1>0, <1>a, <1>b DEF Delete, Moves, UnderLock, At, session
<1>8. CASE Forget(c)
  BY <1>8, <1>0, <1>a, <1>b DEF Forget, Moves, UnderLock, At, session
<1>9. CASE PendingMark(c)
  BY <1>9, <1>0, <1>a, <1>b DEF PendingMark, Moves, UnderLock, At, session
<1>10. CASE PendingView(c)
  BY <1>10, <1>0, <1>a, <1>b DEF PendingView, Moves, UnderLock, At, session
<1>11. CASE UnlockRefused(c)
  BY <1>11, <1>0, <1>a, <1>b DEF UnlockRefused, Moves, UnderLock, At, session
<1>12. CASE UnlockStore(c)
  BY <1>12, <1>0, <1>a, <1>b DEF UnlockStore, Moves, UnderLock, At, session
<1>13. CASE UnlockReencrypt(c)
  BY <1>13, <1>0, <1>a, <1>b DEF UnlockReencrypt, Moves, UnderLock, At, session
<1>14. CASE RenewExtend(c)
  BY <1>14, <1>0, <1>a, <1>b DEF RenewExtend, Moves, UnderLock, At, session
<1>15. CASE RenewArm(c)
  BY <1>15, <1>0, <1>a, <1>b DEF RenewArm, Moves, UnderLock, At, session
<1>. QED
  BY <1>1, <1>2, <1>3, <1>4, <1>5, <1>6, <1>7, <1>8, <1>9, <1>10, <1>11, <1>12, <1>13,
     <1>14, <1>15 DEF Step

\* Where a request of each kind stands, read from the step.
LEMMA KindOf ==
  ASSUME TypeOK, NEW c \in Calls, Fits(c)
  PROVE  /\ call[c].pc \in {"insert", "encrypt", "arm"} => call[c].op = "mint"
         /\ call[c].pc \in {"validate", "reencrypt"} => call[c].op = "unlock"
         /\ call[c].pc = "retire" => call[c].op = "sweep"
         /\ call[c].pc \in {"delete", "forget"} => call[c].op \in {"mint", "revoke", "sweep"}
         /\ call[c].pc = "idle" => call[c].op = "none"
         /\ call[c].pc \in {"mark", "view"} => call[c].op = "pending"
         /\ call[c].pc \in {"extend", "rearm"} => call[c].op = "renew"
         /\ call[c].pc = "lock" => call[c].op \in {"mint", "revoke", "sweep", "unlock"}
BY DEF TypeOK, CallType, Fits

\* The rows keep their names, each under its own mint.
LEMMA RowsKept ==
  ASSUME TypeOK, TypeOK', NEW c \in Calls, Fits(c), RowsNamed, RowStep(c)
  PROVE  RowsNamed'
<1>0. /\ DOMAIN row = Ids /\ minted \in Nat
      /\ call[c].pc = "insert" => call[c].row.name \in Names
      /\ call[c].pc = "delete" => call[c].id \in Ids
  <2>1. minted \in Nat /\ DOMAIN row = Ids
    BY SecretsAssumption DEF TypeOK
  <2>. QED  BY <2>1, KindOf DEF Fits
<1>1. CASE RowsKeep /\ minted' = minted
  BY <1>1, <1>0 DEF RowsKeep, RowsNamed, LiveIds
<1>2. CASE /\ At(c, "insert") /\ minted' = minted + 1
           /\ \E i \in Ids \ LiveIds : row' = [row EXCEPT ![i] = RowOf(call[c].row.name, minted + 1)]
  <2>1. PICK i \in Ids \ LiveIds : row' = [row EXCEPT ![i] = RowOf(call[c].row.name, minted + 1)]
    BY <1>2
  <2>2. /\ row'[i].name = call[c].row.name /\ row'[i].mint = minted + 1
        /\ \A j \in Ids \ {i} : row'[j] = row[j]
    BY <2>1, <1>0 DEF RowOf
  <2>3. LiveIds' \subseteq LiveIds \cup {i}
    BY <2>2 DEF LiveIds
  <2>4. \A j \in LiveIds : row[j].mint \in 1..minted
    BY DEF RowsNamed
  <2>. QED  BY <2>2, <2>3, <2>4, <1>0, <1>2 DEF RowsNamed, At, LiveIds
<1>3. CASE minted' = minted /\ row' = [row EXCEPT ![call[c].id] = NoRow]
  <2>1. \A j \in Ids : row'[j] = row[j] \/ row'[j] = NoRow
    BY <1>3, <1>0
  <2>. QED  BY <2>1, <1>3 DEF RowsNamed, LiveIds
<1>. QED  BY <1>1, <1>2, <1>3 DEF RowStep

\* What the others have read, and stand on under the lock, survives the step.
LEMMA OthersKept ==
  ASSUME TypeOK, NEW c \in Calls, NEW d \in Calls \ {c}, call'[d] = call[d],
         RowsNamed, RowStep(c), Fits(c), Locked(c),
         Fits(d), Locked(d), Staged(d), MintsTell(d),
         \/ lock' = lock /\ (call'[c].pc \in UnderLock <=> call[c].pc \in UnderLock)
         \/ lock = Nobody /\ lock' = c /\ call'[c].pc \in UnderLock
         \/ lock = c /\ lock' = Nobody /\ call'[c].pc \notin UnderLock
  PROVE  Fits(d)' /\ Locked(d)' /\ Staged(d)' /\ MintsTell(d)'
<1>0. /\ DOMAIN row = Ids /\ minted \in Nat /\ Nobody \notin Calls
      /\ call[d].row.mint \in 0..MaxMints /\ MaxMints \in Nat
  BY SecretsAssumption, CallFields DEF TypeOK
<1>1. minted' = minted \/ minted' = minted + 1
  BY DEF RowStep
<1>2. Fits(d)'
  <2>1. /\ \A m : m \in 1..minted => m \in 1..minted'
        /\ \A m : m \in 0..minted => m \in 0..minted'
    BY <1>0, <1>1
  <2>. QED  BY <2>1 DEF Fits
<1>3. Locked(d)'
  BY <1>0 DEF Locked
<1>4. Staged(d)'
  <2>1. CASE call[d].pc \notin {"encrypt", "reencrypt"}
    BY <2>1 DEF Staged
  <2>2. CASE call[d].pc \in {"encrypt", "reencrypt"}
    <3>1. lock = d /\ ~At(c, "insert") /\ ~At(c, "delete")
      BY <2>2 DEF Locked, UnderLock, At
    <3>2. RowsKeep
      BY <3>1 DEF RowStep
    <3>3. call[d].id \in Ids
      BY <2>2, KindOf DEF Fits
    <3>. QED  BY <3>2, <3>3 DEF Staged, RowsKeep, LiveIds
  <2>. QED  BY <2>1, <2>2
<1>5. MintsTell(d)'
  <2>1. /\ call[d].op # "unlock" => call[d].row.mint \in 0..minted
        /\ \A e \in call[d].ids : e[2].mint \in 1..minted
    BY <1>0 DEF Fits
  <2>2. CASE RowsKeep
    BY <2>2, <1>0 DEF MintsTell, RowsKeep, LiveIds
  <2>3. ASSUME NEW i \in Ids \ LiveIds, minted' = minted + 1,
               row' = [row EXCEPT ![i] = RowOf(call[c].row.name, minted + 1)]
        PROVE  MintsTell(d)'
    <3>1. /\ row'[i].mint = minted + 1
          /\ \A j \in Ids \ {i} : row'[j] = row[j]
      BY <2>3, <1>0 DEF RowOf
    <3>2. LiveIds' \subseteq LiveIds \cup {i}
      BY <3>1 DEF LiveIds
    <3>. QED  BY <3>1, <3>2, <2>1, <1>0 DEF MintsTell, LiveIds
  <2>4. CASE row' = [row EXCEPT ![call[c].id] = NoRow]
    <3>1. \A j \in Ids : row'[j] = row[j] \/ row'[j] = NoRow
      BY <2>4, <1>0
    <3>. QED  BY <3>1 DEF MintsTell, LiveIds
  <2>. QED  BY <2>2, <2>3, <2>4 DEF RowStep
<1>. QED  BY <1>2, <1>3, <1>4, <1>5

\* A request's own step keeps it where it may stand, with what it needs there.
LEMMA SelfFits ==
  ASSUME TypeOK, NEW c \in Calls, Fits(c), RowsNamed, RowStep(c), Step(c)
  PROVE  Fits(c)'
<1>0. /\ Moves(c) /\ MaxId \in Nat /\ MaxMints \in Nat /\ minted \in Nat
      /\ minted' = minted \/ minted' = minted + 1
      /\ \A m : m \in 1..minted => m \in 1..minted'
      /\ \A m : m \in 0..minted => m \in 0..minted'
      /\ NoRow.mint = 0
  <2>1. minted' = minted \/ minted' = minted + 1
    BY DEF RowStep
  <2>. QED  BY <2>1, HaveMoves, SecretsAssumption DEF TypeOK, NoRow, RowOf
<1>a. Fits(c) /\ \A e \in call[c].ids : e[1] \in Ids
  BY CallFields
<1>1. CASE TakeLock(c)
  BY <1>1, <1>0, <1>a, KindOf DEF TakeLock, Moves, Fits, At
<1>2. CASE MintRefused(c)
  BY <1>2, <1>0, <1>a, KindOf DEF MintRefused, Moves, Fits, At
<1>3. CASE MintInsert(c)
  <2>1. /\ minted' = minted + 1 /\ call[c].op = "mint" /\ call[c].row.name \in Names
        /\ \E i \in Ids : Aim(c, "encrypt", i, RowOf(call[c].row.name, minted + 1))
    BY <1>3, KindOf, <1>a DEF MintInsert, Fits, At
  <2>2. PICK i \in Ids : Aim(c, "encrypt", i, RowOf(call[c].row.name, minted + 1))
    BY <2>1
  <2>3. /\ call'[c].row.name = call[c].row.name /\ call'[c].row.mint = minted + 1
        /\ call'[c].op = "mint" /\ call'[c].pc = "encrypt" /\ call'[c].id \in Ids
        /\ call'[c].ids = call[c].ids
    BY <2>1, <2>2, <1>0 DEF Moves, RowOf
  <2>4. minted + 1 \in 1..minted' /\ minted + 1 \in 0..minted'
    BY <2>1, <1>0
  <2>. QED  BY <2>1, <2>3, <2>4, <1>0, <1>a DEF Fits
<1>4. CASE MintEncrypt(c)
  BY <1>4, <1>0, <1>a, KindOf DEF MintEncrypt, Moves, Fits, At
<1>5. CASE MintArm(c)
  BY <1>5, <1>0, <1>a, KindOf DEF MintArm, Moves, Fits, At
<1>6. CASE SweepNext(c)
  BY <1>6, <1>0, <1>a, KindOf DEF SweepNext, Moves, Fits, At
<1>7. CASE Delete(c)
  BY <1>7, <1>0, <1>a, KindOf DEF Delete, Moves, Fits, At
<1>8. CASE Forget(c)
  BY <1>8, <1>0, <1>a, KindOf DEF Forget, Moves, Fits, At
<1>9. CASE PendingMark(c)
  BY <1>9, <1>0, <1>a, KindOf DEF PendingMark, Moves, Fits, At
<1>10. CASE PendingView(c)
  BY <1>10, <1>0, <1>a, KindOf DEF PendingView, Moves, Fits, At
<1>11. CASE UnlockRefused(c)
  BY <1>11, <1>0, <1>a, KindOf DEF UnlockRefused, Moves, Fits, At
<1>12. CASE UnlockStore(c)
  BY <1>12, <1>0, <1>a, KindOf DEF UnlockStore, Moves, Fits, At
<1>13. CASE UnlockReencrypt(c)
  BY <1>13, <1>0, <1>a, KindOf DEF UnlockReencrypt, Moves, Fits, At
<1>14. CASE RenewExtend(c)
  BY <1>14, <1>0, <1>a, KindOf DEF RenewExtend, Moves, Fits, At
<1>15. CASE RenewArm(c)
  BY <1>15, <1>0, <1>a, KindOf DEF RenewArm, Moves, Fits, At
<1>. QED
  BY <1>1, <1>2, <1>3, <1>4, <1>5, <1>6, <1>7, <1>8, <1>9, <1>10, <1>11, <1>12, <1>13,
     <1>14, <1>15 DEF Step

\* A mint goes on telling whose row it is to the request that moves.
LEMMA SelfTells ==
  ASSUME TypeOK, NEW c \in Calls, Fits(c), RowsNamed, MintsTell(c), RowStep(c), Step(c)
  PROVE  MintsTell(c)' /\ Staged(c)'
<1>0. /\ Moves(c) /\ DOMAIN row = Ids
      /\ call[c].op # "unlock" => call[c].row.mint \in 0..minted
      /\ \A e \in call[c].ids : e[2].mint \in 1..minted
      /\ minted \in Nat
  BY HaveMoves, SecretsAssumption DEF TypeOK, Fits
<1>a. MintsTell(c) /\ RowsNamed
  OBVIOUS
<1>b. NoRow.mint = 0 /\ \A i \in LiveIds : row[i].mint # 0
  BY DEF NoRow, RowOf, RowsNamed
<1>1. CASE TakeLock(c)
  BY <1>1, <1>0, <1>a, <1>b, KindOf DEF TakeLock, Moves, RowStep, RowsKeep, Staged,
     MintsTell, LiveIds, At, rows
<1>2. CASE MintRefused(c)
  BY <1>2, <1>0, <1>a, <1>b, KindOf DEF MintRefused, LiveIds, Moves, RowStep, RowsKeep,
     Staged, MintsTell, At, rows
<1>3. CASE MintInsert(c)
  <2>1. PICK i \in Ids : /\ NextId(i) /\ row' = [row EXCEPT ![i] = RowOf(call[c].row.name, minted + 1)]
                         /\ Aim(c, "encrypt", i, RowOf(call[c].row.name, minted + 1))
    BY <1>3 DEF MintInsert
  <2>2. /\ row'[i].mint = minted + 1 /\ row'[i].name = call[c].row.name
        /\ \A j \in Ids \ {i} : row'[j] = row[j]
    BY <2>1, <1>0 DEF RowOf
  <2>3. /\ call'[c].row.name = call[c].row.name /\ call'[c].row.mint = minted + 1
        /\ call'[c].pc = "encrypt" /\ call'[c].id = i /\ call'[c].ids = call[c].ids
        /\ call[c].op # "unlock"
    BY <1>3, <2>1, <1>0, KindOf DEF Moves, RowOf, MintInsert, At
  <2>4. LiveIds' \subseteq LiveIds \cup {i}
    BY <2>2 DEF LiveIds
  <2>5. \A j \in LiveIds : row[j].mint \in 1..minted
    BY DEF RowsNamed
  <2>6. MintsTell(c)'
    BY <2>2, <2>3, <2>4, <2>5, <1>0, <1>a DEF MintsTell, LiveIds
  <2>7. Staged(c)'
    BY <2>2, <2>3 DEF Staged
  <2>. QED  BY <2>6, <2>7
<1>4. CASE MintEncrypt(c)
  BY <1>4, <1>0, <1>a, <1>b, KindOf DEF MintEncrypt, Moves, RowStep, RowsKeep, Staged,
     MintsTell, LiveIds, At, rows
<1>5. CASE MintArm(c)
  BY <1>5, <1>0, <1>a, <1>b, KindOf DEF MintArm, Moves, RowStep, RowsKeep, Staged,
     MintsTell, LiveIds, At, rows
<1>6. CASE SweepNext(c)
  BY <1>6, <1>0, <1>a, <1>b, KindOf DEF SweepNext, Moves, RowStep, RowsKeep, Staged,
     MintsTell, LiveIds, At, rows
<1>7. CASE Delete(c)
  BY <1>7, <1>0, <1>a, <1>b, KindOf DEF Delete, Moves, RowStep, RowsKeep, Staged,
     MintsTell, LiveIds, At, rows
<1>8. CASE Forget(c)
  BY <1>8, <1>0, <1>a, <1>b, KindOf DEF Forget, Moves, RowStep, RowsKeep, Staged,
     MintsTell, LiveIds, At, rows
<1>9. CASE PendingMark(c)
  BY <1>9, <1>0, <1>a, <1>b, KindOf DEF PendingMark, Moves, RowStep, RowsKeep, Staged,
     MintsTell, LiveIds, At, rows
<1>10. CASE PendingView(c)
  BY <1>10, <1>0, <1>a, <1>b, KindOf DEF PendingView, Moves, RowStep, RowsKeep, Staged,
     MintsTell, LiveIds, At, rows
<1>11. CASE UnlockRefused(c)
  BY <1>11, <1>0, <1>a, <1>b, KindOf DEF UnlockRefused, LiveIds, Moves, RowStep,
     RowsKeep, Staged, MintsTell, At, rows
<1>12. CASE UnlockStore(c)
  BY <1>12, <1>0, <1>a, <1>b, KindOf DEF UnlockStore, LiveIds, Moves, RowStep, RowsKeep,
     Staged, MintsTell, At, rows
<1>13. CASE UnlockReencrypt(c)
  BY <1>13, <1>0, <1>a, <1>b, KindOf DEF UnlockReencrypt, Moves, RowStep, RowsKeep,
     Staged, MintsTell, LiveIds, At, rows
<1>14. CASE RenewExtend(c)
  BY <1>14, <1>0, <1>a, <1>b, KindOf DEF RenewExtend, LiveIds, Moves, RowStep, RowsKeep,
     Staged, MintsTell, At, rows
<1>15. CASE RenewArm(c)
  BY <1>15, <1>0, <1>a, <1>b, KindOf DEF RenewArm, LiveIds, Moves, RowStep, RowsKeep,
     Staged, MintsTell, At, rows
<1>. QED
  BY <1>1, <1>2, <1>3, <1>4, <1>5, <1>6, <1>7, <1>8, <1>9, <1>10, <1>11, <1>12, <1>13,
     <1>14, <1>15 DEF Step

-------------------------------------------------------------------------------
\* The debts.  Each step that makes one belongs to the lock's holder, who owes it
\* from then on, and each step that moves the holder on has paid.
LEMMA PlainKept ==
  ASSUME TypeOK, NEW c \in Calls, Fits(c), Locked(c), Staged(c), MintsTell(c),
         RowsNamed, PlainOwned, RowStep(c), Step(c),
         \A d \in Calls \ {c} : call'[d] = call[d]
  PROVE  PlainOwned'
<1>0. /\ Moves(c) /\ DOMAIN row = Ids /\ DOMAIN cache = Names /\ Nobody \notin Calls
      /\ lock = c <=> call[c].pc \in UnderLock
      /\ Owes("forget") => lock \in Calls
  BY HaveMoves, SecretsAssumption DEF TypeOK, Locked, Owes
<1>a. /\ PlainOwned
      /\ call[c].pc = "encrypt" => call[c].id \in LiveIds /\ call[c].row.name \in Names
                                  /\ row[call[c].id].name = call[c].row.name
      /\ call[c].pc = "delete" => call[c].id \in Ids /\ call[c].op # "unlock"
                                 /\ call[c].row.mint # 0
      /\ \A i \in LiveIds : row[i].name \in Names /\ row[i].mint # 0
      /\ \A i \in LiveIds : call[c].op # "unlock" /\ row[i].mint = call[c].row.mint =>
                              row[i].name = call[c].row.name
      /\ NoRow.mint = 0
  <2>1. call[c].pc = "encrypt" => call[c].id \in LiveIds /\ call[c].row.name \in Names
                                /\ row[call[c].id].name = call[c].row.name
    BY KindOf, SecretsAssumption DEF Fits, Staged, LiveIds, NoRow, RowOf
  <2>2. call[c].pc = "delete" => call[c].id \in Ids /\ call[c].op # "unlock"
                                 /\ call[c].row.mint # 0
    <3>1. \A m : m \in 1..minted => m # 0
      BY SecretsAssumption DEF TypeOK
    <3>2. call[c].pc = "delete" /\ call[c].op \in {"mint", "revoke", "sweep"} =>
            call[c].id \in Ids /\ call[c].row.mint \in 1..minted
      BY DEF Fits
    <3>. QED  BY <3>1, <3>2, KindOf
  <2>. QED  BY <2>1, <2>2 DEF RowsNamed, MintsTell, NoRow, RowOf
<1>1. CASE TakeLock(c)
  BY <1>1, <1>0, <1>a DEF TakeLock, Moves, RowStep, RowsKeep, PlainOwned, Owes,
     UnderLock, LiveIds, Holds, At, rows, plain, session, ghosts
<1>2. CASE MintRefused(c)
  BY <1>2, <1>0, <1>a DEF MintRefused, Holds, LiveIds, Moves, RowStep, RowsKeep,
     PlainOwned, Owes, UnderLock, At, rows, plain, session, ghosts
<1>3. CASE MintInsert(c)
  <2>1. PICK i \in Ids : /\ NextId(i) /\ row' = [row EXCEPT ![i] = RowOf(call[c].row.name, minted + 1)]
                         /\ Aim(c, "encrypt", i, RowOf(call[c].row.name, minted + 1))
    BY <1>3 DEF MintInsert
  <2>2. /\ row'[i].name = call[c].row.name /\ row'[i] # NoRow
        /\ \A j \in Ids \ {i} : row'[j] = row[j]
    <3>1. minted + 1 # 0
      BY SecretsAssumption DEF TypeOK
    <3>. QED  BY <3>1, <2>1, <1>0 DEF RowOf, NoRow
  <2>3. i \notin LiveIds
    BY <2>1, SecretsAssumption DEF NextId, Ids
  <2>4. \A n \in Names : Holds(n) \subseteq Holds(n)' /\ (n = call[c].row.name => i \in Holds(n)')
    BY <2>2, <2>3 DEF Holds, LiveIds
  <2>5. /\ cache' = cache /\ misfired' = misfired \ {call[c].row.name}
        /\ lock = c /\ call[c].pc = "insert"
    BY <1>3, <1>0 DEF MintInsert, At, UnderLock, plain
  <2>. QED  BY <2>4, <2>5, <1>a DEF PlainOwned, Owes
<1>4. CASE MintEncrypt(c)
  BY <1>4, <1>0, <1>a DEF MintEncrypt, Store, Moves, RowStep, RowsKeep, PlainOwned, Owes,
     UnderLock, LiveIds, Holds, At, rows, plain, session, ghosts
<1>5. CASE MintArm(c)
  BY <1>5, <1>0, <1>a DEF MintArm, Moves, RowStep, RowsKeep, PlainOwned, Owes, UnderLock,
     LiveIds, Holds, At, rows, plain, session, ghosts
<1>6. CASE SweepNext(c)
  BY <1>6, <1>0, <1>a DEF SweepNext, Moves, RowStep, RowsKeep, PlainOwned, Owes,
     UnderLock, LiveIds, Holds, At, rows, plain, session, ghosts
<1>7. CASE Delete(c)
  BY <1>7, <1>0, <1>a DEF Delete, Moves, RowStep, RowsKeep, PlainOwned, Owes, UnderLock,
     LiveIds, Holds, At, rows, plain, session, ghosts
<1>8. CASE Forget(c)
  BY <1>8, <1>0, <1>a DEF Forget, Moves, RowStep, RowsKeep, PlainOwned, Owes, UnderLock,
     LiveIds, Holds, At, rows, plain, session, ghosts
<1>9. CASE PendingMark(c)
  BY <1>9, <1>0, <1>a DEF PendingMark, Moves, RowStep, RowsKeep, PlainOwned, Owes,
     UnderLock, LiveIds, Holds, At, rows, plain, session, ghosts
<1>10. CASE PendingView(c)
  BY <1>10, <1>0, <1>a DEF PendingView, Moves, RowStep, RowsKeep, PlainOwned, Owes,
     UnderLock, LiveIds, Holds, At, rows, plain, session, ghosts
<1>11. CASE UnlockRefused(c)
  BY <1>11, <1>0, <1>a DEF UnlockRefused, LiveIds, Moves, RowStep, RowsKeep, PlainOwned,
     Owes, UnderLock, Holds, At, rows, plain, session, ghosts
<1>12. CASE UnlockStore(c)
  BY <1>12, <1>0, <1>a DEF UnlockStore, Store, LiveIds, Moves, RowStep, RowsKeep,
     PlainOwned, Owes, UnderLock, Holds, At, rows, plain, session, ghosts
<1>13. CASE UnlockReencrypt(c)
  BY <1>13, <1>0, <1>a DEF UnlockReencrypt, Moves, RowStep, RowsKeep, PlainOwned, Owes,
     UnderLock, LiveIds, Holds, At, rows, plain, session, ghosts
<1>14. CASE RenewExtend(c)
  BY <1>14, <1>0, <1>a DEF RenewExtend, LiveIds, Moves, RowStep, RowsKeep, PlainOwned,
     Owes, UnderLock, Holds, At, rows, plain, session, ghosts
<1>15. CASE RenewArm(c)
  BY <1>15, <1>0, <1>a DEF RenewArm, LiveIds, Moves, RowStep, RowsKeep, PlainOwned, Owes,
     UnderLock, Holds, At, rows, plain, session, ghosts
<1>. QED
  BY <1>1, <1>2, <1>3, <1>4, <1>5, <1>6, <1>7, <1>8, <1>9, <1>10, <1>11, <1>12, <1>13,
     <1>14, <1>15 DEF Step

\* A marker stays accounted for.
LEMMA MarkKept ==
  ASSUME TypeOK, NEW c \in Calls, Fits(c), Locked(c), MarkOwned, RowsNamed, RowStep(c), Step(c),
         \A d \in Calls \ {c} : call'[d] = call[d]
  PROVE  MarkOwned'
<1>0. /\ Moves(c) /\ DOMAIN row = Ids /\ DOMAIN served = Ids /\ Nobody \notin Calls
      /\ lock = c <=> call[c].pc \in UnderLock
      /\ Owes("forget") => lock \in Calls
  BY HaveMoves, SecretsAssumption DEF TypeOK, Locked, Owes
<1>a. /\ MarkOwned /\ \A i \in LiveIds : row[i].mint # 0
      /\ \A e \in call[c].ids : e[1] \in Ids /\ e[2].mint # 0
      /\ NoRow.mint = 0
  BY CallFields, SecretsAssumption DEF RowsNamed, NoRow, RowOf, TypeOK, Fits
<1>1. CASE TakeLock(c)
  BY <1>1, <1>0, <1>a DEF TakeLock, Moves, RowStep, RowsKeep, MarkOwned, Owes, UnderLock,
     LiveIds, At, rows, plain, session, ghosts
<1>2. CASE MintRefused(c)
  BY <1>2, <1>0, <1>a DEF MintRefused, LiveIds, Moves, RowStep, RowsKeep, MarkOwned,
     Owes, UnderLock, At, rows, plain, session, ghosts
<1>3. CASE MintInsert(c)
  <2>1. PICK i \in Ids : row' = [row EXCEPT ![i] = RowOf(call[c].row.name, minted + 1)]
    BY <1>3 DEF MintInsert
  <2>2. row'[i] # NoRow /\ \A j \in Ids \ {i} : row'[j] = row[j]
    <3>1. minted + 1 # 0
      BY SecretsAssumption DEF TypeOK
    <3>. QED  BY <3>1, <2>1, <1>0 DEF RowOf, NoRow
  <2>3. LiveIds \subseteq LiveIds'
    BY <2>2 DEF LiveIds
  <2>4. served' = served /\ haunted' = haunted /\ lock = c /\ call[c].pc = "insert"
    BY <1>3, <1>0 DEF MintInsert, At, UnderLock, plain
  <2>. QED  BY <2>3, <2>4, <1>a DEF MarkOwned, Owes
<1>4. CASE MintEncrypt(c)
  BY <1>4, <1>0, <1>a DEF MintEncrypt, Moves, RowStep, RowsKeep, MarkOwned, Owes,
     UnderLock, LiveIds, At, rows, plain, session, ghosts
<1>5. CASE MintArm(c)
  BY <1>5, <1>0, <1>a DEF MintArm, Moves, RowStep, RowsKeep, MarkOwned, Owes, UnderLock,
     LiveIds, At, rows, plain, session, ghosts
<1>6. CASE SweepNext(c)
  BY <1>6, <1>0, <1>a DEF SweepNext, Moves, RowStep, RowsKeep, MarkOwned, Owes,
     UnderLock, LiveIds, At, rows, plain, session, ghosts
<1>7. CASE Delete(c)
  BY <1>7, <1>0, <1>a DEF Delete, Moves, RowStep, RowsKeep, MarkOwned, Owes, UnderLock,
     LiveIds, At, rows, plain, session, ghosts
<1>8. CASE Forget(c)
  BY <1>8, <1>0, <1>a DEF Forget, Moves, RowStep, RowsKeep, MarkOwned, Owes, UnderLock,
     LiveIds, At, rows, plain, session, ghosts
<1>9. CASE PendingMark(c)
  BY <1>9, <1>0, <1>a DEF PendingMark, Moves, RowStep, RowsKeep, MarkOwned, Owes,
     UnderLock, LiveIds, At, rows, plain, session, ghosts
<1>10. CASE PendingView(c)
  BY <1>10, <1>0, <1>a DEF PendingView, Moves, RowStep, RowsKeep, MarkOwned, Owes,
     UnderLock, LiveIds, At, rows, plain, session, ghosts
<1>11. CASE UnlockRefused(c)
  BY <1>11, <1>0, <1>a DEF UnlockRefused, LiveIds, Moves, RowStep, RowsKeep, MarkOwned,
     Owes, UnderLock, At, rows, plain, session, ghosts
<1>12. CASE UnlockStore(c)
  BY <1>12, <1>0, <1>a DEF UnlockStore, LiveIds, Moves, RowStep, RowsKeep, MarkOwned,
     Owes, UnderLock, At, rows, plain, session, ghosts
<1>13. CASE UnlockReencrypt(c)
  BY <1>13, <1>0, <1>a DEF UnlockReencrypt, Moves, RowStep, RowsKeep, MarkOwned, Owes,
     UnderLock, LiveIds, At, rows, plain, session, ghosts
<1>14. CASE RenewExtend(c)
  BY <1>14, <1>0, <1>a DEF RenewExtend, LiveIds, Moves, RowStep, RowsKeep, MarkOwned,
     Owes, UnderLock, At, rows, plain, session, ghosts
<1>15. CASE RenewArm(c)
  BY <1>15, <1>0, <1>a DEF RenewArm, LiveIds, Moves, RowStep, RowsKeep, MarkOwned, Owes,
     UnderLock, At, rows, plain, session, ghosts
<1>. QED
  BY <1>1, <1>2, <1>3, <1>4, <1>5, <1>6, <1>7, <1>8, <1>9, <1>10, <1>11, <1>12, <1>13,
     <1>14, <1>15 DEF Step

\* A row without ciphertext stays its holder's to repair.
LEMMA BlobKept ==
  ASSUME TypeOK, NEW c \in Calls, Fits(c), Locked(c), Staged(c), BlobOwned, RowsNamed,
         RowStep(c), Step(c), \A d \in Calls \ {c} : call'[d] = call[d]
  PROVE  BlobOwned'
<1>0. /\ Moves(c) /\ DOMAIN row = Ids /\ DOMAIN blob = Ids /\ Nobody \notin Calls
      /\ lock = c <=> call[c].pc \in UnderLock
      /\ Owes("encrypt") \/ Owes("delete") => lock \in Calls
  BY HaveMoves, SecretsAssumption DEF TypeOK, Locked, Owes
<1>a. /\ BlobOwned /\ NoRow.mint = 0
      /\ call[c].pc = "encrypt" => call[c].id \in LiveIds /\ call[c].row.mint # 0
      /\ call[c].pc = "reencrypt" => call[c].id \in LiveIds /\ call[c].row.mint # 0
      /\ call[c].pc = "delete" => call[c].id \in Ids
  <2>1. \A m : m \in 1..minted \/ m \in Values => m # 0
    BY SecretsAssumption DEF TypeOK, Values
  <2>2. call[c].pc = "encrypt" => call[c].id \in Ids /\ call[c].row.mint \in 1..minted
    BY KindOf DEF Fits
  <2>3. call[c].pc = "reencrypt" => call[c].row.mint \in Values
    BY KindOf DEF Fits
  <2>4. call[c].pc = "delete" => call[c].id \in Ids
    BY KindOf DEF Fits
  <2>. QED  BY <2>1, <2>2, <2>3, <2>4 DEF Staged, LiveIds, NoRow, RowOf
<1>1. CASE TakeLock(c)
  BY <1>1, <1>0, <1>a DEF TakeLock, Moves, RowStep, RowsKeep, BlobOwned, Owes, UnderLock,
     LiveIds, At, rows, plain, session, ghosts
<1>2. CASE MintRefused(c)
  BY <1>2, <1>0, <1>a DEF MintRefused, LiveIds, Moves, RowStep, RowsKeep, BlobOwned,
     Owes, UnderLock, At, rows, plain, session, ghosts
<1>3. CASE MintInsert(c)
  <2>1. PICK i \in Ids : /\ NextId(i) /\ row' = [row EXCEPT ![i] = RowOf(call[c].row.name, minted + 1)]
                         /\ Aim(c, "encrypt", i, RowOf(call[c].row.name, minted + 1))
    BY <1>3 DEF MintInsert
  <2>2. row'[i] # NoRow /\ \A j \in Ids \ {i} : row'[j] = row[j]
    <3>1. minted + 1 # 0
      BY SecretsAssumption DEF TypeOK
    <3>. QED  BY <3>1, <2>1, <1>0 DEF RowOf, NoRow
  <2>3. LiveIds' = LiveIds \cup {i}
    BY <2>2 DEF LiveIds
  <2>4. /\ blob' = blob /\ lock = c /\ call[c].pc = "insert" /\ lock' = lock
        /\ call'[c].pc = "encrypt" /\ call'[c].id = i /\ bare' = bare
    BY <1>3, <2>1, <1>0 DEF MintInsert, At, UnderLock, Moves
  <2>. QED  BY <2>3, <2>4, <1>0, <1>a DEF BlobOwned, Owes
<1>4. CASE MintEncrypt(c)
  BY <1>4, <1>0, <1>a DEF MintEncrypt, Moves, RowStep, RowsKeep, BlobOwned, Owes,
     UnderLock, LiveIds, At, rows, plain, session, ghosts
<1>5. CASE MintArm(c)
  BY <1>5, <1>0, <1>a DEF MintArm, Moves, RowStep, RowsKeep, BlobOwned, Owes, UnderLock,
     LiveIds, At, rows, plain, session, ghosts
<1>6. CASE SweepNext(c)
  BY <1>6, <1>0, <1>a DEF SweepNext, Moves, RowStep, RowsKeep, BlobOwned, Owes,
     UnderLock, LiveIds, At, rows, plain, session, ghosts
<1>7. CASE Delete(c)
  BY <1>7, <1>0, <1>a DEF Delete, Moves, RowStep, RowsKeep, BlobOwned, Owes, UnderLock,
     LiveIds, At, rows, plain, session, ghosts
<1>8. CASE Forget(c)
  BY <1>8, <1>0, <1>a DEF Forget, Moves, RowStep, RowsKeep, BlobOwned, Owes, UnderLock,
     LiveIds, At, rows, plain, session, ghosts
<1>9. CASE PendingMark(c)
  BY <1>9, <1>0, <1>a DEF PendingMark, Moves, RowStep, RowsKeep, BlobOwned, Owes,
     UnderLock, LiveIds, At, rows, plain, session, ghosts
<1>10. CASE PendingView(c)
  BY <1>10, <1>0, <1>a DEF PendingView, Moves, RowStep, RowsKeep, BlobOwned, Owes,
     UnderLock, LiveIds, At, rows, plain, session, ghosts
<1>11. CASE UnlockRefused(c)
  BY <1>11, <1>0, <1>a DEF UnlockRefused, LiveIds, Moves, RowStep, RowsKeep, BlobOwned,
     Owes, UnderLock, At, rows, plain, session, ghosts
<1>12. CASE UnlockStore(c)
  BY <1>12, <1>0, <1>a DEF UnlockStore, LiveIds, Moves, RowStep, RowsKeep, BlobOwned,
     Owes, UnderLock, At, rows, plain, session, ghosts
<1>13. CASE UnlockReencrypt(c)
  BY <1>13, <1>0, <1>a DEF UnlockReencrypt, Moves, RowStep, RowsKeep, BlobOwned, Owes,
     UnderLock, LiveIds, At, rows, plain, session, ghosts
<1>14. CASE RenewExtend(c)
  BY <1>14, <1>0, <1>a DEF RenewExtend, LiveIds, Moves, RowStep, RowsKeep, BlobOwned,
     Owes, UnderLock, At, rows, plain, session, ghosts
<1>15. CASE RenewArm(c)
  BY <1>15, <1>0, <1>a DEF RenewArm, LiveIds, Moves, RowStep, RowsKeep, BlobOwned, Owes,
     UnderLock, At, rows, plain, session, ghosts
<1>. QED
  BY <1>1, <1>2, <1>3, <1>4, <1>5, <1>6, <1>7, <1>8, <1>9, <1>10, <1>11, <1>12, <1>13,
     <1>14, <1>15 DEF Step

\* A step of a request keeps the invariant.
LEMMA StepKeeps ==
  ASSUME IInv, NEW c \in Calls, Step(c)
  PROVE  IInv'
<1>0. /\ TypeOK /\ RowsNamed /\ PlainOwned /\ MarkOwned /\ BlobOwned
      /\ Fits(c) /\ Locked(c) /\ Staged(c) /\ MintsTell(c)
  BY DEF IInv
<1>1. TypeOK' /\ RowStep(c)
  BY <1>0, StepTypes, RowSteps
<1>2. /\ \A d \in Calls \ {c} : call'[d] = call[d]
      /\ \/ lock' = lock /\ (call'[c].pc \in UnderLock <=> call[c].pc \in UnderLock)
         \/ lock = Nobody /\ lock' = c /\ call'[c].pc \in UnderLock
         \/ lock = c /\ lock' = Nobody /\ call'[c].pc \notin UnderLock
  BY <1>0, CallFrame
<1>3. RowsNamed' /\ PlainOwned' /\ MarkOwned' /\ BlobOwned'
  BY <1>0, <1>1, <1>2, RowsKept, PlainKept, MarkKept, BlobKept
<1>4. Fits(c)' /\ MintsTell(c)' /\ Staged(c)'
  BY <1>0, <1>1, SelfFits, SelfTells
<1>5. Locked(c)'
  BY <1>0, <1>2, SecretsAssumption DEF Locked
<1>6. ASSUME NEW d \in Calls, d # c PROVE Fits(d)' /\ Locked(d)' /\ Staged(d)' /\ MintsTell(d)'
  <2>1. Fits(d) /\ Locked(d) /\ Staged(d) /\ MintsTell(d)
    BY DEF IInv
  <2>. QED  BY <2>1, <1>0, <1>1, <1>2, <1>6, OthersKept
<1>. QED  BY <1>1, <1>3, <1>4, <1>5, <1>6 DEF IInv

\* A request that breaks off keeps the invariant: what it owed is named.
LEMMA BreaksKeeps ==
  ASSUME IInv, NEW c \in Calls, Breaks(c)
  PROVE  IInv'
<1>0. /\ TypeOK /\ RowsNamed /\ PlainOwned /\ MarkOwned /\ BlobOwned
      /\ Fits(c) /\ Locked(c) /\ Staged(c) /\ Moves(c)
      /\ Nobody \notin Calls /\ MaxMints \in Nat /\ MaxEvents \in Nat
  BY HaveMoves, SecretsAssumption DEF IInv, TypeOK
<1>1. /\ UNCHANGED <<row, cache, served, minted, seen, operators, window>>
      /\ LiveIds' = LiveIds /\ \A n : Holds(n)' = Holds(n)
  BY DEF Breaks, plain, session, LiveIds, Holds
<1>2. /\ call' = [call EXCEPT ![c] = IdleCall] /\ call'[c] = IdleCall
      /\ \A d \in Calls \ {c} : call'[d] = call[d]
      /\ call'[c].pc = "idle" /\ call'[c].op = "none" /\ call'[c].ids = {} /\ call'[c].row = NoRow
  BY <1>0 DEF Breaks, End, TypeOK, IdleCall, CallOf
<1>3. /\ call[c].pc \in {"encrypt", "delete", "forget"} => call[c].id \in Ids /\ call[c].row.name \in Names
      /\ call[c].pc = "encrypt" => call[c].id \in LiveIds /\ call[c].row.mint # 0
  <2>1. call[c].pc = "encrypt" => call[c].row.mint \in 1..minted /\ call[c].id \in Ids
    BY <1>0, KindOf DEF Fits
  <2>2. call[c].row.mint \in 1..minted => call[c].row.mint # 0
    BY <1>0 DEF TypeOK
  <2>3. NoRow.mint = 0
    BY DEF NoRow, RowOf
  <2>. QED  BY <1>0, <2>1, <2>2, <2>3, KindOf DEF Fits, Staged, LiveIds
<1>4. TypeOK'
  <2>1. call' \in [Calls -> CallType]
    BY <1>0, CallSteps DEF Breaks, TypeOK
  <2>2. blob' \in [Ids -> 0..MaxMints]
    BY <1>0, CallFields DEF Breaks, TypeOK
  <2>3. misfired' \subseteq Names /\ haunted' \subseteq Ids /\ bare' \subseteq Ids
    BY <1>0, <1>3 DEF Breaks, TypeOK, At
  <2>4. lock' \in Calls \cup {Nobody} /\ events' \in 0..MaxEvents
    BY <1>0 DEF Breaks, TypeOK, Event
  <2>. QED  BY <1>0, <1>1, <2>1, <2>2, <2>3, <2>4 DEF TypeOK
<1>5. /\ lock = c => lock' = Nobody
      /\ lock # c => lock' = lock /\ call[c].pc \notin {"encrypt", "delete", "forget"}
      /\ \A pc : Owes(pc) =>
           \/ Owes(pc)' /\ lock' = lock /\ call'[lock] = call[lock]
           \/ lock = c /\ call[c].pc = pc
  BY <1>0, <1>2 DEF Breaks, Locked, UnderLock, Owes, TypeOK
<1>6. PlainOwned'
  <2>1. /\ misfired \subseteq misfired'
        /\ call[c].pc = "forget" => call[c].row.name \in misfired'
    BY DEF Breaks, At
  <2>. QED  BY <1>0, <1>1, <1>5, <2>1 DEF PlainOwned
<1>7. MarkOwned'
  <2>1. /\ haunted \subseteq haunted'
        /\ call[c].pc = "forget" => call[c].id \in haunted'
    BY DEF Breaks, At
  <2>. QED  BY <1>0, <1>1, <1>5, <2>1 DEF MarkOwned
<1>8. BlobOwned'
  <2>1. /\ bare \subseteq bare'
        /\ \A i \in Ids : blob'[i] # 0 => blob[i] # 0 \/ (call[c].pc = "encrypt" /\ i = call[c].id)
        /\ \A i \in Ids : blob'[i] = 0 => blob[i] = 0
        /\ call[c].pc \in {"encrypt", "delete"} /\ call[c].id \in LiveIds /\ blob'[call[c].id] = 0 =>
             call[c].id \in bare'
    BY <1>0, <1>3 DEF Breaks, At, TypeOK
  <2>. QED  BY <1>0, <1>1, <1>3, <1>5, <2>1 DEF BlobOwned
<1>9. RowsNamed'
  BY <1>0, <1>1 DEF RowsNamed
<1>10. ASSUME NEW d \in Calls PROVE Fits(d)' /\ Locked(d)' /\ Staged(d)' /\ MintsTell(d)'
  <2>1. Fits(d) /\ Locked(d) /\ Staged(d) /\ MintsTell(d)
    BY DEF IInv
  <2>2. CASE d # c
    <3>1. call'[d] = call[d] /\ (lock' = d <=> lock = d)
      BY <1>0, <1>2, <1>5, <2>2
    <3>. QED  BY <2>1, <3>1, <1>1 DEF Fits, Locked, Staged, MintsTell
  <2>3. CASE d = c
    <3>1. NoRow.mint = 0 /\ 0 \in 0..minted /\ lock' # c
      BY <1>0, <1>5 DEF NoRow, RowOf, TypeOK
    <3>2. \A i \in LiveIds : row[i].mint # 0
      BY <1>0 DEF RowsNamed
    <3>. QED  BY <2>3, <3>1, <3>2, <1>1, <1>2 DEF Fits, Locked, Staged, MintsTell, UnderLock
  <2>. QED  BY <2>2, <2>3
<1>. QED  BY <1>4, <1>6, <1>7, <1>8, <1>9, <1>10 DEF IInv

\* The record of a request that has just come in: it has read what is there.
Incoming(q) ==
  /\ q \in CallType /\ q.pc \in {"lock", "mark", "extend"} /\ q.op # "none"
  /\ q.op = "mint" => q.pc = "lock" /\ q.row.name \in Names /\ q.id = 0
  /\ q.op = "revoke" => q.pc = "lock" /\ q.id \in LiveIds /\ q.row = row[q.id]
  /\ q.op = "unlock" => q.pc = "lock" /\ q.id \in Ids /\ q.row.mint \in Values
  /\ q.op = "sweep" => q.pc = "lock"
  /\ q.op = "pending" => q.pc = "mark"
  /\ q.op = "renew" => q.pc = "extend"
  /\ q.op \notin {"revoke", "unlock"} => q.row.mint = 0
  /\ \A e \in q.ids : \E i \in LiveIds : e[2] = row[i]

\* A request that comes in has read what is there, and takes no lock yet.
LEMMA RequestKeeps ==
  ASSUME IInv, NEW c \in Calls, Request(c)
  PROVE  IInv'
<1>0. /\ TypeOK /\ RowsNamed /\ PlainOwned /\ MarkOwned /\ BlobOwned
      /\ Fits(c) /\ Locked(c) /\ MaxMints \in Nat /\ MaxId \in Nat /\ minted \in 0..MaxMints
      /\ 0 \in 0..MaxId /\ \A i \in Ids : i \in 0..MaxId
  BY SecretsAssumption DEF IInv, TypeOK, Ids
<1>1. UNCHANGED <<rows, plain, session, lock, seen, minted, ghosts, events>> /\ At(c, "idle")
  BY DEF Request, BeginMint, BeginRevoke, BeginUnlock, BeginSweep, PendingList, RenewRead, Begin
<1>2. \E q : call' = [call EXCEPT ![c] = q] /\ Incoming(q)
  <2>. USE <1>0
  <2>1. ASSUME NEW i \in LiveIds PROVE row[i] \in RowType /\ i \in Ids /\ row[i].expired \in BOOLEAN
    BY DEF LiveIds, TypeOK, RowType
  <2>2. NoRow \in RowType /\ NoRow.mint = 0 /\ \A n \in Names : RowOf(n, 0) \in RowType
    BY DEF NoRow, RowOf, RowType
  <2>3. CASE \E n \in Names : BeginMint(c, n)
    <3>1. PICK n \in Names : BeginMint(c, n)
      BY <2>3
    <3>2. CallOf("mint", "lock", 0, RowOf(n, 0), {}) \in CallType
      BY <2>2 DEF CallOf, CallType, PcNames
    <3>3. Incoming(CallOf("mint", "lock", 0, RowOf(n, 0), {}))
      BY <3>2 DEF Incoming, CallOf, RowOf
    <3>. QED  BY <3>1, <3>3 DEF BeginMint, Begin
  <2>4. CASE \E i \in Ids : BeginRevoke(c, i)
    <3>1. PICK i \in Ids : BeginRevoke(c, i)
      BY <2>4
    <3>2. CallOf("revoke", "lock", i, row[i], {}) \in CallType
      BY <3>1, <2>1 DEF CallOf, CallType, PcNames, BeginRevoke
    <3>3. Incoming(CallOf("revoke", "lock", i, row[i], {}))
      BY <3>1, <3>2 DEF Incoming, CallOf, BeginRevoke
    <3>. QED  BY <3>1, <3>3 DEF BeginRevoke, Begin
  <2>5. CASE \E s \in seen : BeginUnlock(c, s)
    <3>1. PICK s \in seen : BeginUnlock(c, s)
      BY <2>5
    <3>2. s[1] \in Ids /\ s[2] \in Values /\ RowOf(NoName, s[2]) \in RowType
      BY DEF TypeOK, RowOf, RowType, Values
    <3>3. CallOf("unlock", "lock", s[1], RowOf(NoName, s[2]), {}) \in CallType
      BY <3>2 DEF CallOf, CallType, PcNames
    <3>4. Incoming(CallOf("unlock", "lock", s[1], RowOf(NoName, s[2]), {}))
      BY <3>2, <3>3 DEF Incoming, CallOf, RowOf
    <3>. QED  BY <3>1, <3>4 DEF BeginUnlock, Begin
  <2>6. CASE \E i \in Ids : RenewRead(c, i)
    <3>1. PICK i \in Ids : RenewRead(c, i)
      BY <2>6
    <3>2. [CallOf("renew", "extend", i, NoRow, {}) EXCEPT !.prior = row[i].expired] \in CallType
      BY <3>1, <2>1, <2>2 DEF CallOf, CallType, PcNames, RenewRead
    <3>3. Incoming([CallOf("renew", "extend", i, NoRow, {}) EXCEPT !.prior = row[i].expired])
      BY <3>2, <2>2 DEF Incoming, CallOf
    <3>. QED  BY <3>1, <3>3 DEF RenewRead
  <2>7. ASSUME NEW S \in SUBSET LiveIds, NEW op \in {"sweep", "pending"},
               NEW pc \in {"lock", "mark"},
               op = "sweep" <=> pc = "lock"
        PROVE  Incoming(CallOf(op, pc, 0, NoRow, {<<i, row[i]>> : i \in S}))
    <3>1. {<<i, row[i]>> : i \in S} \in SUBSET (Ids \X RowType)
      BY <2>1
    <3>2. CallOf(op, pc, 0, NoRow, {<<i, row[i]>> : i \in S}) \in CallType
      BY <3>1, <2>2 DEF CallOf, CallType, PcNames
    <3>3. \A e \in {<<i, row[i]>> : i \in S} : \E i \in LiveIds : e[2] = row[i]
      OBVIOUS
    <3>. QED  BY <3>2, <3>3, <2>2, <2>7 DEF Incoming, CallOf
  <2>8. CASE BeginSweep(c)
    <3>. DEFINE S == {i \in LiveIds : row[i].expired}
    <3>1. Incoming(CallOf("sweep", "lock", 0, NoRow, {<<i, row[i]>> : i \in S}))
      BY <2>7
    <3>. QED  BY <2>8, <3>1 DEF BeginSweep
  <2>9. CASE PendingList(c)
    <3>1. Incoming(CallOf("pending", "mark", 0, NoRow, {<<i, row[i]>> : i \in LiveIds}))
      BY <2>7
    <3>. QED  BY <2>9, <3>1 DEF PendingList
  <2>. QED  BY <2>3, <2>4, <2>5, <2>6, <2>8, <2>9 DEF Request
<1>3. PICK q : call' = [call EXCEPT ![c] = q] /\ Incoming(q)
  BY <1>2
<1>4. /\ call'[c] = q /\ \A d \in Calls \ {c} : call'[d] = call[d]
      /\ call' \in [Calls -> CallType]
  BY <1>3, <1>0 DEF Incoming, TypeOK
<1>5. TypeOK'
  BY <1>0, <1>1, <1>4 DEF TypeOK, rows, plain, session, ghosts
<1>6. /\ UNCHANGED <<row, blob, cache, served, lock, minted, misfired, haunted, bare>>
      /\ LiveIds' = LiveIds /\ \A n : Holds(n)' = Holds(n)
  BY <1>1 DEF rows, plain, ghosts, LiveIds, Holds
<1>7. Fits(c)'
  <2>1. q.row.mint = 0 => q.row.mint \in 0..minted
    BY <1>0
  <2>2. q.op = "revoke" => q.id \in Ids /\ q.row.name \in Names /\ q.row.mint \in 1..minted
                            /\ q.row.mint \in 0..minted
    BY <1>0, <1>3 DEF Incoming, RowsNamed, LiveIds
  <2>3. \A e \in q.ids : e[2].name \in Names /\ e[2].mint \in 1..minted
    BY <1>0, <1>3 DEF Incoming, RowsNamed
  <2>. QED  BY <1>3, <1>4, <1>6, <2>1, <2>2, <2>3 DEF Incoming, Fits
<1>8. lock # c /\ Locked(c)' /\ Staged(c)'
  BY <1>0, <1>1, <1>3, <1>4, <1>6 DEF Locked, Staged, UnderLock, At, Incoming
<1>9. MintsTell(c)'
  BY <1>0, <1>3, <1>4, <1>6 DEF MintsTell, Incoming, RowsNamed
<1>10. ASSUME NEW d \in Calls, d # c PROVE Fits(d)' /\ Locked(d)' /\ Staged(d)' /\ MintsTell(d)'
  <2>1. Fits(d) /\ Locked(d) /\ Staged(d) /\ MintsTell(d) /\ call'[d] = call[d]
    BY <1>4, <1>10 DEF IInv
  <2>. QED  BY <2>1, <1>6 DEF Fits, Locked, Staged, MintsTell
<1>11. \A pc : Owes(pc)' <=> Owes(pc)
  BY <1>0, <1>4, <1>6, <1>8 DEF Owes, TypeOK
<1>12. lock # Nobody => call'[lock] = call[lock]
  BY <1>0, <1>4, <1>8 DEF TypeOK
<1>13. RowsNamed' /\ PlainOwned' /\ MarkOwned' /\ BlobOwned'
  BY <1>0, <1>6, <1>11, <1>12 DEF RowsNamed, PlainOwned, MarkOwned, BlobOwned, Owes
<1>. QED  BY <1>5, <1>7, <1>8, <1>9, <1>10, <1>13 DEF IInv

\* The flush, a read of a dead entry, the sockets, a reload and a lapse drop
\* plaintext and markers or let them age; they store none.
LEMMA EnvironmentKeeps ==
  ASSUME IInv,
         \/ FlushExpired \/ \E n \in Names : ReadDead(n)
         \/ OperatorConnects \/ OperatorDisconnects \/ Reload \/ Lapse
  PROVE  IInv'
<1>0. /\ TypeOK /\ RowsNamed /\ PlainOwned /\ MarkOwned /\ BlobOwned
      /\ MaxOperators \in Nat /\ MaxEvents \in Nat
  BY SecretsAssumption DEF IInv
<1>1. /\ UNCHANGED <<blob, call, lock, minted, misfired, haunted, bare, seen>>
      /\ \A n \in Names : cache'[n] # Cold => cache[n] # Cold
      /\ \A i \in Ids : served'[i] # "none" => served[i] # "none"
  BY <1>0 DEF FlushExpired, ReadDead, OperatorConnects, OperatorDisconnects, Reload, Lapse,
     TypeOK, rows, plain, session, ghosts, Cold
<1>2. row' \in [Ids -> RowType] /\ RowsKeep
  <2>1. ASSUME NEW i \in LiveIds, row' = [row EXCEPT ![i].expired = TRUE]
        PROVE  row' \in [Ids -> RowType] /\ RowsKeep
    <3>1. ASSUME NEW r \in RowType
          PROVE  /\ [r EXCEPT !.expired = TRUE] \in RowType
                 /\ [r EXCEPT !.expired = TRUE].name = r.name
                 /\ [r EXCEPT !.expired = TRUE].mint = r.mint
                 /\ r.mint # 0 => [r EXCEPT !.expired = TRUE] # NoRow
      BY DEF RowType, NoRow, RowOf
    <3>2. row[i].mint # 0 /\ row[i] \in RowType /\ i \in Ids /\ row[i] # NoRow
      BY <1>0 DEF RowsNamed, LiveIds, TypeOK
    <3>. QED  BY <2>1, <3>1, <3>2, <1>0 DEF RowsKeep, TypeOK
  <2>2. CASE row' = row
    BY <2>2, <1>0 DEF RowsKeep, TypeOK
  <2>. QED  BY <2>1, <2>2 DEF FlushExpired, ReadDead, OperatorConnects, OperatorDisconnects,
         Reload, Lapse, rows
<1>3. LiveIds' = LiveIds /\ \A n : Holds(n)' = Holds(n)
  BY <1>2 DEF RowsKeep, LiveIds, Holds
<1>4. TypeOK'
  <2>1. cache' \in [Names -> [value : 0..MaxMints, kind : Kinds]] /\ served' \in [Ids -> Kinds]
    <3>1. Cold \in [value : 0..MaxMints, kind : Kinds] /\ "none" \in Kinds /\ "late" \in Kinds
      BY SecretsAssumption DEF Cold, Kinds
    <3>2. ASSUME NEW n \in Names, cache' = [cache EXCEPT ![n].kind = "late"]
          PROVE  cache' \in [Names -> [value : 0..MaxMints, kind : Kinds]]
      BY <3>1, <3>2, <1>0 DEF TypeOK
    <3>. QED  BY <3>1, <3>2, <1>0 DEF TypeOK, FlushExpired, ReadDead, OperatorConnects,
           OperatorDisconnects, Reload, Lapse, plain
  <2>2. /\ operators' \in 0..MaxOperators /\ window' \in {"dated", "session"}
        /\ events' \in 0..MaxEvents
    BY <1>0 DEF TypeOK, FlushExpired, ReadDead, OperatorConnects, OperatorDisconnects, Reload,
       Lapse, session, Event
  <2>. QED  BY <2>1, <2>2, <1>0, <1>1, <1>2 DEF TypeOK
<1>5. ASSUME NEW c \in Calls PROVE Fits(c)' /\ Locked(c)' /\ Staged(c)' /\ MintsTell(c)'
  <2>1. Fits(c) /\ Locked(c) /\ Staged(c) /\ MintsTell(c)
    BY DEF IInv
  <2>2. Staged(c)'
    <3>1. call[c].pc = "encrypt" => call[c].id \in Ids
      BY <2>1, <1>0, KindOf DEF Fits
    <3>. QED  BY <2>1, <3>1, <1>1, <1>2, <1>3 DEF Staged, RowsKeep
  <2>3. MintsTell(c)'
    BY <2>1, <1>1, <1>2, <1>3 DEF MintsTell, RowsKeep, LiveIds
  <2>. QED  BY <2>1, <2>2, <2>3, <1>1 DEF Fits, Locked
<1>6. RowsNamed'
  BY <1>0, <1>1, <1>2, <1>3 DEF RowsNamed, RowsKeep, LiveIds
<1>7. PlainOwned' /\ MarkOwned' /\ BlobOwned'
  BY <1>0, <1>1, <1>3 DEF PlainOwned, MarkOwned, BlobOwned, Owes
<1>. QED  BY <1>4, <1>5, <1>6, <1>7 DEF IInv

\* The invariant holds of an empty store, and of what the probe's seed leaves.
LEMMA InitHolds == Init => IInv
<1>. SUFFICES ASSUME Init PROVE IInv
  OBVIOUS
<1>0. /\ NoRow \in RowType /\ IdleCall \in CallType /\ NoRow.mint = 0 /\ 0 \in 0..MaxMints
      /\ Cold \in [value : 0..MaxMints, kind : Kinds] /\ Probe \in Names
  BY SecretsAssumption
     DEF NoRow, RowOf, RowType, IdleCall, CallOf, CallType, PcNames, Cold, Kinds
<1>1. /\ row \in [Ids -> RowType] /\ blob \in [Ids -> 0..MaxMints]
      /\ cache \in [Names -> [value : 0..MaxMints, kind : Kinds]]
      /\ minted \in 0..MaxMints /\ misfired \subseteq Names /\ bare \subseteq Ids
      /\ RowsNamed /\ PlainOwned /\ BlobOwned
  <2>1. CASE Unseeded
    <3>1. LiveIds = {}
      BY <2>1 DEF Unseeded, LiveIds
    <3>. QED  BY <2>1, <3>1, <1>0 DEF Unseeded, RowsNamed, PlainOwned, BlobOwned
  <2>2. CASE Seeded
    <3>1. /\ 1 \in Ids /\ 1 \in 0..MaxMints /\ minted = 1
          /\ RowOf(Probe, 1) \in RowType /\ RowOf(Probe, 1) # NoRow
          /\ RowOf(Probe, 1).name = Probe /\ RowOf(Probe, 1).mint = 1
      BY <2>2, <1>0, SecretsAssumption DEF Seeded, Values, RowOf, RowType, NoRow
    <3>2. [value |-> 1, kind |-> window] \in [value : 0..MaxMints, kind : Kinds]
      BY <3>1 DEF Init, Kinds
    <3>3. /\ cache \in [Names -> [value : 0..MaxMints, kind : Kinds]]
          /\ \A n \in Names : cache[n] # Cold => n = Probe
      BY <2>2, <3>2, <1>0 DEF Seeded
    <3>4. CASE row = [i \in Ids |-> NoRow] /\ blob = [i \in Ids |-> 0] /\ misfired = {Probe} /\ bare = {}
      <4>1. LiveIds = {}
        BY <3>4 DEF LiveIds
      <4>. QED  BY <3>1, <3>3, <3>4, <4>1, <1>0 DEF RowsNamed, PlainOwned, BlobOwned
    <3>5. ASSUME NEW v \in {0, 1},
                 row = [i \in Ids |-> IF i = 1 THEN RowOf(Probe, 1) ELSE NoRow],
                 blob = [i \in Ids |-> IF i = 1 THEN v ELSE 0],
                 bare = (IF v = 0 THEN {1} ELSE {}), misfired = {}
          PROVE  /\ row \in [Ids -> RowType] /\ blob \in [Ids -> 0..MaxMints]
                 /\ bare \subseteq Ids /\ misfired \subseteq Names
                 /\ RowsNamed /\ PlainOwned /\ BlobOwned
      <4>1. LiveIds = {1}
        BY <3>1, <3>5 DEF LiveIds
      <4>2. RowsNamed
        BY <4>1, <3>1, <3>5, <1>0 DEF RowsNamed
      <4>3. Holds(Probe) # {}
        BY <4>1, <3>1, <3>5 DEF Holds
      <4>. QED  BY <4>1, <4>2, <4>3, <3>1, <3>3, <3>5, <1>0 DEF PlainOwned, BlobOwned
    <3>. QED  BY <2>2, <3>1, <3>3, <3>4, <3>5, <1>0 DEF Seeded
  <2>. QED  BY <2>1, <2>2 DEF Init
<1>2. TypeOK
  BY <1>0, <1>1, SecretsAssumption DEF Init, TypeOK, Kinds
<1>3. ASSUME NEW c \in Calls PROVE Fits(c) /\ Locked(c) /\ Staged(c) /\ MintsTell(c)
  <2>1. /\ call[c].op = "none" /\ call[c].pc = "idle" /\ call[c].ids = {}
        /\ call[c].row.mint = 0 /\ call[c].row.mint \in 0..minted /\ lock # c
    BY <1>0, <1>1, SecretsAssumption DEF Init, IdleCall, CallOf
  <2>2. \A i \in LiveIds : row[i].mint # 0
    BY <1>1 DEF RowsNamed
  <2>. QED  BY <2>1, <2>2 DEF Fits, Locked, Staged, MintsTell, UnderLock
<1>4. MarkOwned
  BY DEF Init, MarkOwned
<1>. QED  BY <1>1, <1>2, <1>3, <1>4 DEF IInv

\* A step of nothing keeps the invariant.
LEMMA StutterKeeps == IInv /\ UNCHANGED vars => IInv'
BY DEF IInv, vars, rows, plain, session, ghosts, TypeOK, RowsNamed, Fits, Locked, Staged,
   MintsTell, PlainOwned, MarkOwned, BlobOwned, Owes, Holds, LiveIds

\* The inductive invariant holds at every step.
THEOREM Inductive == Spec => []IInv
<1>1. Init => IInv
  BY InitHolds
<1>2. IInv /\ [Next]_vars => IInv'
  BY StepKeeps, RequestKeeps, BreaksKeeps, EnvironmentKeeps, StutterKeeps DEF Next
<1>. QED  BY <1>1, <1>2, PTL DEF Spec

\* Every variable of the store, the cache and the requests keeps its type.
THEOREM TypeCorrect == Spec => []TypeOK
<1>1. IInv => TypeOK
  BY DEF IInv
<1>. QED  BY <1>1, Inductive, PTL

\* With the lock free, plaintext in memory has a row, or a named mishap.
THEOREM PlaintextIsBacked == Spec => []CacheBacked
<1>1. IInv => CacheBacked
  BY DEF IInv, PlainOwned, Owes, CacheBacked
<1>. QED  BY <1>1, Inductive, PTL

\* With the lock free, a row has its ciphertext, or a write, an undo or the probe's
\* seed that left it without is named; and ciphertext never outlives its row.
THEOREM RowsAreWhole == Spec => []RowWhole
<1>1. IInv => RowWhole
  BY DEF IInv, BlobOwned, Owes, RowWhole, LiveIds
<1>. QED  BY <1>1, Inductive, PTL

\* With the lock free, a marker has a row, or a named mishap.
THEOREM MarkersAreBacked == Spec => []ServedBacked
<1>1. IInv => ServedBacked
  BY DEF IInv, MarkOwned, Owes, ServedBacked
<1>. QED  BY <1>1, Inductive, PTL

====================================================================================
