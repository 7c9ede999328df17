--------------------------------- MODULE Secrets ---------------------------------
(***************************************************************************)
(* Placeholder secrets: their rows and ciphertext (model/model.py), the    *)
(* routes that mint, unlock, renew and revoke them (server/api/secrets.py),*)
(* the watcher's sweep (server/watcher.py), and the plaintext cache with   *)
(* its window (secretcache.py).                                            *)
(*                                                                         *)
(* The store's lock orders the mutations; the reads before it, the pending *)
(* list, the operators' sockets, the flush and a reload of the settings do *)
(* not take it.  A row's id is free for another once it is the highest.    *)
(*                                                                         *)
(* A value is known by the mint it was supplied to.  A name stands for its *)
(* backend ref as well: both are unique among the rows.                    *)
(***************************************************************************)
EXTENDS Naturals

CONSTANTS
  Names,        \* the placeholders' names
  Probe,        \* the name of the row the daemon seeds for itself
  MaxId,        \* bound: rows at once
  Calls,        \* requests that may be in flight at once
  Nobody,       \* holder of a free lock
  MaxMints,     \* bound: rows ever inserted
  MaxOperators, \* bound: sockets at once
  MaxEvents     \* bound: lapses, reloads, failures and requests that break off

Ids == 1..MaxId
Values == 1..MaxMints

NoName == "none"

ASSUME SecretsAssumption ==
  /\ Nobody \notin Calls /\ NoName \notin Names /\ Probe \in Names
  /\ MaxId \in Nat /\ MaxMints \in Nat /\ MaxOperators \in Nat /\ MaxEvents \in Nat

VARIABLES
  row,       \* the placeholder rows
  blob,      \* of each row: the value its ciphertext holds, 0 for none
  cache,     \* of each name: the plaintext held and how
  served,    \* of each id: the marker of ciphertext that went out, and how
  operators, \* operator sockets connected
  window,    \* the setting: "dated" or, for zero, "session"
  lock,      \* the store's lock
  call,      \* the requests in flight
  seen,      \* ciphertext that clients hold: the row's id and the value
  minted,    \* rows inserted so far
  misfired,  \* names whose plaintext a deletion left: it was aimed at another row,
             \* or broke off before the forget, or was the probe seed's rollback
  haunted,   \* ids whose marker outlived the row: it came after the deletion, or the
             \* deletion broke off before the forget
  bare,      \* ids of rows left without ciphertext: the write or its undo broke
             \* off, or nobody could receive the probe's
  events

rows == <<row, blob>>
plain == <<cache, served>>
session == <<operators, window>>
ghosts == <<misfired, haunted, bare>>
vars == <<rows, plain, session, lock, call, seen, minted, ghosts, events>>

RowOf(n, m) == [name |-> n, mint |-> m, expired |-> FALSE]
NoRow == RowOf(NoName, 0)
Cold == [value |-> 0, kind |-> "none"]

\* A request that has read row r of id i, or the rows of ids.
CallOf(op, pc, i, r, ids) ==
  [op |-> op, pc |-> pc, id |-> i, row |-> r, ids |-> ids, prior |-> FALSE]
IdleCall == CallOf("none", "idle", 0, NoRow, {})

LiveIds == {i \in Ids : row[i] # NoRow}
Holds(n) == {i \in LiveIds : row[i].name = n}
At(c, pc) == call[c].pc = pc
GoTo(c, pc) == call' = [call EXCEPT ![c].pc = pc]
Aim(c, pc, i, r) == call' = [call EXCEPT ![c] = [@ EXCEPT !.pc = pc, !.id = i, !.row = r]]
End(c) == call' = [call EXCEPT ![c] = IdleCall]
Event == events < MaxEvents /\ events' = events + 1

(***************************************************************************)
(* The cache.                                                              *)
(***************************************************************************)
\* A dated entry holds until its deadline, a session-held one while some
\* operator is connected.
Alive(kind) == kind = "dated" \/ (kind = "session" /\ operators > 0)

Store(n, v) == cache' = [cache EXCEPT ![n] = [value |-> v, kind |-> window]]

\* A faulty variant: the flush looks at deadlines and not at the session.
FlushDated ==
  /\ cache' = [n \in Names |-> IF cache[n].kind = "late" THEN Cold ELSE cache[n]]
  /\ served' = [i \in Ids |-> IF served[i] = "late" THEN "none" ELSE served[i]]
  /\ UNCHANGED <<rows, session, lock, call, seen, minted, ghosts, events>>

\* Drop what no longer holds; a read drops the entry it finds dead.
FlushExpired ==
  /\ cache' = [n \in Names |-> IF Alive(cache[n].kind) THEN cache[n] ELSE Cold]
  /\ served' = [i \in Ids |-> IF Alive(served[i]) THEN served[i] ELSE "none"]
  /\ UNCHANGED <<rows, session, lock, call, seen, minted, ghosts, events>>

ReadDead(n) ==
  /\ cache[n] # Cold /\ ~Alive(cache[n].kind)
  /\ cache' = [cache EXCEPT ![n] = Cold]
  /\ UNCHANGED <<rows, served, session, lock, call, seen, minted, ghosts, events>>

OperatorConnects ==
  /\ operators < MaxOperators
  /\ operators' = operators + 1
  /\ UNCHANGED <<rows, plain, window, lock, call, seen, minted, ghosts, events>>

\* A faulty variant: a socket that was never counted is counted off.
OperatorDisconnectsTwice ==
  /\ operators' = operators - 1
  /\ UNCHANGED <<rows, plain, window, lock, call, seen, minted, ghosts, events>>

\* The last one's going drops the session-held entries.
OperatorDisconnects ==
  /\ operators > 0
  /\ operators' = operators - 1
  /\ IF operators = 1
       THEN /\ cache' = [n \in Names |-> IF cache[n].kind = "session" THEN Cold ELSE cache[n]]
            /\ served' = [i \in Ids |-> IF served[i] = "session" THEN "none" ELSE served[i]]
       ELSE UNCHANGED plain
  /\ UNCHANGED <<rows, window, lock, call, seen, minted, ghosts, events>>

\* A reload of the settings clears the cache and may change the window.
Reload ==
  /\ Event
  /\ window' \in {"dated", "session"}
  /\ cache' = [n \in Names |-> Cold]
  /\ served' = [i \in Ids |-> "none"]
  /\ UNCHANGED <<rows, operators, lock, call, seen, minted, ghosts>>

\* A deadline passes.
Lapse ==
  /\ Event
  /\ \/ \E n \in Names :
          /\ cache[n].kind = "dated"
          /\ cache' = [cache EXCEPT ![n].kind = "late"]
          /\ UNCHANGED <<rows, served>>
     \/ \E i \in Ids :
          /\ served[i] = "dated"
          /\ served' = [served EXCEPT ![i] = "late"]
          /\ UNCHANGED <<rows, cache>>
     \/ \E i \in LiveIds :
          /\ row' = [row EXCEPT ![i].expired = TRUE]
          /\ UNCHANGED <<blob, plain>>
  /\ UNCHANGED <<session, lock, call, seen, minted, ghosts>>

(***************************************************************************)
(* The requests.  Each reads first and takes the lock after.               *)
(***************************************************************************)
Begin(c, op, pc, i, r) ==
  /\ At(c, "idle")
  /\ call' = [call EXCEPT ![c] = CallOf(op, pc, i, r, {})]
  /\ UNCHANGED <<rows, plain, session, lock, seen, minted, ghosts, events>>

BeginMint(c, n) ==
  /\ Holds(n) = {} /\ minted < MaxMints
  /\ Begin(c, "mint", "lock", 0, RowOf(n, 0))

BeginRevoke(c, i) == i \in LiveIds /\ Begin(c, "revoke", "lock", i, row[i])

\* A client posts the value that some ciphertext it fetched holds.
BeginUnlock(c, s) == s \in seen /\ Begin(c, "unlock", "lock", s[1], RowOf(NoName, s[2]))

\* The sweep lists the expired rows before it waits for the lock.
BeginSweep(c) ==
  LET expired == {i \in LiveIds : row[i].expired} IN
  /\ At(c, "idle") /\ \A d \in Calls : call[d].op # "sweep"
  /\ expired # {}
  /\ call' = [call EXCEPT ![c] =
                CallOf("sweep", "lock", 0, NoRow, {<<i, row[i]>> : i \in expired})]
  /\ UNCHANGED <<rows, plain, session, lock, seen, minted, ghosts, events>>

TakeLock(c) ==
  /\ At(c, "lock") /\ lock = Nobody
  /\ lock' = c
  /\ GoTo(c, CASE call[c].op = "mint" /\ call[c].id = 0 -> "insert"
               [] call[c].op = "unlock" -> "validate"
               [] call[c].op = "sweep" -> "retire"
               [] OTHER -> "delete")
  /\ UNCHANGED <<rows, plain, session, seen, minted, ghosts, events>>

(***************************************************************************)
(* Mint: the row, its ciphertext, the plaintext; then, outside the lock,   *)
(* the interceptor, whose failure takes all of it back.                    *)
(***************************************************************************)
NextId(i) == (\A j \in LiveIds : j < i) /\ (i = 1 \/ i - 1 \in LiveIds)

\* Another mint may have taken the name; or a bound is met.
MintRefused(c) ==
  /\ At(c, "insert")
  /\ Holds(call[c].row.name) # {} \/ minted = MaxMints \/ ~\E i \in Ids : NextId(i)
  /\ lock' = Nobody /\ End(c)
  /\ UNCHANGED <<rows, plain, session, seen, minted, ghosts, events>>

MintInsert(c) ==
  LET n == call[c].row.name
      r == RowOf(n, minted + 1) IN
  /\ At(c, "insert") /\ Holds(n) = {} /\ minted < MaxMints
  /\ minted' = minted + 1
  /\ \E i \in Ids :
       /\ NextId(i)
       /\ row' = [row EXCEPT ![i] = r]
       /\ Aim(c, "encrypt", i, r)
  /\ misfired' = misfired \ {n} /\ UNCHANGED <<haunted, bare>>
  /\ UNCHANGED <<blob, plain, session, lock, seen, events>>

\* A faulty variant: the row of a refused value stands.
MintEncryptLeavesRow(c) ==
  LET i == call[c].id IN
  /\ At(c, "encrypt")
  /\ \/ /\ blob' = [blob EXCEPT ![i] = call[c].row.mint]
        /\ Store(call[c].row.name, call[c].row.mint)
        /\ GoTo(c, "arm")
        /\ UNCHANGED events
     \/ Event /\ End(c) /\ UNCHANGED <<blob, cache>>
  /\ lock' = Nobody
  /\ UNCHANGED <<row, served, session, seen, minted, ghosts>>

\* A key that cannot receive the value, or an OSError, deletes the row under the
\* same lock.  What the handler does not catch is in Breaks.
MintEncrypt(c) ==
  LET i == call[c].id IN
  /\ At(c, "encrypt")
  /\ \/ /\ blob' = [blob EXCEPT ![i] = call[c].row.mint]
        /\ Store(call[c].row.name, call[c].row.mint)
        /\ lock' = Nobody
        /\ GoTo(c, "arm")
        /\ UNCHANGED events
     \/ Event /\ GoTo(c, "delete") /\ UNCHANGED <<blob, cache, lock>>
  /\ UNCHANGED <<row, served, session, seen, minted, ghosts>>

\* The interceptor arms, or the mint waits for the lock to undo itself.
MintArm(c) ==
  /\ At(c, "arm")
  /\ \/ End(c) /\ UNCHANGED events
     \/ Event /\ GoTo(c, "lock")
  /\ UNCHANGED <<rows, plain, session, lock, seen, minted, ghosts>>

(***************************************************************************)
(* Deletion by id, and then the plaintext of the row the request had read  *)
(* and the marker: the end of a revoke, of a failed mint, of an expiry.    *)
(***************************************************************************)
Pick(c, e) ==
  call' = [call EXCEPT ![c] =
    [@ EXCEPT !.pc = "delete", !.id = e[1], !.row = e[2], !.ids = call[c].ids \ {e}]]

SweepNext(c) ==
  /\ At(c, "retire")
  /\ \/ /\ call[c].ids = {}
        /\ lock' = Nobody /\ End(c)
     \/ \E e \in call[c].ids :
          /\ Pick(c, e)
          /\ UNCHANGED lock
  /\ UNCHANGED <<rows, plain, session, seen, minted, ghosts, events>>

Delete(c) ==
  LET i == call[c].id IN
  /\ At(c, "delete")
  /\ row' = [row EXCEPT ![i] = NoRow]
  /\ blob' = [blob EXCEPT ![i] = 0]
  /\ misfired' = IF row[i].mint # call[c].row.mint
                   THEN misfired \cup ({row[i].name} \cap Names) ELSE misfired
  /\ bare' = bare \ {i}
  /\ GoTo(c, "forget")
  /\ UNCHANGED <<plain, session, lock, seen, minted, haunted, events>>

\* A faulty variant: the marker goes and the plaintext stays.
ForgetMarker(c) ==
  /\ At(c, "forget")
  /\ served' = [served EXCEPT ![call[c].id] = "none"]
  /\ haunted' = haunted \ {call[c].id} /\ UNCHANGED <<misfired, bare>>
  /\ IF call[c].op = "sweep"
       THEN GoTo(c, "retire") /\ UNCHANGED lock
       ELSE lock' = Nobody /\ End(c)
  /\ UNCHANGED <<rows, cache, session, seen, minted, events>>

\* A faulty variant: the plaintext goes and the marker stays.
ForgetPlaintext(c) ==
  /\ At(c, "forget")
  /\ cache' = [cache EXCEPT ![call[c].row.name] = Cold]
  /\ IF call[c].op = "sweep"
       THEN GoTo(c, "retire") /\ UNCHANGED lock
       ELSE lock' = Nobody /\ End(c)
  /\ UNCHANGED <<rows, served, session, seen, minted, ghosts, events>>

Forget(c) ==
  /\ At(c, "forget")
  /\ cache' = [cache EXCEPT ![call[c].row.name] = Cold]
  /\ served' = [served EXCEPT ![call[c].id] = "none"]
  /\ haunted' = haunted \ {call[c].id} /\ UNCHANGED <<misfired, bare>>
  /\ IF call[c].op = "sweep"
       THEN GoTo(c, "retire") /\ UNCHANGED lock
       ELSE lock' = Nobody /\ End(c)
  /\ UNCHANGED <<rows, session, seen, minted, events>>

(***************************************************************************)
(* The pending list, which takes no lock: the rows are listed, marked as   *)
(* served, and then each row's ciphertext is read.                         *)
(***************************************************************************)
PendingList(c) ==
  /\ At(c, "idle") /\ LiveIds # {}
  /\ call' = [call EXCEPT ![c] =
                CallOf("pending", "mark", 0, NoRow, {<<i, row[i]>> : i \in LiveIds})]
  /\ UNCHANGED <<rows, plain, session, lock, seen, minted, ghosts, events>>

PendingMark(c) ==
  LET listed == {e[1] : e \in call[c].ids} IN
  /\ At(c, "mark")
  /\ served' = [i \in Ids |-> IF i \in listed THEN window ELSE served[i]]
  /\ haunted' = haunted \cup {e[1] : e \in {f \in call[c].ids : row[f[1]].mint # f[2].mint}}
  /\ UNCHANGED <<misfired, bare>>
  /\ GoTo(c, "view")
  /\ UNCHANGED <<rows, cache, session, lock, seen, minted, events>>

PendingView(c) ==
  /\ At(c, "view")
  /\ seen' = seen \cup {<<e[1], blob[e[1]]>> : e \in {f \in call[c].ids : blob[f[1]] # 0}}
  /\ End(c)
  /\ UNCHANGED <<rows, plain, session, lock, minted, ghosts, events>>

(***************************************************************************)
(* Unlock: the whole of it under the lock.                                 *)
(***************************************************************************)
\* A faulty variant: the refusal keeps the lock.
UnlockRefusedLocked(c) ==
  LET i == call[c].id IN
  /\ At(c, "validate")
  /\ i \notin LiveIds \/ ~Alive(served[i])
  /\ served' = IF i \in LiveIds THEN [served EXCEPT ![i] = "none"] ELSE served
  /\ End(c)
  /\ UNCHANGED <<rows, cache, session, lock, seen, minted, ghosts, events>>

UnlockRefused(c) ==
  LET i == call[c].id IN
  /\ At(c, "validate")
  /\ i \notin LiveIds \/ ~Alive(served[i])
  /\ served' = IF i \in LiveIds THEN [served EXCEPT ![i] = "none"] ELSE served
  /\ lock' = Nobody /\ End(c)
  /\ UNCHANGED <<rows, cache, session, seen, minted, ghosts, events>>

UnlockStore(c) ==
  LET i == call[c].id IN
  /\ At(c, "validate")
  /\ i \in LiveIds /\ Alive(served[i])
  /\ Store(row[i].name, call[c].row.mint)
  /\ GoTo(c, "reencrypt")
  /\ UNCHANGED <<rows, served, session, lock, seen, minted, ghosts, events>>

\* The ciphertext is written anew, unless nobody can receive it or it fails.
UnlockReencrypt(c) ==
  LET i == call[c].id IN
  /\ At(c, "reencrypt")
  /\ \/ blob' = [blob EXCEPT ![i] = call[c].row.mint]
     \/ UNCHANGED blob
  /\ lock' = Nobody /\ End(c)
  /\ UNCHANGED <<row, plain, session, seen, minted, ghosts, events>>

(***************************************************************************)
(* Renew, which takes no lock.                                             *)
(***************************************************************************)
RenewRead(c, i) ==
  /\ At(c, "idle") /\ i \in LiveIds
  /\ call' = [call EXCEPT ![c] =
                [CallOf("renew", "extend", i, NoRow, {}) EXCEPT !.prior = row[i].expired]]
  /\ UNCHANGED <<rows, plain, session, lock, seen, minted, ghosts, events>>

SetExpired(i, e) ==
  row' = IF i \in LiveIds THEN [row EXCEPT ![i].expired = e] ELSE row

RenewExtend(c) ==
  LET i == call[c].id IN
  /\ At(c, "extend")
  /\ SetExpired(i, FALSE)
  /\ IF i \in LiveIds THEN GoTo(c, "rearm") ELSE End(c)
  /\ UNCHANGED <<blob, plain, session, lock, seen, minted, ghosts, events>>

\* The interceptor arms, or the deadline that was read comes back.
RenewArm(c) ==
  /\ At(c, "rearm")
  /\ \/ UNCHANGED <<row, events>>
     \/ Event /\ SetExpired(call[c].id, call[c].prior)
  /\ End(c)
  /\ UNCHANGED <<blob, plain, session, lock, seen, minted, ghosts>>

(***************************************************************************)
(* A request breaks off where it stands: the database refuses or loses a   *)
(* transaction and no handler catches that, or the request is cancelled at *)
(* an await.  The lock goes with it, and nothing is undone.                *)
(***************************************************************************)
Breaks(c) ==
  LET q == call[c]
      i == q.id IN
  /\ ~At(c, "idle") /\ Event
  /\ \/ UNCHANGED blob
     \/ At(c, "encrypt") /\ blob' = [blob EXCEPT ![i] = q.row.mint]
  /\ bare' = IF q.pc \in {"encrypt", "delete"} /\ i \in LiveIds /\ blob'[i] = 0
               THEN bare \cup {i} ELSE bare
  /\ misfired' = IF At(c, "forget") THEN misfired \cup {q.row.name} ELSE misfired
  /\ haunted' = IF At(c, "forget") THEN haunted \cup {i} ELSE haunted
  /\ lock' = IF lock = c THEN Nobody ELSE lock
  /\ End(c)
  /\ UNCHANGED <<row, plain, session, seen, minted>>

Step(c) ==
  \/ TakeLock(c) \/ MintRefused(c) \/ MintInsert(c) \/ MintEncrypt(c) \/ MintArm(c)
  \/ SweepNext(c) \/ Delete(c) \/ Forget(c)
  \/ PendingMark(c) \/ PendingView(c)
  \/ UnlockRefused(c) \/ UnlockStore(c) \/ UnlockReencrypt(c)
  \/ RenewExtend(c) \/ RenewArm(c)

Request(c) ==
  \/ \E n \in Names : BeginMint(c, n)
  \/ \E i \in Ids : BeginRevoke(c, i) \/ RenewRead(c, i)
  \/ \E s \in seen : BeginUnlock(c, s)
  \/ BeginSweep(c) \/ PendingList(c)

\* An empty store, the probe's row revoked.
Unseeded ==
  /\ row = [i \in Ids |-> NoRow] /\ blob = [i \in Ids |-> 0]
  /\ cache = [n \in Names |-> Cold]
  /\ minted = 0 /\ misfired = {} /\ bare = {}

\* The daemon's first start stores the plaintext of the probe's row and then
\* writes its ciphertext, if anybody can receive it; the rollback of a failed
\* seed takes the row and not the plaintext.
Seeded ==
  /\ 1 \in Ids /\ 1 \in Values /\ minted = 1
  /\ cache = [n \in Names |-> IF n = Probe THEN [value |-> 1, kind |-> window] ELSE Cold]
  /\ \/ /\ row = [i \in Ids |-> IF i = 1 THEN RowOf(Probe, 1) ELSE NoRow]
        /\ \E v \in {0, 1} :
             /\ blob = [i \in Ids |-> IF i = 1 THEN v ELSE 0]
             /\ bare = IF v = 0 THEN {1} ELSE {}
        /\ misfired = {}
     \/ /\ row = [i \in Ids |-> NoRow] /\ blob = [i \in Ids |-> 0]
        /\ misfired = {Probe} /\ bare = {}

Init ==
  /\ operators = 0 /\ window \in {"dated", "session"}
  /\ Unseeded \/ Seeded
  /\ served = [i \in Ids |-> "none"]
  /\ lock = Nobody /\ call = [c \in Calls |-> IdleCall]
  /\ seen = {} /\ haunted = {} /\ events = 0

Next ==
  \/ \E c \in Calls : Request(c) \/ Step(c) \/ Breaks(c)
  \/ FlushExpired \/ \E n \in Names : ReadDead(n)
  \/ OperatorConnects \/ OperatorDisconnects \/ Reload \/ Lapse

Spec == Init /\ [][Next]_vars

\* The loop runs every ready task; the watcher's loop flushes for ever.
FairSpec == Spec /\ WF_vars(FlushExpired) /\ \A c \in Calls : WF_vars(Step(c))

-----------------------------------------------------------------------------
(***************************************************************************)
(* Properties.                                                             *)
(***************************************************************************)
Kinds == {"none", "dated", "session", "late"}
RowType == [name : Names \cup {NoName}, mint : 0..MaxMints, expired : BOOLEAN]
PcNames ==
  {"idle", "lock", "insert", "encrypt", "arm", "retire", "delete", "forget",
   "mark", "view", "validate", "reencrypt", "extend", "rearm"}
CallType ==
  [op : {"none", "mint", "revoke", "unlock", "sweep", "pending", "renew"},
   pc : PcNames,
   id : 0..MaxId, row : RowType, ids : SUBSET (Ids \X RowType), prior : BOOLEAN]

\* Every variable keeps its type.
TypeOK ==
  /\ row \in [Ids -> RowType] /\ blob \in [Ids -> 0..MaxMints]
  /\ cache \in [Names -> [value : 0..MaxMints, kind : Kinds]]
  /\ served \in [Ids -> Kinds]
  /\ operators \in 0..MaxOperators /\ window \in {"dated", "session"}
  /\ lock \in Calls \cup {Nobody}
  /\ call \in [Calls -> CallType]
  /\ seen \subseteq Ids \X Values /\ minted \in 0..MaxMints
  /\ misfired \subseteq Names /\ haunted \subseteq Ids /\ bare \subseteq Ids
  /\ events \in 0..MaxEvents

\* Whenever the store's lock is free, plaintext in memory belongs to a name whose
\* row exists: no revoke, expiry, failed mint or unlock leaves a value behind,
\* whatever was reloaded, flushed or disconnected meanwhile.  The exceptions are
\* named by misfired: a deletion that hit a row which had inherited the id, one
\* that broke off before its forget, and the rollback of the probe's seed.
CacheBacked ==
  lock = Nobody =>
    \A n \in Names : cache[n] # Cold => Holds(n) # {} \/ n \in misfired

\* Whenever the store's lock is free, every row has its ciphertext, whichever
\* refusal, revoke, sweep or unlock came between, so that no placeholder swaps
\* empty; and ciphertext never outlives its row.  The exceptions are named by bare:
\* the handler of a mint undoes NotEncryptableError and OSError alone, so that a
\* write or an undo which the database refuses leaves the row as it is, and the
\* probe's row may be seeded before anybody can receive it.
RowWhole ==
  /\ lock = Nobody => \A i \in LiveIds : blob[i] # 0 \/ i \in bare
  /\ \A i \in Ids : blob[i] # 0 => i \in LiveIds

\* Whenever the store's lock is free, a marker of ciphertext that went out belongs
\* to a row: one left behind would admit an unlock of a row that inherits the id.
\* The exceptions are named by haunted: a pending list that read its rows before a
\* deletion, and a deletion that broke off before its forget.
ServedBacked ==
  lock = Nobody =>
    \A i \in Ids : served[i] # "none" => i \in LiveIds \/ i \in haunted

\* The lock always comes back, whatever failed or was refused under it.
LockReturns == []<>(lock = Nobody)

\* Plaintext that no longer holds leaves the memory without anyone reading it,
\* the session-held of an unlock over HTTP alone as well as the dated: or it comes
\* to hold again.
WindowCloses == []<>(\A n \in Names : cache[n] = Cold \/ Alive(cache[n].kind))

=================================================================================
