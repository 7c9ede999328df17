---------------------------- MODULE EnforcementProofs ----------------------------
(***************************************************************************)
(* Theorems about Enforcement, for any names, addresses, connections and   *)
(* bounds.                                                                 *)
(*                                                                         *)
(* Each property rests on an invariant about the tasks at work: what they  *)
(* name (TypeInv), that one pin at most will answer a packet (HeldInv),    *)
(* that whoever left a name's element on a shared address is about to take *)
(* it off (SharedInv), and what a revoke has yet to visit (RevokeInv).     *)
(***************************************************************************)
EXTENDS Enforcement, FiniteSetTheorems, SequenceTheorems, TLAPS

(***************************************************************************)
(* The invariant.                                                          *)
(***************************************************************************)

\* Each name of a sequence stands in it once.
Once(s) == \A i, j \in DOMAIN s : s[i] = s[j] => i = j

\* An address lists each of its names once.
LiveInv ==
  /\ live \in [Addrs -> Seq(Names)]
  /\ \A a \in Addrs : Once(live[a])

PinPcs == {"start", "add", "check", "withdraw", "restore", "own"}
PinType ==
  [kind : {"allow", "reject"}, dest : Dests, flow : Flows \cup {NoFlow},
   addr : Addrs, waits : BOOLEAN, pc : PinPcs]

\* A refusal of a name comes from a connection, whose port the pin falls back
\* to; only a verdict on a name is withdrawn.
SoundPin(p) ==
  /\ p.kind = "reject" /\ Named(p.dest) => p.flow \in Flows
  /\ p.pc \in {"withdraw", "own"} => Named(p.dest)
  /\ p.pc = "own" => p.kind = "reject"
  /\ p.waits => p.flow \in Flows

PinsInv == \A p \in pins : p \in PinType /\ SoundPin(p)

\* A verdict at work names its destination.
FlowsInv ==
  /\ cache \in [Flows -> [says : {"none", "allow", "deny"}, dest : Dests \cup {NoFlow}]]
  /\ held \in [Flows ->
       [pc : {"idle", "held", "ruled", "answered", "pinning"},
        dest : Dests \cup {NoFlow}, says : {"none", "allow", "deny"}, lasts : BOOLEAN]]
  /\ open \in [Flows -> Dests \cup {NoFlow, "once"}]
  /\ \A f \in Flows :
       /\ cache[f] # NoVerdict => cache[f].dest \in Dests
       /\ held[f].pc # "idle" => held[f].dest \in Dests

QueryInv ==
  /\ query \in [Names ->
       [pc : {"idle", "asked", "retract", "restore", "learn"}, learn : BOOLEAN,
        addr : Addrs \cup {NoFlow}]]
  /\ \A n \in Names :
       query[n].pc \in {"retract", "restore", "learn"} => query[n].addr \in Addrs

\* A revoke that has answered is of no destination.
RevokeType ==
  /\ revoke \in
       [pc : {"idle", "flipped", "flush", "targets", "clear", "drop"},
        dest : Dests \cup {NoFlow}, targets : SUBSET Addrs, at : Addrs \cup {NoFlow}]
  /\ revoke.pc = "idle" <=> revoke.dest = NoFlow

SetsInv ==
  /\ allows \in [Addrs -> SUBSET Dests] /\ rejects \in [Addrs -> SUBSET Dests]
  /\ resets \subseteq Flows
  /\ swap \in [on : BOOLEAN, allows : [Addrs -> SUBSET Dests],
                rejects : [Addrs -> SUBSET Dests], resets : SUBSET Flows]

RulingInv ==
  /\ row \in [Dests -> {"none", "allowed", "denied"}]
  /\ memAllow \subseteq Dests /\ memDeny \subseteq Dests
  /\ revoked \subseteq Dests /\ carried \subseteq Addrs
  /\ strays \subseteq Dests /\ events \in 0..MaxEvents

TypeInv ==
  /\ LiveInv /\ PinsInv /\ FlowsInv /\ QueryInv /\ RevokeType
  /\ SetsInv /\ RulingInv

\* A packet is answered by one pin at most.
HeldInv ==
  /\ HeldIsOwned
  /\ \A p, q \in pins : p.waits /\ q.waits /\ p.flow = q.flow => p = q

\* A pin that looks again, or a resolution that retracts, will empty the address.
Mended(a) ==
  \/ \E p \in pins :
       p.addr = a /\ p.pc \in {"check", "withdraw"} /\ Named(p.dest)
  \/ \E n \in Names : query[n].addr = a /\ query[n].pc = "retract"

SharedInv ==
  \A a \in Addrs :
    Shared(a) /\ a \notin carried /\ (allows[a] \cup rejects[a]) \cap Names # {}
      => Mended(a)

\* The addresses with an element of a destination, and with a connection.
Elements(d) == {a \in Addrs : d \in allows[a] \cup rejects[a]}
Opened(d) == {a \in Addrs : \E f \in Flows : AddrOf[f] = a /\ open[f] = d}

\* A revoked destination of which nothing strayed: its own revoke has yet to
\* visit what is left of it.
RevokeInv ==
  \A d \in revoked \ strays :
    /\ d \in memAllow \cup memDeny => revoke.dest = d /\ revoke.pc = "flipped"
    /\ revoke.dest # d => Elements(d) = {} /\ Opened(d) = {}
    /\ revoke.dest = d /\ revoke.pc \in {"clear", "drop"} =>
         /\ Elements(d) \subseteq revoke.targets
         /\ Opened(d) \subseteq revoke.targets \cup
              (IF revoke.pc = "drop" THEN {revoke.at} ELSE {})

IInv == TypeInv /\ HeldInv /\ SharedInv /\ RevokeInv
-------------------------------------------------------------------------------
(***************************************************************************)
(* The naming memory.                                                      *)
(***************************************************************************)

\* The members of a sequence.
Members(s) == {s[i] : i \in DOMAIN s}

\* What Without leaves of a sequence where each name stands once: every other name.
LEMMA WithoutLeaves ==
  ASSUME NEW S, NEW s \in Seq(S), Once(s), NEW n
  PROVE  /\ Without(s, n) \in Seq(S)
         /\ Once(Without(s, n))
         /\ Members(Without(s, n)) = Members(s) \ {n}
<1> DEFINE Goal(t) == /\ t \in Seq(S) /\ Once(t)
                      /\ Members(t) = Members(s) \ {n}
<1>1. CASE \A k \in 1..Len(s) : s[k] # n
  <2>1. Without(s, n) = s
    BY <1>1 DEF Without, RemoveFirst
  <2> QED
    BY <1>1, <2>1 DEF Members
<1>2. ASSUME NEW k \in 1..Len(s), s[k] = n
      PROVE  Goal(Without(s, n))
  <2> DEFINE t == [i \in 1..Len(s) - 1 |-> IF i < k THEN s[i] ELSE s[i + 1]]
  <2>1. {i \in 1..Len(s) : s[i] = n} = {k}
    BY <1>2 DEF Once
  <2>2. SelectInSeq(s, LAMBDA v : v = n) = k
    BY <1>2, <2>1 DEF SelectInSeq, Min
  <2>3. Without(s, n) = SubSeq(s, 1, k - 1) \o SubSeq(s, k + 1, Len(s))
    BY <1>2, <2>2 DEF Without, RemoveFirst, RemoveAt
  <2>4. Without(s, n) = t
    <3> DEFINE l == SubSeq(s, 1, k - 1)
               r == SubSeq(s, k + 1, Len(s))
    <3>1. /\ l \in Seq(S) /\ Len(l) = k - 1
          /\ \A i \in 1..k - 1 : l[i] = s[i]
      BY <1>2
    <3>2. /\ r \in Seq(S) /\ Len(r) = Len(s) - k
          /\ \A i \in 1..Len(s) - k : r[i] = s[i + k]
      BY <1>2
    <3> HIDE DEF l, r
    <3>3. /\ l \o r \in Seq(S) /\ Len(l \o r) = Len(s) - 1
          /\ \A i \in 1..Len(s) - 1 :
               (l \o r)[i] = IF i <= k - 1 THEN l[i] ELSE r[i - (k - 1)]
      <4>1. Len(l) + Len(r) = Len(s) - 1
        BY <1>2, <3>1, <3>2
      <4>2. /\ l \o r \in Seq(S) /\ Len(l \o r) = Len(l) + Len(r)
            /\ \A i \in 1..Len(l) + Len(r) :
                 (l \o r)[i] = IF i <= Len(l) THEN l[i] ELSE r[i - Len(l)]
        <5>1. l \in Seq(S) /\ r \in Seq(S)
          BY <3>1, <3>2
        <5> QED
          BY <5>1, ConcatProperties
      <4>3. Len(l) = k - 1
        BY <3>1
      <4> QED
        BY <4>1, <4>2, <4>3
    <3>4. \A i \in 1..Len(s) - 1 : (l \o r)[i] = t[i]
      BY <1>2, <3>1, <3>2, <3>3
    <3>5. t \in Seq(S) /\ Len(t) = Len(s) - 1
      BY <1>2
    <3>6. l \o r = t
      <4> HIDE DEF t
      <4> QED
        BY <3>3, <3>4, <3>5, SeqEqual
    <3> QED
      BY <2>3, <3>6 DEF l, r
  <2>5. t \in Seq(S) /\ Len(t) = Len(s) - 1
    BY <1>2
  <2>6. Once(t)
    BY <2>5, <1>2 DEF Once
  <2>7. Members(t) = Members(s) \ {n}
    <3>1. \A i \in DOMAIN t : t[i] \in Members(s) \ {n}
      BY <1>2, <2>5 DEF Members, Once
    <3>2. \A x \in Members(s) \ {n} : \E i \in DOMAIN t : t[i] = x
      <4> SUFFICES ASSUME NEW i \in 1..Len(s), s[i] # n
                   PROVE  \E j \in DOMAIN t : t[j] = s[i]
        BY DEF Members
      <4>1. CASE i < k
        BY <1>2, <2>5, <4>1
      <4>2. CASE i > k
        <5>1. i - 1 \in DOMAIN t /\ t[i - 1] = s[i]
          BY <1>2, <2>5, <4>2
        <5> QED
          BY <5>1
      <4> QED
        BY <1>2, <4>1, <4>2
    <3> QED
      BY <3>1, <3>2 DEF Members
  <2> HIDE DEF t
  <2> QED
    BY <2>4, <2>5, <2>6, <2>7
<1> QED
  BY <1>1, <1>2
-------------------------------------------------------------------------------
(***************************************************************************)
(* What each variable is changed by.                                       *)
(***************************************************************************)

\* What changes the naming memory.
LEMMA LiveFootprint ==
  [Next]_vars =>
    \/ UNCHANGED live
    \/ \E a \in Addrs : NameLapses(a)
    \/ \E n \in Names, a \in Addrs : Remember(n, a)
    \/ RevokeTargets
  BY DEF vars, memory, sets, tasks, ghosts, Next, PinStep, PinStarts, PinAdds,
    PinChecks, PinWithdraws, PinRestores, PinOwnFlow, FlowStep, ChainAccepts,
    FlowCloses, CachedVerdict, SessionGate, Hold, Resolve, ApplyVerdict, Rule,
    QueryStep, Classify, NotLearnt, Retract, Restore, Learn, RevokeStep, RevokeFlip,
    RevokeForget, RevokeFlush, RevokeDrop, RevokeDone, RevokeClear, Snapshot,
    Install, Lapse, ElementLapses, ResetLapses, CacheLapses

\* What commits and revokes verdicts.
LEMMA RulingFootprint ==
  [Next]_vars =>
    \/ UNCHANGED <<row, revoked>>
    \/ \E f \in Flows, says \in {"allow", "deny"}, lasts \in BOOLEAN : Rule(f, says, lasts)
    \/ \E d \in Dests : RevokeFlip(d)
  BY DEF vars, memory, sets, tasks, ghosts, Next, PinStep, PinStarts, PinAdds,
    PinChecks, PinWithdraws, PinRestores, PinOwnFlow, FlowStep, ChainAccepts,
    FlowCloses, CachedVerdict, SessionGate, Hold, Resolve, ApplyVerdict, QueryStep,
    Classify, NotLearnt, Remember, Retract, Restore, Learn, RevokeStep,
    RevokeForget, RevokeFlush, RevokeTargets, RevokeDrop, RevokeDone, RevokeClear,
    Snapshot, Install, Lapse, NameLapses, ElementLapses, ResetLapses, CacheLapses

\* What the session learns and forgets.
LEMMA MemoryFootprint ==
  [Next]_vars =>
    \/ UNCHANGED memory
    \/ \E f \in Flows : Resolve(f)
    \/ RevokeForget
  BY DEF vars, memory, sets, tasks, ghosts, Next, PinStep, PinStarts, PinAdds,
    PinChecks, PinWithdraws, PinRestores, PinOwnFlow, FlowStep, ChainAccepts,
    FlowCloses, CachedVerdict, SessionGate, Hold, ApplyVerdict, Rule, QueryStep,
    Classify, NotLearnt, Remember, Retract, Restore, Learn, RevokeStep, RevokeFlip,
    RevokeFlush, RevokeTargets, RevokeDrop, RevokeDone, RevokeClear, Snapshot,
    Install, Lapse, NameLapses, ElementLapses, ResetLapses, CacheLapses

\* What changes the elements of addresses.
LEMMA ElementsFootprint ==
  [Next]_vars =>
    \/ UNCHANGED <<allows, rejects, carried>>
    \/ \E a \in Addrs : ElementLapses(a) \/ RevokeClear(a)
    \/ \E p \in pins : PinAdds(p) \/ PinWithdraws(p)
    \/ \E n \in Names : Retract(n)
    \/ Install
  BY DEF vars, memory, sets, tasks, ghosts, Next, PinStep, PinStarts, PinChecks,
    PinRestores, PinOwnFlow, FlowStep, ChainAccepts, FlowCloses, CachedVerdict,
    SessionGate, Hold, Resolve, ApplyVerdict, Rule, QueryStep, Classify, NotLearnt,
    Remember, Restore, Learn, RevokeStep, RevokeFlip, RevokeForget, RevokeFlush,
    RevokeTargets, RevokeDrop, RevokeDone, Snapshot, Lapse, NameLapses, ResetLapses,
    CacheLapses

\* What changes the elements of connections.
LEMMA ResetsFootprint ==
  [Next]_vars =>
    \/ UNCHANGED resets
    \/ \E f \in Flows : ResetLapses(f)
    \/ \E p \in pins : PinOwnFlow(p) \/ PinWithdraws(p)
    \/ \E n \in Names : Retract(n)
    \/ RevokeFlush \/ Install
  BY DEF vars, memory, sets, tasks, ghosts, Next, PinStep, PinStarts, PinAdds,
    PinChecks, PinRestores, FlowStep, ChainAccepts, FlowCloses, CachedVerdict,
    SessionGate, Hold, Resolve, ApplyVerdict, Rule, QueryStep, Classify, NotLearnt,
    Remember, Restore, Learn, RevokeStep, RevokeFlip, RevokeForget, RevokeTargets,
    RevokeDrop, RevokeDone, RevokeClear, Snapshot, Lapse, NameLapses, ElementLapses,
    CacheLapses

\* What the consumer's cache gains and loses.
LEMMA CacheFootprint ==
  [Next]_vars =>
    \/ UNCHANGED cache
    \/ \E f \in Flows : CacheLapses(f) \/ SessionGate(f) \/ ApplyVerdict(f)
  BY DEF vars, memory, sets, tasks, ghosts, Next, PinStep, PinStarts, PinAdds,
    PinChecks, PinWithdraws, PinRestores, PinOwnFlow, FlowStep, ChainAccepts,
    FlowCloses, CachedVerdict, Hold, Resolve, Rule, QueryStep, Classify, NotLearnt,
    Remember, Retract, Restore, Learn, RevokeStep, RevokeFlip, RevokeForget,
    RevokeFlush, RevokeTargets, RevokeDrop, RevokeDone, RevokeClear, Snapshot,
    Install, Lapse, NameLapses, ElementLapses, ResetLapses

\* What moves the decide tasks.
LEMMA HeldFootprint ==
  [Next]_vars =>
    \/ UNCHANGED held
    \/ \E p \in pins : Answered(p)
    \/ \E f \in Flows : Hold(f) \/ Resolve(f) \/ ApplyVerdict(f)
    \/ \E f \in Flows, says \in {"allow", "deny"}, lasts \in BOOLEAN : Rule(f, says, lasts)
  BY DEF vars, memory, sets, tasks, ghosts, Next, PinStep, PinStarts, PinAdds,
    PinChecks, PinWithdraws, PinRestores, PinOwnFlow, FlowStep, ChainAccepts,
    FlowCloses, CachedVerdict, SessionGate, QueryStep, Classify, NotLearnt,
    Remember, Retract, Restore, Learn, RevokeStep, RevokeFlip, RevokeForget,
    RevokeFlush, RevokeTargets, RevokeDrop, RevokeDone, RevokeClear, Snapshot,
    Install, Lapse, NameLapses, ElementLapses, ResetLapses, CacheLapses, Finish

\* What opens and closes connections.
LEMMA OpenFootprint ==
  [Next]_vars =>
    \/ UNCHANGED open
    \/ \E p \in pins : Answered(p)
    \/ \E f \in Flows : \/ ChainAccepts(f) \/ FlowCloses(f) \/ CachedVerdict(f)
                        \/ SessionGate(f) \/ ApplyVerdict(f)
    \/ RevokeDrop
  BY DEF vars, memory, sets, tasks, ghosts, Next, PinStep, PinStarts, PinAdds,
    PinChecks, PinWithdraws, PinRestores, PinOwnFlow, FlowStep, Hold, Resolve, Rule,
    QueryStep, Classify, NotLearnt, Remember, Retract, Restore, Learn, RevokeStep,
    RevokeFlip, RevokeForget, RevokeFlush, RevokeTargets, RevokeDone, RevokeClear,
    Snapshot, Install, Lapse, NameLapses, ElementLapses, ResetLapses, CacheLapses,
    Finish

\* What moves the pins.
LEMMA PinsFootprint ==
  [Next]_vars =>
    \/ UNCHANGED pins
    \/ \E p \in pins : PinStep(p)
    \/ \E f \in Flows : CachedVerdict(f) \/ SessionGate(f) \/ ApplyVerdict(f)
    \/ \E n \in Names : Restore(n) \/ Learn(n)
  BY DEF vars, memory, sets, tasks, ghosts, Next, FlowStep, ChainAccepts,
    FlowCloses, Hold, Resolve, Rule, QueryStep, Classify, NotLearnt, Remember,
    Retract, RevokeStep, RevokeFlip, RevokeForget, RevokeFlush, RevokeTargets,
    RevokeDrop, RevokeDone, RevokeClear, Snapshot, Install, Lapse, NameLapses,
    ElementLapses, ResetLapses, CacheLapses

\* What moves the forwarder's exchanges.
LEMMA QueryFootprint ==
  [Next]_vars =>
    \/ UNCHANGED query
    \/ \E n \in Names : QueryStep(n)
  BY DEF vars, memory, sets, tasks, ghosts, Next, PinStep, PinStarts, PinAdds,
    PinChecks, PinWithdraws, PinRestores, PinOwnFlow, FlowStep, ChainAccepts,
    FlowCloses, CachedVerdict, SessionGate, Hold, Resolve, ApplyVerdict, Rule,
    RevokeStep, RevokeFlip, RevokeForget, RevokeFlush, RevokeTargets, RevokeDrop,
    RevokeDone, RevokeClear, Snapshot, Install, Lapse, NameLapses, ElementLapses,
    ResetLapses, CacheLapses

\* What moves a revoke.
LEMMA RevokeFootprint ==
  [Next]_vars =>
    \/ UNCHANGED revoke
    \/ RevokeStep
  BY DEF vars, memory, sets, tasks, ghosts, Next, PinStep, PinStarts, PinAdds,
    PinChecks, PinWithdraws, PinRestores, PinOwnFlow, FlowStep, ChainAccepts,
    FlowCloses, CachedVerdict, SessionGate, Hold, Resolve, ApplyVerdict, Rule,
    QueryStep, Classify, NotLearnt, Remember, Retract, Restore, Learn, Snapshot,
    Install, Lapse, NameLapses, ElementLapses, ResetLapses, CacheLapses

\* What takes a snapshot of the table, and what brings it back.
LEMMA SwapFootprint ==
  [Next]_vars =>
    \/ UNCHANGED swap
    \/ Snapshot \/ Install
  BY DEF vars, memory, sets, tasks, ghosts, Next, PinStep, PinStarts, PinAdds,
    PinChecks, PinWithdraws, PinRestores, PinOwnFlow, FlowStep, ChainAccepts,
    FlowCloses, CachedVerdict, SessionGate, Hold, Resolve, ApplyVerdict, Rule,
    QueryStep, Classify, NotLearnt, Remember, Retract, Restore, Learn, RevokeStep,
    RevokeFlip, RevokeForget, RevokeFlush, RevokeTargets, RevokeDrop, RevokeDone,
    RevokeClear, Lapse, NameLapses, ElementLapses, ResetLapses, CacheLapses

\* What may leave something of a revoked verdict behind.
LEMMA StraysFootprint ==
  [Next]_vars =>
    \/ UNCHANGED strays
    \/ \E p \in pins : PinAdds(p) \/ Answered(p)
    \/ \E f \in Flows : CachedVerdict(f) \/ SessionGate(f) \/ Resolve(f)
    \/ \E f \in Flows, says \in {"allow", "deny"}, lasts \in BOOLEAN : Rule(f, says, lasts)
    \/ RevokeTargets \/ Install
  BY DEF vars, memory, sets, tasks, ghosts, Next, PinStep, PinStarts, PinChecks,
    PinWithdraws, PinRestores, PinOwnFlow, FlowStep, ChainAccepts, FlowCloses, Hold,
    ApplyVerdict, QueryStep, Classify, NotLearnt, Remember, Retract, Restore, Learn,
    RevokeStep, RevokeFlip, RevokeForget, RevokeFlush, RevokeDrop, RevokeDone,
    RevokeClear, Snapshot, Lapse, NameLapses, ElementLapses, ResetLapses,
    CacheLapses, Finish

\* Outside events are counted.
LEMMA EventsFootprint ==
  [Next]_vars =>
    \/ UNCHANGED events
    \/ Event
  BY DEF vars, memory, sets, tasks, ghosts, Next, PinStep, PinStarts, PinAdds,
    PinChecks, PinWithdraws, PinRestores, PinOwnFlow, FlowStep, ChainAccepts,
    FlowCloses, CachedVerdict, SessionGate, Hold, Resolve, ApplyVerdict, Rule,
    QueryStep, Classify, NotLearnt, Remember, Retract, Restore, Learn, RevokeStep,
    RevokeFlip, RevokeForget, RevokeFlush, RevokeTargets, RevokeDrop, RevokeDone,
    RevokeClear, Snapshot, Install, Lapse, NameLapses, ElementLapses, ResetLapses,
    CacheLapses

-------------------------------------------------------------------------------
(***************************************************************************)
(* Type correctness.                                                       *)
(***************************************************************************)

\* An address is named by a name that lives there, or by itself.
LEMMA HostForDest ==
  ASSUME LiveInv, NEW a \in Addrs
  PROVE  HostFor(a) \in Dests
<1>1. CASE live[a] = <<>>
  BY <1>1 DEF HostFor, Dests
<1>2. CASE live[a] # <<>>
  <2>1. live[a] \in Seq(Names)
    BY DEF LiveInv
  <2>2. Len(live[a]) \in 1..Len(live[a])
    BY <1>2, <2>1
  <2>3. live[a][Len(live[a])] \in Names
    BY <2>1, <2>2
  <2> QED
    BY <1>2, <2>3 DEF HostFor, Dests
<1> QED
  BY <1>1, <1>2

\* The memory of an address changes by a name that leaves, by a name that is
\* heard of again, or by one that is new.
LEMMA LiveStep ==
  ASSUME LiveInv, [Next]_vars
  PROVE  /\ LiveInv'
         /\ \A a \in Addrs :
              \/ LiveNames(a)' \subseteq LiveNames(a)
              \/ \E n \in Names :
                   Remember(n, a) /\ LiveNames(a)' = LiveNames(a) \cup {n}
<1> DEFINE Kept(a) == /\ live'[a] \in Seq(Names) /\ Once(live'[a])
                      /\ Members(live'[a]) \subseteq Members(live[a])
           Goal == /\ LiveInv'
                   /\ \A a \in Addrs :
                        \/ LiveNames(a)' \subseteq LiveNames(a)
                        \/ \E n \in Names : /\ Remember(n, a)
                                            /\ LiveNames(a)' = LiveNames(a) \cup {n}
<1>type. /\ live \in [Addrs -> Seq(Names)]
         /\ \A a \in Addrs : live[a] \in Seq(Names) /\ Once(live[a])
  BY DEF LiveInv
<1>names. \A a : /\ LiveNames(a) = Members(live[a])
                 /\ LiveNames(a)' = Members(live'[a])
  BY DEF LiveNames, Members
<1>without. \A a \in Addrs : \A n :
              /\ Without(live[a], n) \in Seq(Names)
              /\ Once(Without(live[a], n))
              /\ Members(Without(live[a], n)) = Members(live[a]) \ {n}
  BY <1>type, WithoutLeaves
<1>empty. <<>> \in Seq(Names) /\ Once(<<>>) /\ Members(<<>>) = {}
  BY DEF Once, Members
<1>same. \A a \in Addrs : live'[a] = live[a] => Kept(a)
  BY <1>type
<1>kept. ASSUME DOMAIN live' = Addrs, live' = [a \in Addrs |-> live'[a]],
                \A a \in Addrs : Kept(a)
         PROVE  Goal
  BY <1>kept, <1>names DEF LiveInv
<1> HIDE DEF Kept
<1>1. CASE UNCHANGED live
  BY <1>1, <1>kept, <1>same, <1>type
<1>2. ASSUME NEW a \in Addrs, NameLapses(a) PROVE Goal
  <2>1. CASE live' = [b \in Addrs |-> <<>>]
    BY <2>1, <1>empty, <1>kept DEF Kept
  <2>2. ASSUME NEW n, live' = [live EXCEPT ![a] = Without(@, n)] PROVE Goal
    <3>1. Kept(a)
      BY <1>type, <1>without, <2>2 DEF Kept
    <3> QED
      BY <1>kept, <1>same, <1>type, <2>2, <3>1
  <2> QED
    BY <1>2, <2>1, <2>2 DEF NameLapses
<1>3. CASE RevokeTargets
  <2>1. \A a \in Addrs : live'[a] = Without(live[a], revoke.dest)
    BY <1>3 DEF RevokeTargets
  <2>2. \A a \in Addrs : Kept(a)
    BY <1>without, <2>1 DEF Kept
  <2> QED
    BY <1>3, <1>kept, <2>2 DEF RevokeTargets
<1>4. ASSUME NEW n \in Names, NEW a \in Addrs, Remember(n, a) PROVE Goal
  <2> DEFINE s == Without(live[a], n)
             t == Append(s, n)
  <2>1. s \in Seq(Names) /\ Once(s) /\ Members(s) = Members(live[a]) \ {n}
    BY <1>without
  <2> HIDE DEF s
  <2>2. /\ t \in Seq(Names) /\ Len(t) = Len(s) + 1
        /\ \A i \in 1..Len(s) : t[i] = s[i]
        /\ t[Len(s) + 1] = n
    BY <2>1, AppendProperties
  <2>3. \A i \in 1..Len(s) : s[i] \in Members(s) /\ s[i] # n
    BY <2>1 DEF Members
  <2> HIDE DEF t
  <2>4. Once(t)
    BY <2>1, <2>2, <2>3 DEF Once
  <2>5. Members(t) = Members(live[a]) \cup {n}
    <3>1. Members(t) = Members(s) \cup {n}
      BY <2>1, <2>2 DEF Members
    <3> QED
      BY <2>1, <3>1
  <2>6. live' = [live EXCEPT ![a] = t]
    BY <1>4 DEF Remember, s, t
  <2>7. LiveNames(a)' = LiveNames(a) \cup {n}
    BY <1>type, <1>names, <2>5, <2>6
  <2>8. LiveInv'
    BY <1>type, <2>2, <2>4, <2>6 DEF LiveInv
  <2>9. \A b \in Addrs \ {a} : LiveNames(b)' = LiveNames(b)
    BY <1>type, <1>names, <2>6
  <2> QED
    BY <1>4, <2>7, <2>8, <2>9
<1> QED
  BY LiveFootprint, <1>1, <1>2, <1>3, <1>4

\* The durable pins are well-formed and nobody waits for them.
LEMMA DurableSound ==
  ASSUME RulingInv, NEW p \in DurablePins
  PROVE  p \in PinType /\ SoundPin(p) /\ ~p.waits /\ p.pc = "start"
<1>1. PICK a \in Addrs :
        p = Pin(IF row[a] = "allowed" THEN "allow" ELSE "reject", a, NoFlow, a, FALSE)
  BY DEF DurablePins
<1>2. a \in Dests /\ ~Named(a)
  BY EnforcementAssumption DEF Dests, Named
<1>3. \E kind \in {"allow", "reject"} : p = Pin(kind, a, NoFlow, a, FALSE)
  BY <1>1
<1> QED
  BY <1>2, <1>3 DEF Pin, PinType, PinPcs, SoundPin

\* Every pin that is spawned or moves on is well-formed.
LEMMA PinsStep == TypeInv /\ [Next]_vars => PinsInv'
<1> SUFFICES ASSUME TypeInv, [Next]_vars PROVE PinsInv'
  OBVIOUS
<1> DEFINE Fine(p) == p \in PinType /\ SoundPin(p)
<1>pins. \A p \in pins : Fine(p)
  BY DEF TypeInv, PinsInv
<1>durable. \A p \in DurablePins : Fine(p)
  BY DurableSound DEF TypeInv
<1>addr. \A f \in Flows : AddrOf[f] \in Addrs
  BY EnforcementAssumption
<1>spawn. ASSUME NEW q, Fine(q), pins' \subseteq pins \cup DurablePins \cup {q}
          PROVE  PinsInv'
  BY <1>spawn, <1>pins, <1>durable DEF PinsInv
<1>none. ASSUME pins' \subseteq pins \cup DurablePins PROVE PinsInv'
  BY <1>none, <1>pins, <1>durable DEF PinsInv
<1>1. ASSUME NEW p \in pins, PinStep(p) PROVE PinsInv'
  <2>1. Fine(p)
    BY <1>pins
  <2>2. ASSUME NEW pc \in PinPcs, Advance(p, pc),
               pc \in {"withdraw", "own"} => Named(p.dest),
               pc = "own" => p.kind = "reject"
        PROVE  PinsInv'
    <3>1. Fine([p EXCEPT !.pc = pc])
      BY <2>1, <2>2 DEF PinType, SoundPin
    <3> QED
      BY <1>spawn, <2>2, <3>1 DEF Advance
  <2>3. ASSUME Finish(p) PROVE PinsInv'
    BY <1>none, <2>3 DEF Finish
  <2>4. CASE PinStarts(p)
    BY <2>2, <2>3, <2>4 DEF PinStarts, OverBroad, PinPcs
  <2>5. CASE PinAdds(p)
    BY <2>2, <2>5 DEF PinAdds, PinPcs
  <2>6. CASE PinChecks(p)
    BY <2>2, <2>3, <2>6 DEF PinChecks, OverBroad, PinPcs
  <2>7. CASE PinWithdraws(p)
    <3>1. p.kind \in {"allow", "reject"} /\ Named(p.dest)
      BY <2>1, <2>7 DEF PinWithdraws, PinType, SoundPin
    <3> QED
      BY <2>2, <2>7, <3>1 DEF PinWithdraws, PinPcs
  <2>8. CASE PinRestores(p)
    BY <1>none, <2>8 DEF PinRestores
  <2>9. CASE PinOwnFlow(p)
    BY <2>3, <2>9 DEF PinOwnFlow
  <2> QED
    BY <1>1, <2>4, <2>5, <2>6, <2>7, <2>8, <2>9 DEF PinStep
<1>2. ASSUME NEW f \in Flows, CachedVerdict(f) \/ SessionGate(f) \/ ApplyVerdict(f)
      PROVE  PinsInv'
  <2>1. ASSUME NEW kind \in {"allow", "reject"}, NEW d \in Dests, NEW waits \in BOOLEAN
        PROVE  Fine(Pin(kind, d, f, AddrOf[f], waits))
    BY <1>addr, <2>1 DEF Pin, PinType, PinPcs, SoundPin
  <2>2. CASE CachedVerdict(f)
    <3>1. cache[f].dest \in Dests
      BY <2>2 DEF CachedVerdict, TypeInv, FlowsInv
    <3> QED
      BY <1>none, <1>spawn, <2>1, <2>2, <3>1 DEF CachedVerdict, Spawn
  <2>3. CASE SessionGate(f)
    <3>1. HostFor(AddrOf[f]) \in Dests
      BY <1>addr, HostForDest DEF TypeInv
    <3> QED
      BY <1>spawn, <2>1, <2>3, <3>1 DEF SessionGate, Spawn
  <2>4. CASE ApplyVerdict(f)
    <3>1. held[f].dest \in Dests
      BY <2>4 DEF ApplyVerdict, TypeInv, FlowsInv
    <3> QED
      BY <1>none, <1>spawn, <2>1, <2>4, <3>1 DEF ApplyVerdict, Spawn
  <2> QED
    BY <1>2, <2>2, <2>3, <2>4
<1>3. ASSUME NEW n \in Names, Restore(n) \/ Learn(n) PROVE PinsInv'
  <2>1. CASE Restore(n)
    BY <1>none, <2>1 DEF Restore
  <2>2. CASE Learn(n)
    <3>1. query[n].addr \in Addrs
      BY <2>2 DEF Learn, TypeInv, QueryInv
    <3>2. Fine(Pin("allow", n, NoFlow, query[n].addr, FALSE))
      BY <3>1 DEF Pin, PinType, PinPcs, SoundPin, Dests
    <3> QED
      BY <1>none, <1>spawn, <2>2, <3>2 DEF Learn, Spawn
  <2> QED
    BY <1>3, <2>1, <2>2
<1>4. CASE UNCHANGED pins
  BY <1>none, <1>4
<1> QED
  BY PinsFootprint, <1>1, <1>2, <1>3, <1>4

\* The cache, the decide tasks and the connections.
LEMMA FlowsStep == TypeInv /\ [Next]_vars => FlowsInv'
<1> SUFFICES ASSUME TypeInv, [Next]_vars PROVE FlowsInv'
  OBVIOUS
<1> DEFINE
      CacheTypes == [says : {"none", "allow", "deny"}, dest : Dests \cup {NoFlow}]
      HeldTypes == [pc : {"idle", "held", "ruled", "answered", "pinning"},
                    dest : Dests \cup {NoFlow}, says : {"none", "allow", "deny"},
                    lasts : BOOLEAN]
      CacheFine == /\ cache' \in [Flows -> CacheTypes]
                   /\ \A f \in Flows : cache'[f] # NoVerdict => cache'[f].dest \in Dests
      HeldFine == /\ held' \in [Flows -> HeldTypes]
                  /\ \A f \in Flows : held'[f].pc # "idle" => held'[f].dest \in Dests
      OpenFine == open' \in [Flows -> Dests \cup {NoFlow, "once"}]
<1>cache. /\ cache \in [Flows -> CacheTypes]
          /\ \A f \in Flows : cache[f] # NoVerdict => cache[f].dest \in Dests
  BY DEF TypeInv, FlowsInv
<1>held. /\ held \in [Flows -> HeldTypes]
         /\ \A f \in Flows : held[f].pc # "idle" => held[f].dest \in Dests
  BY DEF TypeInv, FlowsInv
<1>open. open \in [Flows -> Dests \cup {NoFlow, "once"}]
  BY DEF TypeInv, FlowsInv
<1>host. \A f \in Flows : HostFor(AddrOf[f]) \in Dests
  BY HostForDest, EnforcementAssumption DEF TypeInv
<1>pins. \A p \in pins : p.dest \in Dests
  BY DEF TypeInv, PinsInv, PinType
<1>1. CacheFine
  <2>1. ASSUME NEW f \in Flows, NEW says \in {"none", "allow", "deny"}, NEW d \in Dests,
               cache' = [cache EXCEPT ![f] = [says |-> says, dest |-> d]]
        PROVE  CacheFine
    BY <1>cache, <2>1
  <2>2. CASE UNCHANGED cache
    BY <1>cache, <2>2
  <2>3. ASSUME NEW f \in Flows, CacheLapses(f) PROVE CacheFine
    <3>1. NoVerdict \in CacheTypes /\ cache' = [cache EXCEPT ![f] = NoVerdict]
      BY <2>3 DEF CacheLapses, NoVerdict
    <3> QED
      BY <1>cache, <3>1
  <2>4. ASSUME NEW f \in Flows, SessionGate(f) PROVE CacheFine
    BY <1>host, <2>1, <2>4 DEF SessionGate
  <2>5. ASSUME NEW f \in Flows, ApplyVerdict(f) PROVE CacheFine
    <3>1. held[f].dest \in Dests /\ held[f].says \in {"none", "allow", "deny"}
      BY <1>held, <2>5 DEF ApplyVerdict
    <3> QED
      BY <2>1, <2>5, <3>1 DEF ApplyVerdict
  <2> QED
    BY CacheFootprint, <2>2, <2>3, <2>4, <2>5
<1>2. HeldFine
  <2>1. ASSUME NEW f, NEW h \in HeldTypes, h.pc # "idle" => h.dest \in Dests,
               held' = [held EXCEPT ![f] = h]
        PROVE  HeldFine
    BY <1>held, <2>1
  <2>2. IdleFlow \in HeldTypes /\ IdleFlow.pc = "idle"
    BY DEF IdleFlow
  <2> HIDE DEF HeldFine
  <2>3. CASE UNCHANGED held
    BY <1>held, <2>3 DEF HeldFine
  <2>4. ASSUME NEW p \in pins, Answered(p) PROVE HeldFine
    BY <2>1, <2>2, <2>3, <2>4 DEF Answered
  <2>5. ASSUME NEW f \in Flows, Hold(f) PROVE HeldFine
    <3> DEFINE h == [IdleFlow EXCEPT !.pc = "held", !.dest = HostFor(AddrOf[f])]
    <3>1. h \in HeldTypes /\ h.dest \in Dests
      BY <1>host DEF IdleFlow
    <3>2. held' = [held EXCEPT ![f] = h]
      BY <2>5 DEF Hold
    <3> HIDE DEF h
    <3> QED
      BY <2>1, <3>1, <3>2
  <2>6. ASSUME NEW f \in Flows, Resolve(f) PROVE HeldFine
    <3> DEFINE h == [held[f] EXCEPT !.pc = "answered"]
    <3>1. h \in HeldTypes /\ h.dest \in Dests
      BY <1>held, <2>6 DEF Resolve
    <3>2. held' = [held EXCEPT ![f] = h]
      BY <2>6 DEF Resolve
    <3> HIDE DEF h
    <3> QED
      BY <2>1, <3>1, <3>2
  <2>7. ASSUME NEW f \in Flows, ApplyVerdict(f) PROVE HeldFine
    <3> DEFINE h == [held[f] EXCEPT !.pc = "pinning"]
    <3>1. h \in HeldTypes /\ h.dest \in Dests
      BY <1>held, <2>7 DEF ApplyVerdict
    <3>2. held' = [held EXCEPT ![f] = h] \/ held' = [held EXCEPT ![f] = IdleFlow]
      BY <2>7 DEF ApplyVerdict
    <3> HIDE DEF h
    <3> QED
      BY <2>1, <2>2, <3>1, <3>2
  <2>8. ASSUME NEW f \in Flows, NEW says \in {"allow", "deny"}, NEW lasts \in BOOLEAN,
               Rule(f, says, lasts)
        PROVE  HeldFine
    <3> DEFINE h == [held[f] EXCEPT !.pc = "ruled", !.says = says, !.lasts = lasts]
    <3>1. h \in HeldTypes /\ h.dest \in Dests
      BY <1>held, <2>8 DEF Rule
    <3>2. held' = [held EXCEPT ![f] = h]
      BY <2>8 DEF Rule
    <3> HIDE DEF h
    <3> QED
      BY <2>1, <3>1, <3>2
  <2> QED
    BY HeldFootprint, <2>3, <2>4, <2>5, <2>6, <2>7, <2>8
<1>3. OpenFine
  <2>1. CASE UNCHANGED open
    BY <1>open, <2>1
  <2>2. ASSUME NEW p \in pins, Answered(p) PROVE OpenFine
    BY <1>open, <1>pins, <2>2 DEF Answered
  <2>3. ASSUME NEW f \in Flows, ChainAccepts(f) PROVE OpenFine
    <3>1. allows[AddrOf[f]] \subseteq Dests
      BY EnforcementAssumption DEF TypeInv, SetsInv
    <3> QED
      BY <1>open, <2>3, <3>1 DEF ChainAccepts
  <2>4. ASSUME NEW f \in Flows, FlowCloses(f) \/ ApplyVerdict(f) PROVE OpenFine
    BY <1>open, <2>4 DEF FlowCloses, ApplyVerdict
  <2>5. ASSUME NEW f \in Flows, CachedVerdict(f) PROVE OpenFine
    <3>1. cache[f].dest \in Dests
      BY <1>cache, <2>5 DEF CachedVerdict
    <3> QED
      BY <1>open, <2>5, <3>1 DEF CachedVerdict
  <2>6. ASSUME NEW f \in Flows, SessionGate(f) PROVE OpenFine
    BY <1>open, <1>host, <2>6 DEF SessionGate
  <2>7. CASE RevokeDrop
    BY <1>open, <2>7 DEF RevokeDrop
  <2> QED
    BY OpenFootprint, <2>1, <2>2, <2>3, <2>4, <2>5, <2>6, <2>7
<1> QED
  BY <1>1, <1>2, <1>3 DEF FlowsInv

\* The forwarder's exchanges.
LEMMA QueryTyped == TypeInv /\ [Next]_vars => QueryInv'
<1> SUFFICES ASSUME TypeInv, [Next]_vars PROVE QueryInv'
  OBVIOUS
<1> DEFINE QueryType == [pc : {"idle", "asked", "retract", "restore", "learn"},
                         learn : BOOLEAN, addr : Addrs \cup {NoFlow}]
           Fine(q) == q \in QueryType /\
             (q.pc \in {"retract", "restore", "learn"} => q.addr \in Addrs)
<1>type. query \in [Names -> QueryType] /\ \A n \in Names : Fine(query[n])
  BY DEF TypeInv, QueryInv
<1>set. ASSUME NEW n, NEW q, Fine(q), query' = [query EXCEPT ![n] = q] PROVE QueryInv'
  BY <1>set, <1>type DEF QueryInv
<1>idle. Fine(IdleQuery)
  BY DEF IdleQuery
<1>1. CASE UNCHANGED query
  BY <1>1 DEF TypeInv, QueryInv
<1>2. ASSUME NEW n \in Names, QueryStep(n) PROVE QueryInv'
  <2> USE <1>type
  <2>1. CASE Classify(n)
    <3> DEFINE q == [pc |-> "asked", learn |-> n \in memAllow \/ row[n] = "allowed",
                     addr |-> NoFlow]
    <3>1. Fine(q)
      OBVIOUS
    <3>2. query' = [query EXCEPT ![n] = q]
      BY <2>1 DEF Classify
    <3> HIDE DEF q, Fine
    <3> QED
      BY <1>set, <3>1, <3>2
  <2>2. CASE NotLearnt(n) \/ Learn(n)
    <3> HIDE DEF Fine
    <3> QED
      BY <1>set, <1>idle, <2>2 DEF NotLearnt, Learn
  <2>3. ASSUME NEW pc \in {"restore", "learn"}, query[n].pc \in {"retract", "restore"},
               query' = [query EXCEPT ![n].pc = pc]
        PROVE  QueryInv'
    <3>1. Fine([query[n] EXCEPT !.pc = pc])
      BY <2>3
    <3> HIDE DEF Fine
    <3> QED
      BY <1>set, <2>3, <3>1
  <2>4. CASE Retract(n) \/ Restore(n)
    BY <2>3, <2>4 DEF Retract, Restore
  <2>5. ASSUME NEW a \in Addrs, Remember(n, a) PROVE QueryInv'
    <3>1. PICK pc \in {"retract", "learn"} :
            query' = [query EXCEPT ![n].addr = a, ![n].pc = pc]
      BY <2>5 DEF Remember
    <3>2. Fine([query[n] EXCEPT !.addr = a, !.pc = pc])
      BY <3>1
    <3>3. query' = [query EXCEPT ![n] = [query[n] EXCEPT !.addr = a, !.pc = pc]]
      BY <3>1
    <3> HIDE DEF Fine
    <3> QED
      BY <1>set, <3>2, <3>3
  <2> QED
    BY <1>2, <2>1, <2>2, <2>4, <2>5 DEF QueryStep
<1> QED
  BY QueryFootprint, <1>1, <1>2

\* The revoke under way.
LEMMA RevokeTyped == TypeInv /\ [Next]_vars => RevokeType'
<1> SUFFICES ASSUME TypeInv, [Next]_vars PROVE RevokeType'
  OBVIOUS
<1> DEFINE Pcs == {"idle", "flipped", "flush", "targets", "clear", "drop"}
           R == [pc : Pcs, dest : Dests \cup {NoFlow}, targets : SUBSET Addrs,
                 at : Addrs \cup {NoFlow}]
<1>type. revoke \in R /\ (revoke.pc = "idle" <=> revoke.dest = NoFlow)
  BY DEF TypeInv, RevokeType
<1>none. NoFlow \notin Dests
  BY EnforcementAssumption
<1>1. CASE UNCHANGED revoke
  BY <1>1, <1>type DEF RevokeType
<1>2. ASSUME NEW d \in Dests, RevokeFlip(d) PROVE RevokeType'
  BY <1>2, <1>none DEF RevokeFlip, RevokeType, NoRevoke
<1>3. CASE RevokeForget \/ RevokeFlush
  BY <1>3, <1>type DEF RevokeForget, RevokeFlush, RevokeType
<1>4. CASE RevokeTargets
  <2>1. PICK T \in SUBSET Addrs :
          revoke' = [revoke EXCEPT !.pc = "clear", !.targets = T]
    BY <1>4 DEF RevokeTargets
  <2> QED
    BY <1>4, <1>type, <2>1 DEF RevokeTargets, RevokeType
<1>5. ASSUME NEW a \in Addrs, RevokeClear(a) PROVE RevokeType'
  BY <1>5, <1>type DEF RevokeClear, RevokeType
<1>6. CASE RevokeDrop
  BY <1>6, <1>type DEF RevokeDrop, RevokeType
<1>7. CASE RevokeDone
  BY <1>7 DEF RevokeDone, RevokeType, NoRevoke
<1> QED
  BY RevokeFootprint, <1>1, <1>2, <1>3, <1>4, <1>5, <1>6, <1>7 DEF RevokeStep

\* The elements, and what a swap read of them.
LEMMA SetsStep == TypeInv /\ [Next]_vars => SetsInv'
<1> SUFFICES ASSUME TypeInv, [Next]_vars PROVE SetsInv'
  OBVIOUS
<1> DEFINE E == [Addrs -> SUBSET Dests]
           S == [on : BOOLEAN, allows : E, rejects : E, resets : SUBSET Flows]
<1>type. allows \in E /\ rejects \in E /\ resets \in SUBSET Flows /\ swap \in S
  BY DEF TypeInv, SetsInv
<1>pins. \A p \in pins : /\ p.dest \in Dests /\ p.addr \in Addrs
                         /\ p.pc = "own" => p.flow \in Flows
  BY DEF TypeInv, PinsInv, PinType, SoundPin
<1>1. allows' \in E /\ rejects' \in E
  <2>1. CASE UNCHANGED <<allows, rejects, carried>>
    BY <1>type, <2>1
  <2>2. ASSUME NEW a \in Addrs, ElementLapses(a) \/ RevokeClear(a)
        PROVE  allows' \in E /\ rejects' \in E
    BY <1>type, <2>2 DEF ElementLapses, RevokeClear
  <2>3. ASSUME NEW p \in pins, PinAdds(p) PROVE allows' \in E /\ rejects' \in E
    <3>1. p.dest \in Dests
      BY <1>pins
    <3> QED
      BY <1>type, <2>3, <3>1 DEF PinAdds
  <2>4. ASSUME NEW p \in pins, PinWithdraws(p) PROVE allows' \in E /\ rejects' \in E
    BY <1>type, <2>4 DEF PinWithdraws, ClearIp
  <2>5. ASSUME NEW n \in Names, Retract(n) PROVE allows' \in E /\ rejects' \in E
    BY <1>type, <2>5 DEF Retract, ClearIp
  <2>6. CASE Install
    BY <1>type, <2>6 DEF Install
  <2> QED
    BY ElementsFootprint, <2>1, <2>2, <2>3, <2>4, <2>5, <2>6
<1>2. resets' \in SUBSET Flows
  <2>1. ASSUME NEW p \in pins, PinOwnFlow(p) PROVE resets' \in SUBSET Flows
    BY <1>type, <1>pins, <2>1 DEF PinOwnFlow
  <2>2. ASSUME NEW p \in pins, PinWithdraws(p) PROVE resets' \in SUBSET Flows
    BY <1>type, <2>2 DEF PinWithdraws, ClearIp
  <2>3. ASSUME NEW n \in Names, Retract(n) PROVE resets' \in SUBSET Flows
    BY <1>type, <2>3 DEF Retract, ClearIp
  <2>4. ASSUME NEW f \in Flows, ResetLapses(f) PROVE resets' \in SUBSET Flows
    BY <1>type, <2>4 DEF ResetLapses
  <2>5. CASE RevokeFlush \/ Install
    BY <1>type, <2>5 DEF RevokeFlush, Install
  <2> QED
    BY ResetsFootprint, <1>type, <2>1, <2>2, <2>3, <2>4, <2>5
<1>3. swap' \in S
  <2>1. CASE Snapshot
    BY <1>type, <2>1 DEF Snapshot
  <2>2. CASE Install
    BY <2>2 DEF Install, NoSwap
  <2> QED
    BY SwapFootprint, <1>type, <2>1, <2>2
<1> QED
  BY <1>1, <1>2, <1>3 DEF SetsInv

\* The verdicts, the session memory and the accounts kept of revokes.
LEMMA RulingStep == TypeInv /\ [Next]_vars => RulingInv'
<1> SUFFICES ASSUME TypeInv, [Next]_vars PROVE RulingInv'
  OBVIOUS
<1>type. RulingInv
  BY DEF TypeInv
<1>held. \A f \in Flows : held[f].pc # "idle" => held[f].dest \in Dests
  BY DEF TypeInv, FlowsInv
<1>1. row' \in [Dests -> {"none", "allowed", "denied"}] /\ revoked' \subseteq Dests
  BY <1>type, RulingFootprint DEF RulingInv, Rule, RevokeFlip
<1>2. memAllow' \subseteq Dests /\ memDeny' \subseteq Dests
  <2>1. ASSUME NEW f \in Flows, Resolve(f)
        PROVE  memAllow' \subseteq Dests /\ memDeny' \subseteq Dests
    <3>1. held[f].dest \in Dests
      BY <1>held, <2>1 DEF Resolve
    <3> QED
      BY <1>type, <2>1, <3>1 DEF RulingInv, Resolve
  <2>2. CASE RevokeForget
    BY <1>type, <2>2 DEF RulingInv, RevokeForget
  <2> QED
    BY <1>type, MemoryFootprint, <2>1, <2>2 DEF RulingInv, memory
<1>3. carried' \subseteq Addrs
  <2>1. ASSUME NEW p \in pins, PinAdds(p) \/ PinWithdraws(p) PROVE carried' \subseteq Addrs
    BY <1>type, <2>1 DEF RulingInv, PinAdds, PinWithdraws, ClearIp
  <2>2. ASSUME NEW n \in Names, Retract(n) PROVE carried' \subseteq Addrs
    BY <1>type, <2>2 DEF RulingInv, Retract, ClearIp
  <2>3. ASSUME NEW a \in Addrs, ElementLapses(a) \/ RevokeClear(a)
        PROVE  carried' \subseteq Addrs
    BY <1>type, <2>3 DEF RulingInv, ElementLapses, RevokeClear, ghosts
  <2>4. CASE Install
    BY <1>type, <2>4 DEF RulingInv, Install
  <2> QED
    BY <1>type, ElementsFootprint, <2>1, <2>2, <2>3, <2>4 DEF RulingInv
<1>4. strays' \subseteq Dests
  <2>1. ASSUME NEW D, Stray(D) PROVE strays' \subseteq Dests
    BY <1>type, <2>1 DEF RulingInv, Stray
  <2>2. ASSUME NEW p \in pins, PinAdds(p) \/ Answered(p) PROVE strays' \subseteq Dests
    BY <1>type, <2>1, <2>2 DEF RulingInv, PinAdds, Answered
  <2>3. ASSUME NEW f \in Flows, CachedVerdict(f) \/ SessionGate(f) PROVE strays' \subseteq Dests
    BY <2>1, <2>3 DEF CachedVerdict, SessionGate
  <2>4. ASSUME NEW f \in Flows, Resolve(f) PROVE strays' \subseteq Dests
    BY <1>type, <2>4 DEF RulingInv, Resolve
  <2>5. ASSUME NEW f \in Flows, NEW says \in {"allow", "deny"}, NEW lasts \in BOOLEAN,
               Rule(f, says, lasts)
        PROVE  strays' \subseteq Dests
    BY <1>type, <2>5 DEF RulingInv, Rule
  <2>6. CASE RevokeTargets
    <3>1. revoke.dest \in Dests
      BY <2>6 DEF RevokeTargets, TypeInv, RevokeType
    <3> QED
      BY <1>type, <2>6, <3>1 DEF RulingInv, RevokeTargets
  <2>7. CASE Install
    BY <2>1, <2>7 DEF Install
  <2> QED
    BY <1>type, StraysFootprint, <2>2, <2>3, <2>4, <2>5, <2>6, <2>7 DEF RulingInv
<1>5. events' \in 0..MaxEvents
  BY <1>type, EventsFootprint, EnforcementAssumption DEF RulingInv, Event
<1> QED
  BY <1>1, <1>2, <1>3, <1>4, <1>5 DEF RulingInv

\* A life of the daemon starts well-typed.
LEMMA TypeInit == Init => TypeInv
<1> SUFFICES ASSUME Init PROVE TypeInv
  OBVIOUS
<1>1. LiveInv
  BY DEF Init, LiveInv, Once
<1>2. PinsInv
  BY DEF Init, PinsInv
<1>3. FlowsInv
  BY DEF Init, FlowsInv, NoVerdict, IdleFlow
<1>4. QueryInv
  BY DEF Init, QueryInv, IdleQuery
<1>5. RevokeType
  BY DEF Init, RevokeType, NoRevoke
<1>6. SetsInv
  BY DEF Init, SetsInv, NoSwap, Dests
<1>7. RulingInv
  BY EnforcementAssumption DEF Init, RulingInv
<1> QED
  BY <1>1, <1>2, <1>3, <1>4, <1>5, <1>6, <1>7 DEF TypeInv

\* Every step keeps every variable in its type.
LEMMA TypeStep == TypeInv /\ [Next]_vars => TypeInv'
  BY LiveStep, PinsStep, FlowsStep, QueryTyped, RevokeTyped, SetsStep, RulingStep
  DEF TypeInv

-------------------------------------------------------------------------------
(***************************************************************************)
(* Packets and the pins that answer them.                                  *)
(***************************************************************************)

\* What moves the pins and the decide tasks.
LEMMA PinsOrHeld ==
  [Next]_vars =>
    \/ UNCHANGED <<pins, held>>
    \/ \E p \in pins : PinStep(p)
    \/ \E f \in Flows : \/ CachedVerdict(f) \/ SessionGate(f) \/ ApplyVerdict(f)
                        \/ Hold(f) \/ Resolve(f)
    \/ \E f \in Flows, says \in {"allow", "deny"}, lasts \in BOOLEAN : Rule(f, says, lasts)
    \/ \E n \in Names : Restore(n) \/ Learn(n)
  BY DEF vars, memory, sets, tasks, ghosts, Next, FlowStep, ChainAccepts,
    FlowCloses, QueryStep, Classify, NotLearnt, Remember, Retract, RevokeStep,
    RevokeFlip, RevokeForget, RevokeFlush, RevokeTargets, RevokeDrop, RevokeDone,
    RevokeClear, Snapshot, Install, Lapse, NameLapses, ElementLapses, ResetLapses,
    CacheLapses

\* Every step keeps one pin under way for each packet that waits for one.
LEMMA HeldStep == TypeInv /\ HeldInv /\ [Next]_vars => HeldInv'
<1> SUFFICES ASSUME TypeInv, HeldInv, [Next]_vars PROVE HeldInv'
  OBVIOUS
<1> DEFINE Pinning(f) == held[f].pc = "pinning"
           Waits(f) == \E p \in pins : p.waits /\ p.flow = f
           Lone == \A p, q \in pins : p.waits /\ q.waits /\ p.flow = q.flow => p = q
<1>inv. (\A f \in Flows : Pinning(f) <=> Waits(f)) /\ Lone
  BY DEF HeldInv, HeldIsOwned
<1>held. held \in [Flows -> [pc : {"idle", "held", "ruled", "answered", "pinning"},
           dest : Dests \cup {NoFlow}, says : {"none", "allow", "deny"}, lasts : BOOLEAN]]
  BY DEF TypeInv, FlowsInv
<1>pins. \A p \in pins : p \in PinType /\ (p.waits => p.flow \in Flows)
  BY DEF TypeInv, PinsInv, SoundPin
<1>durable. \A p \in DurablePins : ~p.waits
  BY DurableSound DEF TypeInv
\* The pins that are waited for stay as they are, but for one that ends.
<1>kept. ASSUME \A f \in Flows : Pinning(f)' = Pinning(f),
                \A p \in pins : p.waits => \E q \in pins' : q.waits /\ q.flow = p.flow,
                \A q \in pins' : q.waits =>
                  \E p \in pins : p.waits /\ p.flow = q.flow,
                Lone'
         PROVE  HeldInv'
  BY <1>inv, <1>kept DEF HeldInv, HeldIsOwned
<1>quiet. ASSUME \A f \in Flows : Pinning(f)' = Pinning(f),
                 \A p : p.waits => (p \in pins' <=> p \in pins)
          PROVE  HeldInv'
  BY <1>inv, <1>quiet DEF HeldInv, HeldIsOwned
<1>ends. ASSUME NEW p \in pins, Answered(p),
                pins' = pins \ {p} \/ pins' = (pins \ {p}) \cup DurablePins
         PROVE  HeldInv'
  <2>1. CASE ~p.waits
    <3>1. UNCHANGED held
      BY <1>ends, <2>1 DEF Answered
    <3> QED
      BY <1>quiet, <1>ends, <1>durable, <2>1, <3>1
  <2>2. CASE p.waits
    <3>1. p.flow \in Flows /\ held' = [held EXCEPT ![p.flow] = IdleFlow]
      BY <1>ends, <1>pins, <2>2 DEF Answered
    <3>2. \A f \in Flows : Pinning(f)' <=> (Pinning(f) /\ f # p.flow)
      BY <1>held, <3>1 DEF IdleFlow
    <3>3. \A q : q.waits => (q \in pins' <=> q \in pins /\ q # p)
      BY <1>ends, <1>durable
    <3>4. \A f \in Flows : Waits(f)' <=> (Waits(f) /\ f # p.flow)
      <4>1. ASSUME NEW f \in Flows, Waits(f)' PROVE Waits(f) /\ f # p.flow
        <5>1. PICK q \in pins' : q.waits /\ q.flow = f
          BY <4>1
        <5>2. q \in pins /\ q # p
          BY <3>3, <5>1
        <5> QED
          BY <1>inv, <2>2, <5>1, <5>2
      <4>2. ASSUME NEW f \in Flows, Waits(f), f # p.flow PROVE Waits(f)'
        <5>1. PICK q \in pins : q.waits /\ q.flow = f
          BY <4>2
        <5>2. q \in pins'
          BY <3>3, <4>2, <5>1
        <5> QED
          BY <5>1, <5>2
      <4> QED
        BY <4>1, <4>2
    <3>5. Lone'
      BY <1>inv, <3>3
    <3> QED
      BY <1>inv, <3>2, <3>4, <3>5 DEF HeldInv, HeldIsOwned
  <2> QED
    BY <2>1, <2>2, <1>pins DEF PinType
<1>1. ASSUME NEW p \in pins, PinStep(p) PROVE HeldInv'
  <2>1. ASSUME NEW pc, Advance(p, pc), UNCHANGED held PROVE HeldInv'
    <3> DEFINE q == [p EXCEPT !.pc = pc]
    <3>1. p \in PinType
      BY <1>pins
    <3>2. q.waits = p.waits /\ q.flow = p.flow
      BY <3>1 DEF PinType
    <3>3. pins' = (pins \ {p}) \cup {q}
      BY <2>1 DEF Advance
    <3> HIDE DEF q
    <3> QED
      BY <1>kept, <1>inv, <2>1, <3>2, <3>3
  <2>2. CASE Finish(p)
    BY <1>ends, <2>2 DEF Finish
  <2>3. CASE PinRestores(p)
    BY <1>ends, <2>3 DEF PinRestores
  <2> QED
    BY <1>1, <2>1, <2>2, <2>3 DEF PinStep, PinStarts, PinAdds, PinChecks, PinWithdraws,
      PinOwnFlow
<1>2. ASSUME NEW f \in Flows, CachedVerdict(f) \/ SessionGate(f) PROVE HeldInv'
  <2>1. UNCHANGED held
    BY <1>2 DEF CachedVerdict, SessionGate
  <2>2. \A p : p.waits => (p \in pins' <=> p \in pins)
    BY <1>2 DEF CachedVerdict, SessionGate, Spawn, Pin
  <2> QED
    BY <1>quiet, <2>1, <2>2
<1>3. ASSUME NEW n \in Names, Restore(n) \/ Learn(n) PROVE HeldInv'
  <2>1. UNCHANGED held
    BY <1>3 DEF Restore, Learn
  <2>2. \A p : p.waits => (p \in pins' <=> p \in pins)
    BY <1>3, <1>durable DEF Restore, Learn, Spawn, Pin
  <2> QED
    BY <1>quiet, <2>1, <2>2
<1>4. ASSUME NEW f \in Flows, ApplyVerdict(f) PROVE HeldInv'
  <2>1. CASE held' = [held EXCEPT ![f] = IdleFlow] /\ UNCHANGED pins
    <3>1. \A g \in Flows : Pinning(g)' = Pinning(g)
      BY <1>4, <1>held, <2>1 DEF ApplyVerdict, IdleFlow
    <3> QED
      BY <1>quiet, <2>1, <3>1
  <2>2. ASSUME held' = [held EXCEPT ![f].pc = "pinning"],
               NEW q, q.waits, q.flow = f, pins' = pins \cup {q}
        PROVE  HeldInv'
    <3>1. \A g \in Flows : Pinning(g)' <=> (Pinning(g) \/ g = f)
      BY <1>held, <2>2
    <3>2. \A p \in pins : p.waits => p.flow # f
      BY <1>4, <1>inv DEF ApplyVerdict
    <3>3. \A g \in Flows : Waits(g)' <=> (Waits(g) \/ g = f)
      BY <2>2
    <3>4. Lone'
      BY <1>inv, <2>2, <3>2
    <3> QED
      BY <1>inv, <3>1, <3>3, <3>4 DEF HeldInv, HeldIsOwned
  <2>3. \A kind, d : Pin(kind, d, f, AddrOf[f], TRUE).waits
                     /\ Pin(kind, d, f, AddrOf[f], TRUE).flow = f
    BY DEF Pin
  <2> QED
    BY <1>4, <2>1, <2>2, <2>3 DEF ApplyVerdict, Spawn
<1>5. ASSUME UNCHANGED pins,
             \A f \in Flows : Pinning(f)' = Pinning(f)
      PROVE  HeldInv'
  BY <1>5, <1>quiet
<1>6. ASSUME NEW f \in Flows, Hold(f) PROVE HeldInv'
  BY <1>5, <1>6, <1>held DEF Hold, IdleFlow
<1>7. ASSUME NEW f \in Flows, Resolve(f) PROVE HeldInv'
  BY <1>5, <1>7, <1>held DEF Resolve
<1>8. ASSUME NEW f \in Flows, NEW says \in {"allow", "deny"}, NEW lasts \in BOOLEAN,
             Rule(f, says, lasts)
      PROVE  HeldInv'
  BY <1>5, <1>8, <1>held DEF Rule
<1>9. CASE UNCHANGED <<pins, held>>
  BY <1>5, <1>9
<1> QED
  BY PinsOrHeld, <1>1, <1>2, <1>3, <1>4, <1>6, <1>7, <1>8, <1>9

-------------------------------------------------------------------------------
(***************************************************************************)
(* Addresses where two names live.                                         *)
(***************************************************************************)

\* An address has finitely many names, and losing some does not make it shared.
LEMMA SharedFewer ==
  ASSUME LiveInv, NEW a \in Addrs, LiveNames(a)' \subseteq LiveNames(a), Shared(a)'
  PROVE  Shared(a)
<1> DEFINE s == live[a]
<1>1. s \in Seq(Names) /\ LiveNames(a) = {s[i] : i \in 1..Len(s)}
  BY DEF LiveInv, LiveNames
<1>2. s \in Surjection(1..Len(s), LiveNames(a))
  BY <1>1 DEF Surjection
<1>3. IsFiniteSet(1..Len(s))
  BY <1>1, FS_Interval
<1>4. IsFiniteSet(LiveNames(a))
  <2> DEFINE D == 1..Len(s)
             T == LiveNames(a)
  <2>1. s \in Surjection(D, T) /\ IsFiniteSet(D)
    BY <1>2, <1>3
  <2> HIDE DEF s, D, T
  <2>2. IsFiniteSet(T)
    BY <2>1, FS_Surjection
  <2> QED
    BY <2>2 DEF T
<1>5. /\ Cardinality(LiveNames(a)') <= Cardinality(LiveNames(a))
      /\ IsFiniteSet(LiveNames(a)')
  <2>1. \A T \in SUBSET LiveNames(a) :
          IsFiniteSet(T) /\ Cardinality(T) <= Cardinality(LiveNames(a))
    BY <1>4, FS_Subset
  <2>2. LiveNames(a)' \in SUBSET LiveNames(a)
    OBVIOUS
  <2> QED
    BY <2>1, <2>2
<1>6. Cardinality(LiveNames(a)) \in Nat /\ Cardinality(LiveNames(a)') \in Nat
  BY <1>4, <1>5, FS_CardinalityType
<1> QED
  BY <1>5, <1>6 DEF Shared

\* An address becomes shared by a resolution that then retracts.
LEMMA SharedMended ==
  ASSUME TypeInv, [Next]_vars, NEW a \in Addrs, Shared(a)'
  PROVE  Shared(a) \/ Mended(a)'
<1>1. CASE LiveNames(a)' \subseteq LiveNames(a)
  BY <1>1, SharedFewer DEF TypeInv
<1>2. ASSUME NEW n \in Names, Remember(n, a), LiveNames(a)' = LiveNames(a) \cup {n}
      PROVE  Shared(a) \/ Mended(a)'
  <2>1. CASE n \in LiveNames(a)
    <3>1. LiveNames(a)' \subseteq LiveNames(a)
      BY <1>2, <2>1
    <3> QED
      BY <1>1, <3>1
  <2>2. CASE LiveNames(a) = {}
    <3>1. Cardinality(LiveNames(a)') = 1
      BY <1>2, <2>2, FS_Singleton
    <3> QED
      BY <3>1 DEF Shared
  <2>3. CASE LiveNames(a) # {} /\ n \notin LiveNames(a)
    <3>1. query' = [query EXCEPT ![n].addr = a, ![n].pc = "retract"]
      BY <1>2, <2>3 DEF Remember
    <3>2. query'[n].addr = a /\ query'[n].pc = "retract"
      BY <3>1 DEF TypeInv, QueryInv
    <3> QED
      BY <3>2 DEF Mended
  <2> QED
    BY <2>1, <2>2, <2>3
<1> QED
  BY <1>1, <1>2, LiveStep DEF TypeInv

\* The names with an element at an address.
NamesAt(a) == (allows[a] \cup rejects[a]) \cap Names

\* A name's element comes to an address by a pin that will look again, or by a
\* swap, which is put on record.
LEMMA NamesAtStep ==
  ASSUME TypeInv, [Next]_vars, NEW a \in Addrs
  PROVE  \/ NamesAt(a)' \subseteq NamesAt(a) /\ (a \in carried => a \in carried')
         \/ NamesAt(a)' = {}
         \/ a \in carried'
         \/ Mended(a)'
<1> DEFINE Goal == \/ /\ NamesAt(a)' \subseteq NamesAt(a)
                      /\ a \in carried => a \in carried'
                   \/ NamesAt(a)' = {}
                   \/ a \in carried'
                   \/ Mended(a)'
<1>type. /\ allows \in [Addrs -> SUBSET Dests] /\ rejects \in [Addrs -> SUBSET Dests]
         /\ swap \in [on : BOOLEAN, allows : [Addrs -> SUBSET Dests],
                      rejects : [Addrs -> SUBSET Dests], resets : SUBSET Flows]
  BY DEF TypeInv, SetsInv
<1>1. CASE UNCHANGED <<allows, rejects, carried>>
  BY <1>1 DEF NamesAt
<1>2. ASSUME NEW b \in Addrs, ElementLapses(b) \/ RevokeClear(b) PROVE Goal
  <2>1. CASE ElementLapses(b)
    BY <1>type, <2>1 DEF ElementLapses, NamesAt, ghosts
  <2>2. CASE RevokeClear(b)
    BY <1>type, <2>2 DEF RevokeClear, NamesAt
  <2> QED
    BY <1>2, <2>1, <2>2
<1>3. ASSUME NEW p \in pins, PinAdds(p) PROVE Goal
  <2>1. CASE p.addr # a \/ ~Named(p.dest)
    BY <1>type, <1>3, <2>1 DEF PinAdds, NamesAt, Named
  <2>2. CASE p.addr = a /\ Named(p.dest)
    <3> DEFINE q == [p EXCEPT !.pc = "check"]
    <3>1. p \in PinType
      BY DEF TypeInv, PinsInv
    <3>2. q \in pins' /\ q.addr = a /\ Named(q.dest) /\ q.pc = "check"
      BY <1>3, <2>2, <3>1 DEF PinAdds, Advance, PinType
    <3> HIDE DEF q
    <3>3. Mended(a)'
      BY <3>2 DEF Mended
    <3> QED
      BY <3>3
  <2> QED
    BY <2>1, <2>2
<1>4. ASSUME NEW p \in pins, PinWithdraws(p) PROVE Goal
  BY <1>type, <1>4 DEF PinWithdraws, ClearIp, NamesAt
<1>5. ASSUME NEW n \in Names, Retract(n) PROVE Goal
  BY <1>type, <1>5 DEF Retract, ClearIp, NamesAt
<1>6. CASE Install
  <2>1. CASE (swap.allows[a] \ allows[a]) \cup (swap.rejects[a] \ rejects[a]) # {}
    BY <1>6, <2>1 DEF Install
  <2>2. CASE (swap.allows[a] \ allows[a]) \cup (swap.rejects[a] \ rejects[a]) = {}
    BY <1>6, <2>2 DEF Install, NamesAt
  <2> QED
    BY <2>1, <2>2
<1> QED
  BY ElementsFootprint, <1>1, <1>2, <1>3, <1>4, <1>5, <1>6

\* Whoever will empty a shared address does so before it is done.
LEMMA MendedStays ==
  ASSUME TypeInv, [Next]_vars, NEW a \in Addrs, Shared(a), Mended(a)
  PROVE  Mended(a)' \/ NamesAt(a)' = {}
<1> DEFINE Goal == Mended(a)' \/ NamesAt(a)' = {}
           Mends(p) == p.addr = a /\ p.pc \in {"check", "withdraw"} /\ Named(p.dest)
<1>pins. \A p \in pins : p \in PinType
  BY DEF TypeInv, PinsInv
<1>sets. allows \in [Addrs -> SUBSET Dests] /\ rejects \in [Addrs -> SUBSET Dests]
  BY DEF TypeInv, SetsInv
<1>1. ASSUME NEW p \in pins, Mends(p) PROVE Goal
  <2>1. CASE p \in pins'
    BY <1>1, <2>1 DEF Mended
  <2>2. ASSUME NEW q \in pins, PinStep(q), q # p PROVE p \in pins'
    BY <2>2 DEF PinStep, PinStarts, PinAdds, PinChecks, PinWithdraws, PinRestores,
      PinOwnFlow, Advance, Finish
  <2>3. CASE PinStep(p)
    <3>1. CASE PinChecks(p)
      <4> DEFINE q == [p EXCEPT !.pc = "withdraw"]
      <4>1. OverBroad(p)
        BY <1>1 DEF OverBroad
      <4>2. q \in pins'
        BY <3>1, <4>1 DEF PinChecks, Advance
      <4>3. Mends(q)
        BY <1>1, <1>pins DEF PinType
      <4> HIDE DEF q
      <4> QED
        BY <4>2, <4>3 DEF Mended
    <3>2. CASE PinWithdraws(p)
      BY <1>1, <1>sets, <3>2 DEF PinWithdraws, ClearIp, NamesAt
    <3> QED
      BY <1>1, <2>3, <3>1, <3>2 DEF PinStep, PinStarts, PinAdds, PinRestores, PinOwnFlow
  <2>4. ASSUME NEW f \in Flows, CachedVerdict(f) \/ SessionGate(f) \/ ApplyVerdict(f)
        PROVE  p \in pins'
    BY <2>4 DEF CachedVerdict, SessionGate, ApplyVerdict, Spawn
  <2>5. ASSUME NEW n \in Names, Restore(n) \/ Learn(n) PROVE p \in pins'
    BY <2>5 DEF Restore, Learn, Spawn
  <2> QED
    BY PinsFootprint, <2>1, <2>2, <2>3, <2>4, <2>5
<1>2. ASSUME NEW n \in Names, query[n].addr = a, query[n].pc = "retract" PROVE Goal
  <2>1. CASE query'[n] = query[n]
    BY <1>2, <2>1 DEF Mended
  <2>2. ASSUME NEW m \in Names, QueryStep(m), m # n PROVE query'[n] = query[n]
    BY <2>2 DEF QueryStep, Classify, NotLearnt, Remember, Retract, Restore, Learn, TypeInv,
      QueryInv
  <2>3. CASE QueryStep(n)
    <3>1. Retract(n)
      BY <1>2, <2>3 DEF QueryStep, Classify, NotLearnt, Remember, Restore, Learn
    <3> QED
      BY <1>2, <1>sets, <3>1 DEF Retract, ClearIp, NamesAt
  <2> QED
    BY QueryFootprint, <2>1, <2>2, <2>3
<1> QED
  BY <1>1, <1>2 DEF Mended

\* Every step keeps a name's element on a shared address somebody's to take off.
LEMMA SharedStep == TypeInv /\ SharedInv /\ [Next]_vars => SharedInv'
<1> SUFFICES ASSUME TypeInv, SharedInv, [Next]_vars,
                    NEW a \in Addrs, Shared(a)', a \notin carried', NamesAt(a)' # {}
             PROVE  Mended(a)'
  BY DEF SharedInv, NamesAt, Shared, LiveNames, Mended
<1>1. CASE ~Shared(a)
  BY <1>1, SharedMended
<1>2. CASE Shared(a) /\ Mended(a)
  BY <1>2, MendedStays
<1>3. CASE Shared(a) /\ ~Mended(a)
  <2>1. NamesAt(a) = {} \/ a \in carried
    BY <1>3 DEF SharedInv, NamesAt
  <2> QED
    BY <2>1, NamesAtStep
<1> QED
  BY <1>1, <1>2, <1>3

-------------------------------------------------------------------------------
(***************************************************************************)
(* Revokes.                                                                *)
(***************************************************************************)

\* What is put somewhere of a revoked verdict strays, unless its revoke has yet
\* to list the addresses.
LEMMA Strayed ==
  ASSUME NEW D, Stray(D), NEW d \in revoked, d \in D
  PROVE  d \in strays' \/ (revoke.dest = d /\ revoke.pc \in {"flipped", "flush", "targets"})
  BY DEF Stray, StillSought

\* The elements of a revoked destination stay where they are, or are accounted
\* for.
LEMMA ElementsStep ==
  ASSUME TypeInv, [Next]_vars, NEW d \in revoked \cap revoked', d \notin strays'
  PROVE  \/ Elements(d)' \subseteq Elements(d)
         \/ revoke.dest = d /\ revoke.pc \in {"flipped", "flush", "targets"}
<1> DEFINE Sought == revoke.dest = d /\ revoke.pc \in {"flipped", "flush", "targets"}
           Goal == Elements(d)' \subseteq Elements(d) \/ Sought
<1>type. /\ allows \in [Addrs -> SUBSET Dests] /\ rejects \in [Addrs -> SUBSET Dests]
  BY DEF TypeInv, SetsInv
<1>1. CASE UNCHANGED <<allows, rejects, carried>>
  BY <1>1 DEF Elements
<1>2. ASSUME NEW a \in Addrs, ElementLapses(a) \/ RevokeClear(a) PROVE Goal
  BY <1>type, <1>2 DEF ElementLapses, RevokeClear, Elements
<1>3. ASSUME NEW p \in pins, PinAdds(p) PROVE Goal
  <2>1. CASE p.dest = d
    <3>1. Stray({d})
      BY <1>3, <2>1 DEF PinAdds
    <3> QED
      BY <3>1, Strayed
  <2>2. CASE p.dest # d
    BY <1>type, <1>3, <2>2 DEF PinAdds, Elements
  <2> QED
    BY <2>1, <2>2
<1>4. ASSUME NEW p \in pins, PinWithdraws(p) PROVE Goal
  BY <1>type, <1>4 DEF PinWithdraws, ClearIp, Elements
<1>5. ASSUME NEW n \in Names, Retract(n) PROVE Goal
  BY <1>type, <1>5 DEF Retract, ClearIp, Elements
<1>6. CASE Install
  <2> DEFINE back(a) == (swap.allows[a] \ allows[a]) \cup (swap.rejects[a] \ rejects[a])
  <2>1. CASE \E a \in Addrs : d \in back(a)
    <3>1. Stray(UNION {back(a) : a \in Addrs})
      BY <1>6 DEF Install
    <3> HIDE DEF back
    <3>2. d \in UNION {back(a) : a \in Addrs}
      BY <2>1
    <3> QED
      BY <3>1, <3>2, Strayed
  <2>2. CASE \A a \in Addrs : d \notin back(a)
    BY <1>6, <2>2 DEF Install, Elements
  <2> QED
    BY <2>1, <2>2
<1> QED
  BY ElementsFootprint, <1>1, <1>2, <1>3, <1>4, <1>5, <1>6

\* Nor does a connection come in under a revoked destination, but by an element
\* that still stands there.
LEMMA OpenedStep ==
  ASSUME TypeInv, [Next]_vars, NEW d \in revoked \cap revoked', d \notin strays'
  PROVE  \/ Opened(d)' \subseteq Opened(d) \cup Elements(d)
         \/ revoke.dest = d /\ revoke.pc \in {"flipped", "flush", "targets"}
<1> DEFINE Sought == revoke.dest = d /\ revoke.pc \in {"flipped", "flush", "targets"}
           Goal == Opened(d)' \subseteq Opened(d) \cup Elements(d) \/ Sought
<1>type. /\ open \in [Flows -> Dests \cup {NoFlow, "once"}]
         /\ d \in Dests /\ d # NoFlow /\ d # "once"
  BY EnforcementAssumption DEF TypeInv, FlowsInv, RulingInv
<1>1. ASSUME \A f \in Flows :
               open'[f] = d => open[f] = d \/ d \in allows[AddrOf[f]]
      PROVE  Goal
  BY <1>1 DEF Opened, Elements
<1>2. CASE UNCHANGED open
  BY <1>1, <1>2
<1>stray. ASSUME NEW D, Stray(D), d \in D PROVE Sought
  BY <1>stray, Strayed
<1>3. ASSUME NEW p \in pins, Answered(p) PROVE Goal
  <2>1. CASE p.waits /\ p.kind = "allow" /\ p.dest = d
    BY <1>3, <1>stray, <2>1 DEF Answered
  <2>2. CASE ~(p.waits /\ p.kind = "allow" /\ p.dest = d)
    BY <1>1, <1>3, <1>type, <2>2 DEF Answered
  <2> QED
    BY <2>1, <2>2
<1>4. ASSUME NEW f \in Flows, ChainAccepts(f) PROVE Goal
  BY <1>1, <1>4, <1>type DEF ChainAccepts
<1>5. ASSUME NEW f \in Flows, FlowCloses(f) \/ ApplyVerdict(f) PROVE Goal
  BY <1>1, <1>5, <1>type DEF FlowCloses, ApplyVerdict
<1>6. ASSUME NEW f \in Flows, CachedVerdict(f) PROVE Goal
  <2>1. CASE cache[f].dest = d
    BY <1>6, <1>stray, <2>1 DEF CachedVerdict
  <2>2. CASE cache[f].dest # d
    BY <1>1, <1>6, <1>type, <2>2 DEF CachedVerdict
  <2> QED
    BY <2>1, <2>2
<1>7. ASSUME NEW f \in Flows, SessionGate(f) PROVE Goal
  <2>1. CASE HostFor(AddrOf[f]) = d
    BY <1>7, <1>stray, <2>1 DEF SessionGate
  <2>2. CASE HostFor(AddrOf[f]) # d
    BY <1>1, <1>7, <1>type, <2>2 DEF SessionGate
  <2> QED
    BY <2>1, <2>2
<1>8. CASE RevokeDrop
  BY <1>1, <1>8, <1>type DEF RevokeDrop
<1> QED
  BY OpenFootprint, <1>2, <1>3, <1>4, <1>5, <1>6, <1>7, <1>8

\* The session remembers a revoked destination only until its revoke resumes.
LEMMA MemoryStep ==
  ASSUME TypeInv, [Next]_vars, NEW d \in revoked \cap revoked', d \notin strays',
         d \in (memAllow \cup memDeny)'
  PROVE  \/ d \in memAllow \cup memDeny
         \/ revoke.dest = d /\ revoke.pc = "flipped"
<1>1. ASSUME NEW f \in Flows, Resolve(f)
      PROVE  d \in memAllow \cup memDeny \/ (revoke.dest = d /\ revoke.pc = "flipped")
  <2>1. CASE d = held[f].dest /\ held[f].lasts
    BY <1>1, <2>1 DEF Resolve
  <2>2. CASE ~(d = held[f].dest /\ held[f].lasts)
    BY <1>1, <2>2 DEF Resolve
  <2> QED
    BY <2>1, <2>2
<1>2. CASE RevokeForget
  BY <1>2 DEF RevokeForget
<1> QED
  BY MemoryFootprint, <1>1, <1>2 DEF memory

\* Nothing leaves the account of what strayed but by a new verdict.
LEMMA StraysStay ==
  ASSUME [Next]_vars, NEW d \in strays
  PROVE  d \in strays' \/ d \notin revoked'
<1>1. ASSUME NEW f \in Flows, NEW says \in {"allow", "deny"}, NEW lasts \in BOOLEAN,
             Rule(f, says, lasts)
      PROVE  d \in strays' \/ d \notin revoked'
  BY <1>1 DEF Rule
<1>2. ASSUME NEW p \in pins, PinAdds(p) \/ Answered(p) PROVE d \in strays'
  BY <1>2 DEF PinAdds, Answered, Stray
<1>3. ASSUME NEW f \in Flows, CachedVerdict(f) \/ SessionGate(f) \/ Resolve(f)
      PROVE  d \in strays'
  BY <1>3 DEF CachedVerdict, SessionGate, Resolve, Stray
<1>4. CASE RevokeTargets \/ Install
  BY <1>4 DEF RevokeTargets, Install, Stray
<1> QED
  BY StraysFootprint, <1>1, <1>2, <1>3, <1>4

\* A revoke visits whatever is left of its destination before it answers.
LEMMA RevokeInvStep == TypeInv /\ RevokeInv /\ [Next]_vars => RevokeInv'
<1> SUFFICES ASSUME TypeInv, RevokeInv, [Next]_vars,
                    NEW d \in revoked', d \notin strays'
             PROVE
      /\ d \in (memAllow \cup memDeny)' => revoke'.dest = d /\ revoke'.pc = "flipped"
      /\ revoke'.dest # d => Elements(d)' = {} /\ Opened(d)' = {}
      /\ revoke'.dest = d /\ revoke'.pc \in {"clear", "drop"} =>
           /\ Elements(d)' \subseteq revoke'.targets
           /\ Opened(d)' \subseteq revoke'.targets \cup
                (IF revoke'.pc = "drop" THEN {revoke'.at} ELSE {})
  BY DEF RevokeInv, Elements, Opened
<1> DEFINE
      Goal ==
        /\ d \in (memAllow \cup memDeny)' => revoke'.dest = d /\ revoke'.pc = "flipped"
        /\ revoke'.dest # d => Elements(d)' = {} /\ Opened(d)' = {}
        /\ revoke'.dest = d /\ revoke'.pc \in {"clear", "drop"} =>
             /\ Elements(d)' \subseteq revoke'.targets
             /\ Opened(d)' \subseteq revoke'.targets \cup
                  (IF revoke'.pc = "drop" THEN {revoke'.at} ELSE {})
<1>rec. /\ revoke.pc = "idle" <=> revoke.dest = NoFlow
        /\ revoke \in [pc : {"idle", "flipped", "flush", "targets", "clear", "drop"},
                       dest : Dests \cup {NoFlow}, targets : SUBSET Addrs,
                       at : Addrs \cup {NoFlow}]
        /\ d \in Dests
  BY RulingStep DEF TypeInv, RevokeType, RulingInv
<1>none. NoFlow \notin Dests
  BY EnforcementAssumption
<1>1. ASSUME NEW e \in Dests, RevokeFlip(e) PROVE Goal
  <2>1. revoke'.dest = e /\ revoke'.pc = "flipped" /\ UNCHANGED strays
        /\ UNCHANGED <<memory, allows, rejects, open>> /\ revoke.dest = NoFlow
    BY <1>1, <1>rec DEF RevokeFlip, NoRevoke, ghosts, sets
  <2>2. CASE d = e
    BY <2>1, <2>2
  <2>3. CASE d # e
    <3>1. d \in revoked \ strays
      BY <1>1, <2>1, <2>3 DEF RevokeFlip
    <3>2. d \notin memAllow \cup memDeny /\ Elements(d) = {} /\ Opened(d) = {}
      BY <1>rec, <1>none, <2>1, <3>1 DEF RevokeInv
    <3> QED
      BY <2>1, <2>3, <3>2 DEF Elements, Opened, memory
  <2> QED
    BY <2>2, <2>3
<1>2. CASE \A e \in Dests : ~RevokeFlip(e)
  <2>1. d \in revoked
    BY <1>2, RulingFootprint DEF Rule
  <2>2. d \notin strays
    BY StraysStay
  <2>inv. /\ d \in memAllow \cup memDeny => revoke.dest = d /\ revoke.pc = "flipped"
          /\ revoke.dest # d => Elements(d) = {} /\ Opened(d) = {}
          /\ revoke.dest = d /\ revoke.pc \in {"clear", "drop"} =>
               /\ Elements(d) \subseteq revoke.targets
               /\ Opened(d) \subseteq revoke.targets \cup
                    (IF revoke.pc = "drop" THEN {revoke.at} ELSE {})
    BY <2>1, <2>2 DEF RevokeInv
  <2>mem. d \in (memAllow \cup memDeny)' => revoke.dest = d /\ revoke.pc = "flipped"
    BY <2>1, <2>inv, MemoryStep
  <2>el. \/ Elements(d)' \subseteq Elements(d)
         \/ revoke.dest = d /\ revoke.pc \in {"flipped", "flush", "targets"}
    BY <2>1, ElementsStep
  <2>open. \/ Opened(d)' \subseteq Opened(d) \cup Elements(d)
           \/ revoke.dest = d /\ revoke.pc \in {"flipped", "flush", "targets"}
    BY <2>1, OpenedStep
  <2>3. CASE UNCHANGED revoke
    BY <2>inv, <2>mem, <2>el, <2>open, <2>3
  <2>4. CASE RevokeForget
    BY <1>rec, <2>inv, <2>mem, <2>4 DEF RevokeForget, sets, Elements, Opened
  <2>5. CASE RevokeFlush
    BY <1>rec, <2>inv, <2>mem, <2>el, <2>open, <2>5 DEF RevokeFlush
  <2>6. CASE RevokeTargets
    <3> DEFINE T == {a \in Addrs : revoke.dest \in LiveNames(a) \cup {a}}
    <3>1. /\ revoke'.dest = revoke.dest /\ revoke'.pc = "clear" /\ revoke'.targets = T
          /\ UNCHANGED <<allows, rejects, open, memory>> /\ revoke.pc = "targets"
          /\ strays' = IF Marks(revoke.dest) \subseteq T THEN strays
                       ELSE strays \cup {revoke.dest}
      BY <1>rec, <2>6 DEF RevokeTargets, sets
    <3> HIDE DEF T
    <3>2. Marks(d) = Elements(d) \cup Opened(d)
      BY DEF Marks, Elements, Opened
    <3>3. Elements(d)' = Elements(d) /\ Opened(d)' = Opened(d)
      BY <3>1 DEF Elements, Opened
    <3>4. revoke.dest = d => Elements(d) \subseteq T /\ Opened(d) \subseteq T
      BY <3>1, <3>2
    <3> QED
      BY <2>inv, <2>mem, <3>1, <3>3, <3>4
  <2>7. ASSUME NEW a \in Addrs, RevokeClear(a) PROVE Goal
    <3>1. /\ revoke'.dest = revoke.dest /\ revoke'.pc = "drop" /\ revoke.pc = "clear"
          /\ revoke'.targets = revoke.targets \ {a} /\ revoke'.at = a
          /\ UNCHANGED open
          /\ allows' = [allows EXCEPT ![a] = {}] /\ rejects' = [rejects EXCEPT ![a] = {}]
      BY <1>rec, <2>7 DEF RevokeClear
    <3>2. a \notin Elements(d)' /\ Elements(d)' \subseteq Elements(d)
      BY <3>1 DEF Elements, TypeInv, SetsInv
    <3>3. Opened(d)' = Opened(d)
      BY <3>1 DEF Opened
    <3> QED
      BY <2>inv, <2>mem, <3>1, <3>2, <3>3
  <2>8. CASE RevokeDrop
    <3>1. /\ revoke'.dest = revoke.dest /\ revoke'.pc = "clear" /\ revoke.pc = "drop"
          /\ revoke'.targets = revoke.targets
          /\ UNCHANGED <<allows, rejects>>
          /\ open' = [f \in Flows |-> IF AddrOf[f] = revoke.at THEN NoFlow ELSE open[f]]
      BY <1>rec, <2>8 DEF RevokeDrop, sets
    <3>2. Opened(d)' \subseteq Opened(d) \ {revoke.at}
      BY <1>rec, <1>none, <3>1 DEF Opened
    <3>3. Elements(d)' = Elements(d)
      BY <3>1 DEF Elements
    <3> QED
      BY <2>inv, <2>mem, <3>1, <3>2, <3>3
  <2>9. CASE RevokeDone
    <3>1. /\ revoke'.dest = NoFlow /\ revoke'.pc = "idle" /\ revoke.pc = "clear"
          /\ revoke.targets = {}
          /\ UNCHANGED <<allows, rejects, open>>
      BY <2>9 DEF RevokeDone, NoRevoke, sets
    <3>2. Elements(d)' = Elements(d) /\ Opened(d)' = Opened(d)
      BY <3>1 DEF Elements, Opened
    <3> QED
      BY <1>rec, <1>none, <2>inv, <2>mem, <3>1, <3>2
  <2> QED
    BY <1>2, RevokeFootprint, <2>3, <2>4, <2>5, <2>6, <2>7, <2>8, <2>9 DEF RevokeStep
<1> QED
  BY <1>1, <1>2

-------------------------------------------------------------------------------

\* No packet waits and nothing was revoked at the start.
LEMMA InvInit == Init => IInv
<1> SUFFICES ASSUME Init PROVE IInv
  OBVIOUS
<1>1. HeldInv
  BY DEF Init, HeldInv, HeldIsOwned, IdleFlow
<1>2. SharedInv
  <2>1. \A a \in Addrs : LiveNames(a) = {}
    BY DEF Init, LiveNames
  <2> QED
    BY <2>1, FS_EmptySet DEF SharedInv, Shared
<1>3. RevokeInv
  BY DEF Init, RevokeInv
<1> QED
  BY <1>1, <1>2, <1>3, TypeInit DEF IInv

\* The invariant is inductive, whatever the names, the addresses, the
\* connections and the bounds.
THEOREM EnforcementInvariant == Spec => []IInv
<1>1. IInv /\ [Next]_vars => IInv'
  BY TypeStep, HeldStep, SharedStep, RevokeInvStep DEF IInv
<1> QED
  BY InvInit, <1>1, PTL DEF Spec

\* Every variable keeps its type.
THEOREM EnforcementTyped == Spec => []TypeOK
<1>1. IInv => TypeOK
  <2> SUFFICES ASSUME TypeInv PROVE TypeOK
    BY DEF IInv
  <2>1. DOMAIN live = Addrs /\ \A a \in Addrs : LiveNames(a) \subseteq Names
    BY DEF TypeInv, LiveInv, LiveNames
  <2>2. pins \subseteq PinType
    BY DEF TypeInv, PinsInv
  <2> QED
    BY <2>1, <2>2 DEF TypeInv, FlowsInv, SetsInv, RulingInv, TypeOK, PinType, PinPcs
<1> QED
  BY EnforcementInvariant, <1>1, PTL

\* No connection stays in flight, its retransmits dropped, with nobody to answer.
THEOREM NobodyWaitsForNothing == Spec => []HeldIsOwned
<1>1. IInv => HeldIsOwned
  BY DEF IInv, HeldInv
<1> QED
  BY EnforcementInvariant, <1>1, PTL

\* However resolutions, pins and their two looks at the shared mark interleave,
\* a name's verdict does not rule the names that share its address, but for what
\* a table swap carried back.
THEOREM NoVerdictOnNeighbours == Spec => []SharedUnpinned
<1>1. IInv => SharedUnpinned
  BY DEF IInv, SharedInv, SharedUnpinned, Quiet, Mended
<1> QED
  BY EnforcementInvariant, <1>1, PTL

\* What a revoke leaves behind when it answers is accounted for.
THEOREM RevokesClear == Spec => []RevokeClears
<1>1. IInv => RevokeClears
  <2> SUFFICES ASSUME RevokeInv, NEW d \in revoked, revoke.dest # d, d \notin strays
               PROVE  d \notin memAllow \cup memDeny /\ Marks(d) = {}
    BY DEF IInv, RevokeClears
  <2>1. d \notin memAllow \cup memDeny /\ Elements(d) = {} /\ Opened(d) = {}
    BY DEF RevokeInv
  <2> QED
    BY <2>1 DEF Marks, Elements, Opened
<1> QED
  BY EnforcementInvariant, <1>1, PTL
================================================================================
