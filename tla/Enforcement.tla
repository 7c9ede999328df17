------------------------------- MODULE Enforcement -------------------------------
(***************************************************************************)
(* How verdicts reach the kernel and leave it again, for one interactive   *)
(* workspace: the packet's way through the chain and the queue's consumer  *)
(* (net/nfq.py), the pins and their withdrawal (net/manager.py), the names *)
(* the forwarder remembers (net/dns.py) and the revoke (consent/           *)
(* coordinator.py).                                                        *)
(*                                                                         *)
(* The kernel's elements name addresses; a verdict names a host, and two   *)
(* hosts may live at one address.  Every nft run is awaited, so a pin, a   *)
(* withdrawal, a table swap, a revoke and a resolution overlap freely.     *)
(*                                                                         *)
(* Beside each element the model keeps the verdicts it was installed for,  *)
(* which the kernel does not know.  Ports are left out; the time an        *)
(* element, a name or a cached verdict has left is a lapse that may come   *)
(* at any moment.                                                          *)
(***************************************************************************)
EXTENDS Naturals, FiniteSets, SequencesExt

CONSTANTS
  Names,    \* host names
  Addrs,    \* addresses, which may be ruled on by themselves
  Flows,    \* connections, by source port
  AddrOf,   \* the address each connection dials
  NoFlow,   \* the owner of a pin nobody waits for
  MaxPins,  \* bound: pins under way at once
  MaxEvents \* bound: rulings, revokes, resolutions, swaps and lapses

Dests == Names \cup Addrs
Named(d) == d \in Names

ASSUME EnforcementAssumption ==
  /\ Names \cap Addrs = {}
  /\ NoFlow \notin Flows \cup Dests /\ "once" \notin Dests
  /\ AddrOf \in [Flows -> Addrs]
  /\ MaxPins \in Nat /\ MaxEvents \in Nat

VARIABLES
  row,      \* the durable verdict in effect on each destination
  memAllow, \* destinations the session remembers as allowed
  memDeny,  \* destinations the session remembers as denied
  live,     \* of each address: the names living there, the latest last
  allows,   \* of each address: the verdicts behind its allow element
  rejects,  \* of each address: the verdicts behind its reject element
  resets,   \* connections with a reject element of their own
  cache,    \* the consumer's verdict cache
  held,     \* each connection's decide task
  open,     \* the verdict each established connection came in under
  pins,     \* the pins under way
  query,    \* the forwarder's exchange for each name
  revoke,   \* the revoke under way
  swap,     \* the table swap under way and the elements it read
  revoked,  \* destinations whose verdict was revoked and not renewed
  carried,  \* addresses a swap brought elements back to
  strays,   \* revoked destinations that something may have stayed of
  events    \* outside events so far

memory == <<memAllow, memDeny>>
sets == <<allows, rejects, resets>>
tasks == <<query, revoke, swap>>
ghosts == <<carried, strays>>
vars == <<row, memory, live, sets, cache, held, open, pins, tasks, revoked, ghosts, events>>

NoVerdict == [says |-> "none", dest |-> NoFlow]
IdleFlow == [pc |-> "idle", dest |-> NoFlow, says |-> "none", lasts |-> FALSE]
NoRevoke == [pc |-> "idle", dest |-> NoFlow, targets |-> {}, at |-> NoFlow]
IdleQuery == [pc |-> "idle", learn |-> FALSE, addr |-> NoFlow]
NoSwap == [on |-> FALSE, allows |-> [a \in Addrs |-> {}],
           rejects |-> [a \in Addrs |-> {}], resets |-> {}]

\* What the revoke under way will still find when it lists the addresses.
StillSought ==
  IF revoke.pc \in {"flipped", "flush", "targets"} THEN {revoke.dest} ELSE {}

\* Something of these verdicts is put where their revoke no longer looks.
Stray(D) == strays' = strays \cup ((D \cap revoked) \ StillSought)

\* One outside event more.
Event == events < MaxEvents /\ events' = events + 1

(***************************************************************************)
(* The naming memory.                                                      *)
(***************************************************************************)
LiveNames(a) == {live[a][i] : i \in DOMAIN live[a]}
Shared(a) == Cardinality(LiveNames(a)) > 1

\* A faulty variant: an address without a name stays without one.
HostForBare(a) == IF live[a] = <<>> THEN NoFlow ELSE live[a][Len(live[a])]

\* The latest name to resolve to the address, or the address itself.
HostFor(a) == IF live[a] = <<>> THEN a ELSE live[a][Len(live[a])]

\* A name stands once among the entries of an address.
Without(s, n) == RemoveFirst(s, n)

\* A pairing's time is up, or the whole memory was cleared at its bound.
NameLapses(a) ==
  /\ Event
  /\ \/ \E n \in LiveNames(a) : live' = [live EXCEPT ![a] = Without(@, n)]
     \/ live[a] # <<>> /\ live' = [b \in Addrs |-> <<>>]
  /\ UNCHANGED <<row, memory, sets, cache, held, open, pins, tasks, revoked, ghosts>>

(***************************************************************************)
(* The kernel's elements.                                                  *)
(***************************************************************************)
\* What stood behind the elements of an address is gone with them.
ClearIp(a) ==
  /\ allows' = [allows EXCEPT ![a] = {}]
  /\ rejects' = [rejects EXCEPT ![a] = {}]
  /\ resets' = {f \in resets : AddrOf[f] # a}
  /\ carried' = carried \ {a}

ElementLapses(a) ==
  /\ Event
  /\ \/ allows[a] # {} /\ allows' = [allows EXCEPT ![a] = {}] /\ UNCHANGED <<rejects, resets>>
     \/ rejects[a] # {} /\ rejects' = [rejects EXCEPT ![a] = {}] /\ UNCHANGED <<allows, resets>>
  /\ UNCHANGED <<row, memory, live, cache, held, open, pins, tasks, revoked, ghosts>>

ResetLapses(f) ==
  /\ Event
  /\ f \in resets
  /\ resets' = resets \ {f}
  /\ UNCHANGED <<row, memory, live, allows, rejects, cache, held, open, pins, tasks,
                 revoked, ghosts>>

(***************************************************************************)
(* A pin: an nft run that adds an element, between two looks at whether    *)
(* the address is shared.                                                  *)
(***************************************************************************)
Pin(kind, d, f, a, waits) ==
  [kind |-> kind, dest |-> d, flow |-> f, addr |-> a, waits |-> waits, pc |-> "start"]

Spawn(p) == pins' = pins \cup {p}

\* The pin goes on from one await to the next.
Advance(p, pc) == pins' = (pins \ {p}) \cup {[p EXCEPT !.pc = pc]}

\* A faulty variant: the connection is answered and stays in flight.
AnsweredInFlight(p) ==
  /\ UNCHANGED held
  /\ open' = IF p.waits /\ p.kind = "allow" THEN [open EXCEPT ![p.flow] = p.dest] ELSE open
  /\ Stray(IF p.waits /\ p.kind = "allow" THEN {p.dest} ELSE {})

\* The packet that waits for a pin is answered when the pin is done.
Answered(p) ==
  IF p.waits
    THEN /\ held' = [held EXCEPT ![p.flow] = IdleFlow]
         /\ open' = [open EXCEPT ![p.flow] =
                       IF p.kind = "allow" THEN p.dest ELSE @]
         /\ Stray(IF p.kind = "allow" THEN {p.dest} ELSE {})
    ELSE UNCHANGED <<held, open, strays>>

Finish(p) == pins' = pins \ {p} /\ Answered(p)

\* skips_shared_pin and reject_is_per_flow: a verdict on a name, at an address
\* that more than one live name resolved to.
OverBroad(p) == Named(p.dest) /\ Shared(p.addr)

PinStarts(p) ==
  /\ p.pc = "start"
  /\ \/ /\ OverBroad(p) /\ p.kind = "allow"
        /\ Finish(p)
     \/ /\ OverBroad(p) /\ p.kind = "reject"
        /\ Advance(p, "own") /\ UNCHANGED <<held, open, strays>>
     \/ /\ ~OverBroad(p)
        /\ Advance(p, "add") /\ UNCHANGED <<held, open, strays>>
  /\ UNCHANGED <<row, memory, live, sets, cache, tasks, revoked, carried, events>>

PinAdds(p) ==
  /\ p.pc = "add"
  /\ IF p.kind = "allow"
       THEN /\ allows' = [allows EXCEPT ![p.addr] = @ \cup {p.dest}]
            /\ UNCHANGED rejects
       ELSE /\ rejects' = [rejects EXCEPT ![p.addr] = @ \cup {p.dest}]
            /\ UNCHANGED allows
  /\ Stray({p.dest})
  /\ Advance(p, "check")
  /\ UNCHANGED <<row, memory, live, resets, cache, held, open, tasks, revoked, carried, events>>

\* A faulty variant: the shared mark is looked at once, before the run.
PinChecksOnce(p) ==
  /\ p.pc = "check"
  /\ Finish(p)
  /\ UNCHANGED <<row, memory, live, sets, cache, tasks, revoked, carried, events>>

\* A second name may have come while the run was under way.
PinChecks(p) ==
  /\ p.pc = "check"
  /\ IF OverBroad(p)
       THEN Advance(p, "withdraw") /\ UNCHANGED <<held, open, strays>>
       ELSE Finish(p)
  /\ UNCHANGED <<row, memory, live, sets, cache, tasks, revoked, carried, events>>

\* An allow takes everything off the address; a reject only the elements of its
\* port, before its own connection gets one.
PinWithdraws(p) ==
  /\ p.pc = "withdraw"
  /\ IF p.kind = "allow"
       THEN ClearIp(p.addr) /\ Advance(p, "restore")
       ELSE /\ allows' = [allows EXCEPT ![p.addr] = {}]
            /\ rejects' = [rejects EXCEPT ![p.addr] = {}]
            /\ carried' = carried \ {p.addr}
            /\ Advance(p, "own")
            /\ UNCHANGED resets
  /\ UNCHANGED <<row, memory, live, cache, held, open, tasks, revoked, strays, events>>

\* forever_pins: the durable verdicts given by address.
DurablePins ==
  {Pin(IF row[a] = "allowed" THEN "allow" ELSE "reject", a, NoFlow, a, FALSE) :
     a \in {b \in Addrs : row[b] # "none"}}

PinRestores(p) ==
  /\ p.pc = "restore"
  /\ pins' = (pins \ {p}) \cup DurablePins
  /\ Answered(p)
  /\ UNCHANGED <<row, memory, live, sets, cache, tasks, revoked, carried, events>>

PinOwnFlow(p) ==
  /\ p.pc = "own"
  /\ resets' = resets \cup {p.flow}
  /\ Finish(p)
  /\ UNCHANGED <<row, memory, live, allows, rejects, cache, tasks, revoked, carried, events>>

PinStep(p) ==
  \/ PinStarts(p) \/ PinAdds(p) \/ PinChecks(p)
  \/ PinWithdraws(p) \/ PinRestores(p) \/ PinOwnFlow(p)

(***************************************************************************)
(* A packet of a new connection: the chain, then the queue's consumer.     *)
(***************************************************************************)
\* An allow element is matched before any reject.
Passes(f) == allows[AddrOf[f]] # {}
Refused(f) == ~Passes(f) /\ (f \in resets \/ rejects[AddrOf[f]] # {})
Queued(f) == open[f] = NoFlow /\ ~Passes(f) /\ ~Refused(f)
Room == Cardinality(pins) < MaxPins

\* The chain accepts it under whichever verdict stands behind the element.
ChainAccepts(f) ==
  /\ open[f] = NoFlow /\ Passes(f)
  /\ \E d \in allows[AddrOf[f]] : open' = [open EXCEPT ![f] = d]
  /\ UNCHANGED <<row, memory, live, sets, cache, held, pins, tasks, revoked, ghosts, events>>

\* The connection ends by itself.
FlowCloses(f) ==
  /\ Event
  /\ open[f] # NoFlow
  /\ open' = [open EXCEPT ![f] = NoFlow]
  /\ UNCHANGED <<row, memory, live, sets, cache, held, pins, tasks, revoked, ghosts>>

\* A retransmit of a decided connection: a cached deny pins its refusal again.
CachedVerdict(f) ==
  /\ Queued(f) /\ cache[f] # NoVerdict
  /\ IF cache[f].says = "allow"
       THEN /\ open' = [open EXCEPT ![f] = cache[f].dest]
            /\ Stray({cache[f].dest})
            /\ UNCHANGED pins
       ELSE /\ Room
            /\ Spawn(Pin("reject", cache[f].dest, f, AddrOf[f], FALSE))
            /\ Stray({cache[f].dest})
            /\ UNCHANGED open
  /\ UNCHANGED <<row, memory, live, sets, cache, held, tasks, revoked, carried, events>>

CacheLapses(f) ==
  /\ Event
  /\ cache[f] # NoVerdict
  /\ cache' = [cache EXCEPT ![f] = NoVerdict]
  /\ UNCHANGED <<row, memory, live, sets, held, open, pins, tasks, revoked, ghosts>>

\* The session's verdict on the name that came last covers the packet; an allow
\* is looked for first.
SessionGate(f) ==
  LET d == HostFor(AddrOf[f]) IN
  /\ Queued(f) /\ cache[f] = NoVerdict /\ held[f] = IdleFlow
  /\ d \in memAllow \cup memDeny /\ Room
  /\ IF d \in memAllow
       THEN /\ Spawn(Pin("allow", d, f, AddrOf[f], FALSE))
            /\ open' = [open EXCEPT ![f] = d]
            /\ cache' = [cache EXCEPT ![f] = [says |-> "allow", dest |-> d]]
       ELSE /\ Spawn(Pin("reject", d, f, AddrOf[f], FALSE))
            /\ cache' = [cache EXCEPT ![f] = [says |-> "deny", dest |-> d]]
            /\ UNCHANGED open
  /\ Stray({d})
  /\ UNCHANGED <<row, memory, live, sets, held, tasks, revoked, carried, events>>

\* Nothing covers it: it is held for a verdict on the name of this moment.
Hold(f) ==
  LET d == HostFor(AddrOf[f]) IN
  /\ Queued(f) /\ cache[f] = NoVerdict /\ held[f] = IdleFlow
  /\ d \notin memAllow \cup memDeny
  /\ held' = [held EXCEPT ![f] = [IdleFlow EXCEPT !.pc = "held", !.dest = d]]
  /\ UNCHANGED <<row, memory, live, sets, cache, open, pins, tasks, revoked, ghosts, events>>

\* A decider's verdict is committed; one that lasts is a durable row.
Rule(f, says, lasts) ==
  LET d == held[f].dest IN
  /\ Event
  /\ held[f].pc = "held"
  /\ held' = [held EXCEPT ![f] = [@ EXCEPT !.pc = "ruled", !.says = says, !.lasts = lasts]]
  /\ IF lasts
       THEN /\ row' = [row EXCEPT ![d] = IF says = "allow" THEN "allowed" ELSE "denied"]
            /\ revoked' = revoked \ {d}
            /\ strays' = strays \ {d}
       ELSE UNCHANGED <<row, revoked, strays>>
  /\ UNCHANGED <<memory, live, sets, cache, open, pins, tasks, carried>>

\* resolve resumes: the future is answered and the session remembers.
Resolve(f) ==
  LET d == held[f].dest IN
  /\ held[f].pc = "ruled"
  /\ held' = [held EXCEPT ![f].pc = "answered"]
  /\ memAllow' = IF held[f].lasts /\ held[f].says = "allow" THEN memAllow \cup {d} ELSE memAllow
  /\ memDeny' = IF held[f].lasts /\ held[f].says = "deny" THEN memDeny \cup {d} ELSE memDeny
  /\ strays' = IF held[f].lasts /\ d \in revoked /\ ~(revoke.pc = "flipped" /\ revoke.dest = d)
                THEN strays \cup {d} ELSE strays
  /\ UNCHANGED <<row, live, sets, cache, open, pins, tasks, revoked, carried, events>>

\* The consumer resumes: the verdict is cached, and pinned unless it allows
\* this connection alone.
ApplyVerdict(f) ==
  LET d == held[f].dest
      kind == IF held[f].says = "allow" THEN "allow" ELSE "reject" IN
  /\ held[f].pc = "answered"
  /\ cache' = [cache EXCEPT ![f] = [says |-> held[f].says, dest |-> d]]
  /\ \/ /\ held[f].says = "allow" /\ ~held[f].lasts
        /\ held' = [held EXCEPT ![f] = IdleFlow]
        /\ open' = [open EXCEPT ![f] = "once"]
        /\ UNCHANGED pins
     \/ /\ held[f].lasts \/ held[f].says = "deny"
        /\ held' = [held EXCEPT ![f].pc = "pinning"]
        /\ Spawn(Pin(kind, d, f, AddrOf[f], TRUE))
        /\ UNCHANGED open
  /\ UNCHANGED <<row, memory, live, sets, tasks, revoked, ghosts, events>>

(***************************************************************************)
(* The forwarder: a query is classified, exchanged, remembered, and its    *)
(* answer's addresses pinned when a verdict covers the name.               *)
(***************************************************************************)
Classify(n) ==
  /\ Event
  /\ query[n].pc = "idle" /\ row[n] # "denied"
  /\ query' = [query EXCEPT ![n] =
       [pc |-> "asked", learn |-> n \in memAllow \/ row[n] = "allowed", addr |-> NoFlow]]
  /\ UNCHANGED <<row, memory, live, sets, cache, held, open, pins, revoke, swap,
                 revoked, ghosts>>

\* Nobody answers, or an answer of before is served again.
NotLearnt(n) ==
  /\ query[n].pc = "asked"
  /\ query' = [query EXCEPT ![n] = IdleQuery]
  /\ UNCHANGED <<row, memory, live, sets, cache, held, open, pins, revoke, swap,
                 revoked, ghosts, events>>

\* The answer is remembered at once; an address where a second name arrives has
\* its elements withdrawn before anything is pinned.
Remember(n, a) ==
  /\ query[n].pc = "asked"
  /\ live' = [live EXCEPT ![a] = Append(Without(@, n), n)]
  /\ query' = [query EXCEPT ![n].addr = a,
       ![n].pc = IF LiveNames(a) # {} /\ n \notin LiveNames(a)
                   THEN "retract" ELSE "learn"]
  /\ UNCHANGED <<row, memory, sets, cache, held, open, pins, revoke, swap,
                 revoked, ghosts, events>>

Retract(n) ==
  /\ query[n].pc = "retract"
  /\ ClearIp(query[n].addr)
  /\ query' = [query EXCEPT ![n].pc = "restore"]
  /\ UNCHANGED <<row, memory, live, cache, held, open, pins, revoke, swap, revoked, strays, events>>

Restore(n) ==
  /\ query[n].pc = "restore"
  /\ pins' = pins \cup DurablePins
  /\ query' = [query EXCEPT ![n].pc = "learn"]
  /\ UNCHANGED <<row, memory, live, sets, cache, held, open, revoke, swap, revoked, ghosts, events>>

Learn(n) ==
  /\ query[n].pc = "learn"
  /\ IF query[n].learn
       THEN Room /\ Spawn(Pin("allow", n, NoFlow, query[n].addr, FALSE))
       ELSE UNCHANGED pins
  /\ query' = [query EXCEPT ![n] = IdleQuery]
  /\ UNCHANGED <<row, memory, live, sets, cache, held, open, revoke, swap, revoked, ghosts, events>>

QueryStep(n) ==
  \/ Classify(n) \/ NotLearnt(n) \/ Retract(n) \/ Restore(n) \/ Learn(n)
  \/ \E a \in Addrs : Remember(n, a)

(***************************************************************************)
(* A revoke: the row, the session, the per-connection refusals, and then   *)
(* each address the destination covers.                                    *)
(***************************************************************************)
RevokeFlip(d) ==
  /\ Event
  /\ revoke.pc = "idle" /\ row[d] # "none"
  /\ row' = [row EXCEPT ![d] = "none"]
  /\ revoked' = revoked \cup {d}
  /\ revoke' = [NoRevoke EXCEPT !.pc = "flipped", !.dest = d]
  /\ UNCHANGED <<memory, live, sets, cache, held, open, pins, query, swap, ghosts>>

\* A faulty variant: the session forgets what it allowed and goes on denying.
RevokeForgetAllow ==
  /\ revoke.pc = "flipped"
  /\ memAllow' = memAllow \ {revoke.dest}
  /\ UNCHANGED memDeny
  /\ revoke' = [revoke EXCEPT !.pc = "flush"]
  /\ UNCHANGED <<row, live, sets, cache, held, open, pins, query, swap, revoked, ghosts, events>>

RevokeForget ==
  /\ revoke.pc = "flipped"
  /\ memAllow' = memAllow \ {revoke.dest}
  /\ memDeny' = memDeny \ {revoke.dest}
  /\ revoke' = [revoke EXCEPT !.pc = "flush"]
  /\ UNCHANGED <<row, live, sets, cache, held, open, pins, query, swap, revoked, ghosts, events>>

RevokeFlush ==
  /\ revoke.pc = "flush"
  /\ resets' = {}
  /\ revoke' = [revoke EXCEPT !.pc = "targets"]
  /\ UNCHANGED <<row, memory, live, allows, rejects, cache, held, open, pins, query, swap,
                 revoked, ghosts, events>>

\* Where a verdict of a name left something behind on an address.
Marks(d) == {a \in Addrs :
               \/ d \in allows[a] \cup rejects[a]
               \/ \E f \in Flows : AddrOf[f] = a /\ open[f] = d}

\* dest_addresses: the name's live addresses, which it forgets, and itself.
RevokeTargets ==
  LET d == revoke.dest
      targets == {a \in Addrs : d \in LiveNames(a) \cup {a}} IN
  /\ revoke.pc = "targets"
  /\ live' = [a \in Addrs |-> Without(live[a], d)]
  /\ revoke' = [revoke EXCEPT !.pc = "clear", !.targets = targets]
  /\ strays' = IF Marks(d) \subseteq targets THEN strays ELSE strays \cup {d}
  /\ UNCHANGED <<row, memory, sets, cache, held, open, pins, query, swap, revoked, carried, events>>

\* First the elements of the address, so that nothing enters, ...
RevokeClear(a) ==
  /\ revoke.pc = "clear" /\ a \in revoke.targets
  /\ allows' = [allows EXCEPT ![a] = {}]
  /\ rejects' = [rejects EXCEPT ![a] = {}]
  /\ carried' = carried \ {a}
  /\ revoke' = [revoke EXCEPT !.pc = "drop", !.targets = @ \ {a}, !.at = a]
  /\ UNCHANGED <<row, memory, live, resets, cache, held, open, pins, query, swap,
                 revoked, strays, events>>

\* ... then the connections to it that are established.
RevokeDrop ==
  /\ revoke.pc = "drop"
  /\ open' = [f \in Flows |-> IF AddrOf[f] = revoke.at THEN NoFlow ELSE open[f]]
  /\ revoke' = [revoke EXCEPT !.pc = "clear", !.at = NoFlow]
  /\ UNCHANGED <<row, memory, live, sets, cache, held, pins, query, swap, revoked, ghosts, events>>

RevokeDone ==
  /\ revoke.pc = "clear" /\ revoke.targets = {}
  /\ revoke' = NoRevoke
  /\ UNCHANGED <<row, memory, live, sets, cache, held, open, pins, query, swap, revoked, ghosts, events>>

(***************************************************************************)
(* A swap of the whole table carries the elements it read across.          *)
(***************************************************************************)
Snapshot ==
  /\ Event
  /\ ~swap.on
  /\ swap' = [on |-> TRUE, allows |-> allows, rejects |-> rejects, resets |-> resets]
  /\ UNCHANGED <<row, memory, live, sets, cache, held, open, pins, query, revoke,
                 revoked, ghosts>>

Install ==
  LET back(a) == (swap.allows[a] \ allows[a]) \cup (swap.rejects[a] \ rejects[a]) IN
  /\ swap.on
  /\ allows' = swap.allows /\ rejects' = swap.rejects /\ resets' = swap.resets
  /\ carried' = carried \cup {a \in Addrs : back(a) # {}}
  /\ Stray(UNION {back(a) : a \in Addrs})
  /\ swap' = NoSwap
  /\ UNCHANGED <<row, memory, live, cache, held, open, pins, query, revoke, revoked, events>>

\* A daemon's life begins with the durable verdicts of the lives before it.
Init ==
  /\ row \in [Dests -> {"none", "allowed"}]
  /\ memAllow = {} /\ memDeny = {}
  /\ live = [a \in Addrs |-> <<>>]
  /\ allows = [a \in Addrs |-> IF row[a] = "allowed" THEN {a} ELSE {}]
  /\ rejects = [a \in Addrs |-> {}]
  /\ resets = {}
  /\ cache = [f \in Flows |-> NoVerdict]
  /\ held = [f \in Flows |-> IdleFlow]
  /\ open = [f \in Flows |-> NoFlow]
  /\ pins = {}
  /\ query = [n \in Names |-> IdleQuery]
  /\ revoke = NoRevoke /\ swap = NoSwap
  /\ revoked = {} /\ carried = {} /\ strays = {} /\ events = 0

FlowStep(f) ==
  \/ ChainAccepts(f) \/ FlowCloses(f) \/ CachedVerdict(f)
  \/ SessionGate(f) \/ Hold(f) \/ Resolve(f) \/ ApplyVerdict(f)
  \/ \E says \in {"allow", "deny"}, lasts \in BOOLEAN : Rule(f, says, lasts)

RevokeStep ==
  \/ \E d \in Dests : RevokeFlip(d)
  \/ RevokeForget \/ RevokeFlush \/ RevokeTargets \/ RevokeDrop \/ RevokeDone
  \/ \E a \in Addrs : RevokeClear(a)

Lapse ==
  \/ \E a \in Addrs : NameLapses(a) \/ ElementLapses(a)
  \/ \E f \in Flows : ResetLapses(f) \/ CacheLapses(f)

Next ==
  \/ \E p \in pins : PinStep(p)
  \/ \E f \in Flows : FlowStep(f)
  \/ \E n \in Names : QueryStep(n)
  \/ RevokeStep \/ Snapshot \/ Install \/ Lapse

Spec == Init /\ [][Next]_vars

-----------------------------------------------------------------------------
(***************************************************************************)
(* Properties.                                                             *)
(***************************************************************************)
\* Every variable keeps its type.
TypeOK ==
  /\ row \in [Dests -> {"none", "allowed", "denied"}]
  /\ memAllow \subseteq Dests /\ memDeny \subseteq Dests
  /\ DOMAIN live = Addrs /\ \A a \in Addrs : LiveNames(a) \subseteq Names
  /\ allows \in [Addrs -> SUBSET Dests] /\ rejects \in [Addrs -> SUBSET Dests]
  /\ resets \subseteq Flows
  /\ cache \in [Flows -> [says : {"none", "allow", "deny"}, dest : Dests \cup {NoFlow}]]
  /\ held \in [Flows ->
       [pc : {"idle", "held", "ruled", "answered", "pinning"},
        dest : Dests \cup {NoFlow}, says : {"none", "allow", "deny"}, lasts : BOOLEAN]]
  /\ open \in [Flows -> Dests \cup {NoFlow, "once"}]
  /\ pins \subseteq
       [kind : {"allow", "reject"}, dest : Dests, flow : Flows \cup {NoFlow},
        addr : Addrs, waits : BOOLEAN,
        pc : {"start", "add", "check", "withdraw", "restore", "own"}]
  /\ revoked \subseteq Dests /\ carried \subseteq Addrs
  /\ strays \subseteq Dests /\ events \in 0..MaxEvents

\* Nobody is changing the elements of the address.
Quiet(a) ==
  /\ \A p \in pins : p.addr # a
  /\ \A n \in Names : query[n].pc \in {"retract", "restore"} => query[n].addr # a

\* While two live names share an address, no element of a verdict on a name
\* stands there, however the resolutions, the pins and their two looks at the
\* shared mark interleaved: one name's verdict would rule its neighbour.  A table
\* swap that carries withdrawn elements back is the exception.
SharedUnpinned ==
  \A a \in Addrs :
    Shared(a) /\ Quiet(a) /\ a \notin carried =>
      (allows[a] \cup rejects[a]) \cap Names = {}

\* Once a revoke has answered, nothing of the verdict is left until the
\* destination is ruled on again: no element, no memory, no established
\* connection.  What stays is accounted for: a pin or a resolve that was under
\* way, a swap that carried the element across, an address whose name had lapsed,
\* a retransmit the consumer's cache answers.
RevokeClears ==
  \A d \in revoked :
    revoke.dest # d /\ (d \in memAllow \cup memDeny \/ Marks(d) # {}) =>
      d \in strays

\* Every packet held for a verdict has one task that will answer it, and a task
\* that waits for a pin has that pin under way: no connection stays in flight, its
\* retransmits dropped, with nobody to answer.
HeldIsOwned ==
  \A f \in Flows :
    held[f].pc = "pinning" <=> \E p \in pins : p.waits /\ p.flow = f

================================================================================
