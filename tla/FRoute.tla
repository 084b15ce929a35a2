------------------------------- MODULE FRoute -------------------------------
(***************************************************************************)
(* ProtoFRoute (froute.hpp): radio nodes that pass packets on to a next    *)
(* hop when the receiver can no longer be reached directly.                *)
(*                                                                         *)
(* A node learns who is there from advertisements, which answer its        *)
(* broadcast search, and remembers who sends through it: from those it     *)
(* never chooses, and to those it does not send directly.  Packets travel  *)
(* over a lossy link layer (REP over FEP) that delivers to neighbours      *)
(* only, in the order they are on the air; neighbours come and go.         *)
(***************************************************************************)
EXTENDS Integers, Sequences, FiniteSets, SequencesExt

CONSTANTS Node,         \* addresses, within 1..15
          Broadcast,    \* broadcast_addr_
          Topologies,   \* the neighbour relations a behaviour may start with
          Flows,        \* <<node, goal>> of the packets applications send, each once
          Starter,      \* nodes whose application calls Start
          MaxEvents     \* bound: searches of the threads, links that come or go,
                        \* and packets lost

kMaxRecords == 32
NoHop == 0
kNone == 0
kFlagsDetectDevices == 1
kFlagsNewDevice == 2

ASSUME AddressAssumption ==
  /\ Node \subseteq 1..15 /\ IsFiniteSet(Node)
  /\ Broadcast \in 16..255 /\ Starter \subseteq Node
  /\ \A T \in Topologies : /\ T \subseteq Node \X Node
                           /\ \A p \in T : <<p[2], p[1]>> \in T /\ p[1] # p[2]
  /\ Flows \subseteq Node \X (Node \cup {Broadcast})
  /\ \A f \in Flows : f[1] # f[2]
  /\ MaxEvents \in Nat

VARIABLES
  links,       \* who hears whom
  wereLinked,  \* who ever did (history)
  started,     \* Start was called
  incoming,    \* addresses_imcoming_, the nodes that sent through this one
  candidates,  \* addresses_hop_candidate_
  next_hop_,
  net,         \* packets each node has still to receive
  delivered,   \* packets handed to the applications (history)
  sent,        \* the flows whose packet is sent
  ticks, faults

tables == <<incoming, candidates, next_hop_>>
counters == <<sent, ticks, faults>>
vars == <<links, wereLinked, started, tables, net, delivered, counters>>

Init ==
  /\ links \in Topologies /\ wereLinked = links
  /\ started = {}
  /\ incoming = [n \in Node |-> {}]
  /\ candidates = [n \in Node |-> <<>>]
  /\ next_hop_ = [n \in Node |-> NoHop]
  /\ net = [n \in Node |-> <<>>] /\ delivered = {}
  /\ sent = {} /\ ticks = 0 /\ faults = 0

-----------------------------------------------------------------------------
Recorded(s, a) == a \in ToSet(s)
Add(s, a) == IF Recorded(s, a) \/ Len(s) >= kMaxRecords THEN s ELSE Append(s, a)

(***************************************************************************)
(* A packet on the air: from hop, with the header of froute and perhaps an *)
(* avoid list.  prev is history: where hop had it from.                    *)
(***************************************************************************)
Neighbours(n) == {k \in Node : <<n, k>> \in links}

OnAir(n, p) == [p EXCEPT !.hop = n, !.goal = IF @ = Broadcast THEN 0 ELSE @]

\* upper_stream_.Send(to, ...) of node n, when air is on the air.
Emit(air, n, to, p) ==
  [k \in Node |-> IF k \in Neighbours(n) /\ to \in {k, Broadcast}
                  THEN Append(air[k], OnAir(n, p)) ELSE air[k]]

Own(n, goal, flag, avoid) ==
  [hop |-> n, prev |-> NoHop, from |-> n, goal |-> goal, flag |-> flag, avoid |-> avoid]

\* FindHopTo, and ProcessAction of kFindNewHopTo; kAdvertiseSelf.
Search(air, n, avoid) ==
  Emit(air, n, Broadcast, Own(n, Broadcast, kFlagsDetectDevices, avoid))
Advertise(air, n) == Emit(air, n, Broadcast, Own(n, Broadcast, kFlagsNewDevice, {}))

\* DoSend: the goal becomes a candidate for the next hop, and the way goes
\* over the next hop only to those who once sent through this node.
CandidatesAfter(n, goal) ==
  IF goal = Broadcast THEN candidates[n] ELSE Add(candidates[n], goal)

\* slip: every packet goes over the hop of before, which may be its sender
SlipStaleHop(n, goal, inc, hop) == IF next_hop_[n] # NoHop THEN next_hop_[n] ELSE goal

\* slip: every packet goes over the next hop
SlipAlwaysHop(n, goal, inc, hop) == IF hop # NoHop THEN hop ELSE goal

SendTo(n, goal, inc, hop) == IF goal \in inc THEN hop ELSE goal

-----------------------------------------------------------------------------
Start(n) ==
  /\ n \in Starter \ started
  /\ started' = started \cup {n}
  /\ net' = IF next_hop_[n] = NoHop THEN Search(net, n, incoming[n]) ELSE net
  /\ UNCHANGED <<links, wereLinked, tables, delivered, counters>>

\* The thread: no hop for ten ticks.
Tick(n) ==
  /\ n \in started /\ next_hop_[n] = NoHop /\ ticks + faults < MaxEvents
  /\ ticks' = ticks + 1
  /\ net' = Search(net, n, incoming[n])
  /\ UNCHANGED <<links, wereLinked, started, tables, delivered, sent, faults>>

Send(n, goal) ==
  /\ <<n, goal>> \in Flows \ sent
  /\ sent' = sent \cup {<<n, goal>>}
  /\ candidates' = [candidates EXCEPT ![n] = CandidatesAfter(n, goal)]
  /\ net' = Emit(net, n, SendTo(n, goal, incoming[n], next_hop_[n]),
                 Own(n, goal, kNone, {}))
  /\ UNCHANGED <<links, wereLinked, started, incoming, next_hop_, delivered, ticks,
                 faults>>

(***************************************************************************)
(* The receive callback.  A packet with a goal records its sender as one   *)
(* who sends through this node; if that was the next hop, another is       *)
(* searched.  It is passed on, or its flags are looked at.                 *)
(***************************************************************************)
IncomingAfter(n, m) ==
  IF m.goal # 0 THEN incoming[n] \cup {m.hop} ELSE incoming[n]

HopAfter(n, m) == IF m.goal # 0 /\ m.hop = next_hop_[n] THEN NoHop ELSE next_hop_[n]

\* What is on the air once n has taken m off it and perhaps searched.
AirAfter(n, m) ==
  LET air == [net EXCEPT ![n] = Tail(@)]
  IN  IF m.goal # 0 /\ m.hop = next_hop_[n]
      THEN Search(air, n, IncomingAfter(n, m)) ELSE air

ForMe(n, m) == m.goal \in {0, n}

Forward(n, m) ==
  /\ ~ForMe(n, m)
  /\ next_hop_' = [next_hop_ EXCEPT ![n] = HopAfter(n, m)]
  /\ candidates' = [candidates EXCEPT ![n] = CandidatesAfter(n, m.goal)]
  /\ net' = Emit(AirAfter(n, m), n,
                 SendTo(n, m.goal, IncomingAfter(n, m), HopAfter(n, m)),
                 [m EXCEPT !.prev = m.hop])
  /\ UNCHANGED delivered

\* slip: only nodes that are started answer
SlipAnswers(n, m) == n \in started /\ n \notin m.avoid

Answers(n, m) == n \notin m.avoid

Detect(n, m) ==
  /\ ForMe(n, m) /\ m.flag = kFlagsDetectDevices
  /\ next_hop_' = [next_hop_ EXCEPT ![n] = HopAfter(n, m)]
  /\ net' = IF Answers(n, m) THEN Advertise(AirAfter(n, m), n) ELSE AirAfter(n, m)
  /\ UNCHANGED <<candidates, delivered>>

\* UpdateNextHop drops a next hop that sends through this node, and takes the
\* oldest candidate if there is no hop.
KeepsHop(hop, inc) == hop # NoHop /\ hop \notin inc

TakeCandidate(n, cands) ==
  /\ next_hop_' = [next_hop_ EXCEPT ![n] = Head(cands)]
  /\ candidates' = [candidates EXCEPT ![n] = Tail(cands)]

(***************************************************************************)
(* An advertisement.  Those who send through this node are not listened    *)
(* to.  There is a candidate, the advertiser, so FindHopTo is not reached. *)
(***************************************************************************)
NewDevice(n, m) ==
  /\ ForMe(n, m) /\ m.flag = kFlagsNewDevice
  /\ LET hop == HopAfter(n, m)
         inc == IncomingAfter(n, m)
         cands == Add(candidates[n], m.hop)
     IN  \/ /\ m.hop \in inc
            /\ next_hop_' = [next_hop_ EXCEPT ![n] = hop]
            /\ UNCHANGED candidates
         \/ /\ m.hop \notin inc /\ KeepsHop(hop, inc)
            /\ candidates' = [candidates EXCEPT ![n] = cands]
            /\ UNCHANGED next_hop_
         \/ m.hop \notin inc /\ ~KeepsHop(hop, inc) /\ TakeCandidate(n, cands)
  /\ net' = AirAfter(n, m)
  /\ UNCHANGED delivered

Dispatch(n, m) ==
  /\ ForMe(n, m) /\ m.flag = kNone
  /\ next_hop_' = [next_hop_ EXCEPT ![n] = HopAfter(n, m)]
  /\ net' = AirAfter(n, m)
  /\ delivered' = delivered \cup {[from |-> m.from, at |-> n]}
  /\ UNCHANGED candidates

Receive(n) ==
  /\ net[n] # <<>>
  /\ LET m == Head(net[n])
     IN  /\ incoming' = [incoming EXCEPT ![n] = IncomingAfter(n, m)]
         /\ Forward(n, m) \/ Detect(n, m) \/ NewDevice(n, m) \/ Dispatch(n, m)
  /\ UNCHANGED <<links, wereLinked, started, counters>>

-----------------------------------------------------------------------------
Lose(n) ==
  /\ net[n] # <<>> /\ ticks + faults < MaxEvents
  /\ faults' = faults + 1
  /\ net' = [net EXCEPT ![n] = Tail(@)]
  /\ UNCHANGED <<links, wereLinked, started, tables, delivered, sent, ticks>>

\* Two nodes move into or out of each other's reach; what is on its way still
\* arrives.
Move(a, b) ==
  /\ ticks + faults < MaxEvents
  /\ faults' = faults + 1
  /\ links' = IF <<a, b>> \in links THEN links \ {<<a, b>>, <<b, a>>}
                                   ELSE links \cup {<<a, b>>, <<b, a>>}
  /\ wereLinked' = wereLinked \cup links'
  /\ UNCHANGED <<started, tables, net, delivered, sent, ticks>>

Next ==
  \/ \E n \in Node : Start(n) \/ Tick(n) \/ \E g \in Node \cup {Broadcast} : Send(n, g)
  \/ \E n \in Node : Receive(n) \/ Lose(n)
  \/ \E a, b \in Node : a < b /\ Move(a, b)

Spec == Init /\ [][Next]_vars

\* A packet that is not lost is received.
FairSpec == Spec /\ \A n \in Node : WF_vars(Receive(n))

-----------------------------------------------------------------------------
Address == Node \cup {NoHop}
Message == [hop : Node, prev : Address, from : Node, goal : Address, flag : 0..2,
            avoid : SUBSET Node]

\* Every variable has its type.
TypeOK ==
  /\ links \subseteq Node \X Node /\ wereLinked \subseteq Node \X Node
  /\ started \subseteq Node
  /\ incoming \in [Node -> SUBSET Node]
  /\ candidates \in [Node -> Seq(Node)]
  /\ next_hop_ \in [Node -> Address]
  /\ net \in [Node -> Seq(Message)]
  /\ delivered \subseteq [from : Node, at : Node]
  /\ sent \subseteq Flows /\ ticks \in Nat /\ faults \in Nat

OnAirTo(n) == ToSet(net[n])

(***************************************************************************)
(* "avoid bidirectional loop": no node passes a packet back to the node it *)
(* has it from, whatever tables, losses and broken links led to its choice *)
(* of a next hop.                                                          *)
(***************************************************************************)
NoBounce == \A n \in Node : \A m \in OnAirTo(n) : m.prev # n

(***************************************************************************)
(* The next hop replaces a direct link, it does not extend it: a packet    *)
(* arrives only at nodes its sender has been in direct reach of.  To one   *)
(* that never was, it is sent directly, and lost.                          *)
(***************************************************************************)
OnlyFormerNeighbours ==
  \A d \in delivered : <<d.from, d.at>> \in wereLinked

Disturbed == sent # {} \/ faults > 0

(***************************************************************************)
(* A node that starts finds a next hop if it has a neighbour and nobody    *)
(* sends, loses or leaves meanwhile: the neighbour answers its search,     *)
(* started or not.                                                         *)
(***************************************************************************)
HopFound ==
  \A n \in Node :
    n \in started /\ Neighbours(n) # {} ~> next_hop_[n] # NoHop \/ Disturbed
=============================================================================
