---------------------------- MODULE FRouteProofs ----------------------------
(***************************************************************************)
(* FRoute, for every set of nodes, every start topology and every sequence *)
(* of moves and losses: no packet goes back to where it came from, and a   *)
(* packet arrives only at nodes its sender once was in reach of.           *)
(***************************************************************************)
EXTENDS FRoute, TLAPS

\* Packets before they are on the air still carry the broadcast address.
Packet == [hop : Node, prev : Address, from : Node, goal : Address \cup {Broadcast},
           flag : 0..2, avoid : SUBSET Node]

Air == [Node -> Seq(Message)]

Symmetric ==
  /\ links \subseteq wereLinked
  /\ \A p \in wereLinked : <<p[2], p[1]>> \in wereLinked

IncomingLinked == \A n \in Node : \A k \in incoming[n] : <<n, k>> \in wereLinked

\* What is known of a packet m on its way to k.
Sound(m, k) ==
  /\ <<m.hop, k>> \in wereLinked
  /\ m.prev # k
  /\ m.goal = 0 => m.from = m.hop
  /\ m.goal # 0 => \/ <<m.from, m.goal>> \in wereLinked
                   \/ k = m.goal /\ m.from = m.hop

AllSound == \A k \in Node : \A m \in OnAirTo(k) : Sound(m, k)

\* The tables and the packets on the air, which every step depends on.
IInv == TypeOK /\ Symmetric /\ IncomingLinked /\ AllSound /\ OnlyFormerNeighbours

LEMMA Addresses ==
  /\ NoHop \notin Node /\ NoHop = 0 /\ Broadcast \notin Address /\ Broadcast # 0
  /\ \A T \in Topologies : T \subseteq Node \X Node /\ \A p \in T : <<p[2], p[1]>> \in T
BY AddressAssumption DEF NoHop, Address

LEMMA Flags == kNone \in 0..2 /\ kFlagsDetectDevices \in 0..2 /\ kFlagsNewDevice \in 0..2
BY DEF kNone, kFlagsDetectDevices, kFlagsNewDevice

\* The elements of a longer, and of a shorter sequence.
LEMMA Appended ==
  ASSUME NEW S, NEW s \in Seq(S), NEW e \in S
  PROVE  Append(s, e) \in Seq(S) /\ ToSet(Append(s, e)) = ToSet(s) \cup {e}
<1>1. /\ Append(s, e) \in Seq(S) /\ Len(Append(s, e)) = Len(s) + 1
      /\ \A i \in 1..Len(s) : Append(s, e)[i] = s[i]
      /\ Append(s, e)[Len(s) + 1] = e
  OBVIOUS
<1>2. DOMAIN s = 1..Len(s) /\ DOMAIN Append(s, e) = 1..(Len(s) + 1) /\ Len(s) \in Nat
  BY <1>1
<1>3. 1..(Len(s) + 1) = (1..Len(s)) \cup {Len(s) + 1}
  BY <1>2
<1> QED
  BY <1>1, <1>2, <1>3 DEF ToSet

LEMMA Shortened ==
  ASSUME NEW S, NEW s \in Seq(S), s # <<>>
  PROVE  /\ Head(s) \in S /\ Head(s) \in ToSet(s)
         /\ Tail(s) \in Seq(S) /\ ToSet(Tail(s)) \subseteq ToSet(s)
<1>1. /\ Len(s) \in Nat \ {0} /\ Head(s) = s[1] /\ Tail(s) \in Seq(S)
      /\ Len(Tail(s)) = Len(s) - 1
      /\ \A i \in 1..(Len(s) - 1) : Tail(s)[i] = s[i + 1]
  OBVIOUS
<1>2. \A i \in 1..(Len(s) - 1) : i + 1 \in 1..Len(s)
  BY <1>1
<1>3. DOMAIN s = 1..Len(s) /\ DOMAIN Tail(s) = 1..(Len(s) - 1)
  BY <1>1
<1>4. Head(s) \in S
  BY <1>1, <1>3
<1> QED
  BY <1>1, <1>2, <1>3, <1>4 DEF ToSet

\* Sending adds one packet to what the addressed neighbours receive.
LEMMA EmitType ==
  ASSUME NEW air \in Air, NEW n \in Node, NEW to, NEW p \in Packet
  PROVE  Emit(air, n, to, p) \in Air /\ OnAir(n, p) \in Message
<1>1. OnAir(n, p) \in Message
  BY Addresses DEF OnAir, Packet, Message, Address
<1>2. \A k \in Node : Append(air[k], OnAir(n, p)) \in Seq(Message)
  BY <1>1 DEF Air
<1> QED
  BY <1>1, <1>2 DEF Emit, Air

LEMMA EmitAdds ==
  ASSUME NEW air \in Air, NEW n \in Node, NEW to, NEW p \in Packet, NEW k \in Node,
         NEW m \in ToSet(Emit(air, n, to, p)[k])
  PROVE  \/ m \in ToSet(air[k])
         \/ k \in Neighbours(n) /\ to \in {k, Broadcast} /\ m = OnAir(n, p)
<1>1. OnAir(n, p) \in Message /\ air[k] \in Seq(Message)
  BY EmitType DEF Air
<1>2. CASE k \in Neighbours(n) /\ to \in {k, Broadcast}
  <2>1. Emit(air, n, to, p)[k] = Append(air[k], OnAir(n, p))
    BY <1>2 DEF Emit
  <2> QED
    BY <1>1, <1>2, <2>1, Appended
<1>3. CASE ~(k \in Neighbours(n) /\ to \in {k, Broadcast})
  <2>1. Emit(air, n, to, p)[k] = air[k]
    BY <1>3 DEF Emit
  <2> QED
    BY <2>1
<1> QED
  BY <1>2, <1>3

\* What a node sends of its own accord.
LEMMA OwnFacts ==
  ASSUME NEW n \in Node, NEW goal \in Node \cup {Broadcast}, NEW flag \in 0..2,
         NEW avoid \in SUBSET Node
  PROVE  LET p == Own(n, goal, flag, avoid)
             q == OnAir(n, p)
         IN  /\ p \in Packet
             /\ q.hop = n /\ q.prev = NoHop /\ q.from = n
             /\ q.goal = IF goal = Broadcast THEN 0 ELSE goal
<1> DEFINE p == Own(n, goal, flag, avoid)
<1>1. p \in Packet
  BY Addresses DEF Own, Packet, Address
<1>2. CASE goal = Broadcast
  BY <1>1, <1>2 DEF Own, OnAir, Packet
<1>3. CASE goal # Broadcast
  BY <1>1, <1>3 DEF Own, OnAir, Packet
<1> QED
  BY <1>1, <1>2, <1>3

\* Broadcasts of a node are sound wherever they arrive.
LEMMA BroadcastSound ==
  ASSUME Symmetric, NEW n \in Node, NEW flag \in 0..2, NEW avoid \in SUBSET Node,
         NEW k \in Node, k \in Neighbours(n)
  PROVE  Sound(OnAir(n, Own(n, Broadcast, flag, avoid)), k)
<1>1. <<n, k>> \in wereLinked
  BY DEF Symmetric, Neighbours
<1> QED
  BY <1>1, OwnFacts, Addresses DEF Sound

\* So searching and advertising keep every packet on the air sound.
LEMMA BroadcastKeeps ==
  ASSUME Symmetric, NEW air \in Air, NEW n \in Node, NEW flag \in 0..2,
         NEW avoid \in SUBSET Node,
         \A k \in Node : \A m \in ToSet(air[k]) : Sound(m, k)
  PROVE  LET new == Emit(air, n, Broadcast, Own(n, Broadcast, flag, avoid))
         IN  new \in Air /\ \A k \in Node : \A m \in ToSet(new[k]) : Sound(m, k)
<1> DEFINE p == Own(n, Broadcast, flag, avoid)
<1>1. p \in Packet
  BY OwnFacts
<1>2. Emit(air, n, Broadcast, p) \in Air
  BY <1>1, EmitType
<1>3. ASSUME NEW k \in Node, NEW m \in ToSet(Emit(air, n, Broadcast, p)[k])
      PROVE  Sound(m, k)
  <2>1. m \in ToSet(air[k]) \/ (k \in Neighbours(n) /\ m = OnAir(n, p))
    BY <1>1, <1>3, EmitAdds
  <2>2. CASE m \in ToSet(air[k])
    BY <2>2
  <2>3. CASE k \in Neighbours(n) /\ m = OnAir(n, p)
    BY <2>3, BroadcastSound
  <2> QED
    BY <2>1, <2>2, <2>3
<1> QED
  BY <1>2, <1>3

\* A step that leaves the history of links alone is judged by the packets it leaves.
LEMMA Kept ==
  ASSUME wereLinked' = wereLinked,
         \A k \in Node : \A m \in ToSet(net'[k]) : Sound(m, k)
  PROVE  AllSound'
BY DEF AllSound, OnAirTo, Sound

LEMMA Added ==
  ASSUME NEW s \in Seq(Node), NEW a \in Node
  PROVE  Add(s, a) \in Seq(Node) /\ Add(s, a) # <<>>
<1>1. Append(s, a) \in Seq(Node) /\ Append(s, a) # <<>>
  <2>1. Append(s, a) \in Seq(Node) /\ Len(Append(s, a)) = Len(s) + 1 /\ Len(s) \in Nat
    OBVIOUS
  <2> QED
    BY <2>1
<1>2. CASE Recorded(s, a)
  <2>1. PICK i \in DOMAIN s : a = s[i]
    BY <1>2 DEF Recorded, ToSet
  <2>2. s # <<>>
    <3>1. i \in 1..Len(s)
      BY <2>1
    <3> QED
      BY <3>1
  <2> QED
    BY <1>2, <2>2 DEF Add
<1>3. CASE Len(s) >= kMaxRecords
  <2>1. s # <<>>
    BY <1>3 DEF kMaxRecords
  <2> QED
    BY <1>3, <2>1 DEF Add
<1>4. CASE ~(Recorded(s, a) \/ Len(s) >= kMaxRecords)
  BY <1>1, <1>4 DEF Add
<1> QED
  BY <1>2, <1>3, <1>4

LEMMA CandidatesType ==
  ASSUME TypeOK, NEW n \in Node, NEW goal \in Node \cup {Broadcast}
  PROVE  CandidatesAfter(n, goal) \in Seq(Node)
<1>1. candidates[n] \in Seq(Node)
  BY DEF TypeOK
<1>2. CASE goal = Broadcast
  BY <1>1, <1>2 DEF CandidatesAfter
<1>3. CASE goal # Broadcast
  BY <1>1, <1>3, Added DEF CandidatesAfter
<1> QED
  BY <1>2, <1>3

\* The parts of IInv that a step does not touch when it leaves the tables alone.
LEMMA SearchStep ==
  ASSUME IInv, NEW n \in Node, Start(n) \/ Tick(n)
  PROVE  IInv'
<1>1. /\ TypeOK /\ Symmetric /\ net \in Air /\ incoming[n] \in SUBSET Node
      /\ \A k \in Node : \A m \in ToSet(net[k]) : Sound(m, k)
  BY DEF IInv, TypeOK, AllSound, OnAirTo, Air
<1>2. UNCHANGED <<links, wereLinked, incoming, candidates, next_hop_, delivered, sent, faults>>
  BY DEF Start, Tick, tables, counters
<1>3. net' = net \/ net' = Search(net, n, incoming[n])
  BY DEF Start, Tick
<1>4. net' \in Air /\ \A k \in Node : \A m \in ToSet(net'[k]) : Sound(m, k)
  <2>1. CASE net' = net
    BY <1>1, <2>1
  <2>2. CASE net' = Search(net, n, incoming[n])
    BY <1>1, <2>2, BroadcastKeeps, Flags DEF Search
  <2> QED
    BY <1>3, <2>1, <2>2
<1>5. AllSound'
  BY <1>2, <1>4, Kept
<1>6. started' \subseteq Node /\ ticks' \in Nat
  BY <1>1 DEF TypeOK, Start, Tick, counters
<1>7. TypeOK'
  BY <1>1, <1>2, <1>4, <1>6 DEF TypeOK, Air
<1> QED
  BY <1>2, <1>5, <1>7 DEF IInv, Symmetric, IncomingLinked, OnlyFormerNeighbours

\* An application's packet goes to its goal directly, or to one who has sent here.
LEMMA SendStep ==
  ASSUME IInv, NEW n \in Node, NEW goal \in Node \cup {Broadcast}, Send(n, goal)
  PROVE  IInv'
<1> DEFINE p == Own(n, goal, kNone, {})
           to == SendTo(n, goal, incoming[n], next_hop_[n])
<1>1. /\ TypeOK /\ Symmetric /\ IncomingLinked /\ net \in Air
      /\ \A k \in Node : \A m \in ToSet(net[k]) : Sound(m, k)
  BY DEF IInv, TypeOK, AllSound, OnAirTo, Air
<1>2. UNCHANGED <<links, wereLinked, started, incoming, next_hop_, delivered, ticks, faults>>
  BY DEF Send
<1>3. p \in Packet /\ net' = Emit(net, n, to, p)
  BY OwnFacts, Flags DEF Send
<1>4. net' \in Air
  BY <1>1, <1>3, EmitType
<1>5. ASSUME NEW k \in Node, k \in Neighbours(n), to \in {k, Broadcast}
      PROVE  Sound(OnAir(n, p), k)
  <2>1. <<n, k>> \in wereLinked
    BY <1>1, <1>5 DEF Symmetric, Neighbours
  <2>2. LET q == OnAir(n, p)
        IN  /\ q.hop = n /\ q.prev = NoHop /\ q.from = n
            /\ q.goal = IF goal = Broadcast THEN 0 ELSE goal
    BY OwnFacts, Flags
  <2>3. goal \in incoming[n] => <<n, goal>> \in wereLinked
    BY <1>1 DEF IncomingLinked
  <2>4. goal \notin incoming[n] /\ goal # Broadcast => k = goal
    BY <1>5 DEF SendTo
  <2>5. 0 \notin Node
    BY Addresses
  <2> HIDE DEF p
  <2> QED
    BY <2>1, <2>2, <2>3, <2>4, <2>5, Addresses DEF Sound
<1>6. ASSUME NEW k \in Node, NEW m \in ToSet(net'[k])
      PROVE  Sound(m, k)
  BY <1>1, <1>3, <1>5, EmitAdds
<1>7. AllSound'
  BY <1>2, <1>6, Kept
<1>8. candidates' \in [Node -> Seq(Node)] /\ sent' \subseteq Flows
  BY <1>1, CandidatesType DEF TypeOK, Send
<1>9. TypeOK'
  BY <1>1, <1>2, <1>4, <1>8 DEF TypeOK, Air
<1> QED
  BY <1>1, <1>2, <1>7, <1>9 DEF IInv, Symmetric, IncomingLinked, OnlyFormerNeighbours

(***************************************************************************)
(* Receiving.  First what the callback does before it looks at the goal:   *)
(* the packet is off the air, its sender is recorded, and the search that  *)
(* may follow is sound.                                                    *)
(***************************************************************************)
LEMMA TakenOff ==
  ASSUME IInv, NEW n \in Node, net[n] # <<>>
  PROVE  LET m == Head(net[n])
         IN  /\ m \in Message /\ Sound(m, n)
             /\ IncomingAfter(n, m) \subseteq Node
             /\ \A k \in IncomingAfter(n, m) : <<n, k>> \in wereLinked
             /\ HopAfter(n, m) \in Address
             /\ m.goal # 0 => m.hop \in IncomingAfter(n, m) /\ HopAfter(n, m) # m.hop
             /\ AirAfter(n, m) \in Air
             /\ \A k \in Node : \A q \in ToSet(AirAfter(n, m)[k]) : Sound(q, k)
<1> DEFINE m == Head(net[n])
           air == [net EXCEPT ![n] = Tail(@)]
<1>1. /\ TypeOK /\ Symmetric /\ IncomingLinked
      /\ net \in [Node -> Seq(Message)] /\ incoming[n] \subseteq Node
      /\ next_hop_[n] \in Address
      /\ \A k \in Node : \A q \in ToSet(net[k]) : Sound(q, k)
  BY DEF IInv, TypeOK, AllSound, OnAirTo
<1>2. /\ m \in Message /\ m \in ToSet(net[n])
      /\ Tail(net[n]) \in Seq(Message) /\ ToSet(Tail(net[n])) \subseteq ToSet(net[n])
  BY <1>1, Shortened
<1>3. Sound(m, n)
  BY <1>1, <1>2
<1>4. m.hop \in Node /\ <<n, m.hop>> \in wereLinked
  BY <1>1, <1>2, <1>3 DEF Message, Sound, Symmetric
<1>5. /\ IncomingAfter(n, m) \subseteq Node
      /\ \A k \in IncomingAfter(n, m) : <<n, k>> \in wereLinked
  BY <1>1, <1>4 DEF IncomingAfter, IncomingLinked
<1>6. /\ HopAfter(n, m) \in Address
      /\ m.goal # 0 => m.hop \in IncomingAfter(n, m) /\ HopAfter(n, m) # m.hop
  BY <1>1, <1>4, Addresses DEF HopAfter, IncomingAfter, Address
<1>7. air \in Air /\ \A k \in Node : \A q \in ToSet(air[k]) : Sound(q, k)
  BY <1>1, <1>2 DEF Air
<1>8. /\ AirAfter(n, m) \in Air
      /\ \A k \in Node : \A q \in ToSet(AirAfter(n, m)[k]) : Sound(q, k)
  <2>1. CASE m.goal # 0 /\ m.hop = next_hop_[n]
    <3>1. AirAfter(n, m) = Emit(air, n, Broadcast,
             Own(n, Broadcast, kFlagsDetectDevices, IncomingAfter(n, m)))
      BY <2>1 DEF AirAfter, Search
    <3> HIDE DEF air, m
    <3> QED
      BY <1>1, <1>5, <1>7, <3>1, BroadcastKeeps, Flags
  <2>2. CASE ~(m.goal # 0 /\ m.hop = next_hop_[n])
    <3>1. AirAfter(n, m) = air
      BY <2>2 DEF AirAfter
    <3> QED
      BY <1>7, <3>1
  <2> QED
    BY <2>1, <2>2
<1> QED
  BY <1>2, <1>3, <1>5, <1>6, <1>8

\* A packet that is passed on leaves over a link it did not come from.
LEMMA ForwardSound ==
  ASSUME IInv, NEW n \in Node, net[n] # <<>>, Forward(n, Head(net[n]))
  PROVE  /\ net' \in Air
         /\ \A k \in Node : \A q \in ToSet(net'[k]) : Sound(q, k)
<1> DEFINE m == Head(net[n])
           to == SendTo(n, m.goal, IncomingAfter(n, m), HopAfter(n, m))
           p == [m EXCEPT !.prev = m.hop]
<1>1. /\ m \in Message /\ Sound(m, n) /\ HopAfter(n, m) \in Address
      /\ m.goal # 0 => m.hop \in IncomingAfter(n, m) /\ HopAfter(n, m) # m.hop
      /\ AirAfter(n, m) \in Air
      /\ \A k \in Node : \A q \in ToSet(AirAfter(n, m)[k]) : Sound(q, k)
  BY TakenOff
<1>2. m.goal # 0 /\ m.goal # n /\ net' = Emit(AirAfter(n, m), n, to, p)
  BY DEF Forward, ForMe
<1>3. p \in Packet
  BY <1>1 DEF Message, Packet, Address
<1>4. net' \in Air
  BY <1>1, <1>2, <1>3, EmitType
<1>5. ASSUME NEW k \in Node, k \in Neighbours(n), to \in {k, Broadcast}
      PROVE  Sound(OnAir(n, p), k)
  <2>1. m.goal \in Node /\ m.goal # Broadcast /\ m.hop \in Node
    BY <1>1, <1>2, Addresses DEF Message, Address, NoHop
  <2>2. LET q == OnAir(n, p)
        IN  q.hop = n /\ q.prev = m.hop /\ q.from = m.from /\ q.goal = m.goal
    BY <1>1, <2>1 DEF OnAir, Message
  <2>3. <<n, k>> \in wereLinked
    BY <1>5 DEF IInv, Symmetric, Neighbours
  <2>4. <<m.from, m.goal>> \in wereLinked
    BY <1>1, <1>2 DEF Sound
  <2>5. k # m.hop
    <3>1. CASE m.goal \in IncomingAfter(n, m)
      <4>1. to = HopAfter(n, m)
        BY <3>1 DEF SendTo
      <4> QED
        BY <1>1, <1>2, <1>5, <4>1, Addresses
    <3>2. CASE m.goal \notin IncomingAfter(n, m)
      <4>1. to = m.goal
        BY <3>2 DEF SendTo
      <4> QED
        BY <1>1, <1>2, <1>5, <2>1, <3>2, <4>1
    <3> QED
      BY <3>1, <3>2
  <2> HIDE DEF m, p
  <2> QED
    BY <1>2, <2>2, <2>3, <2>4, <2>5 DEF Sound
<1> HIDE DEF m, p, to
<1>6. ASSUME NEW k \in Node, NEW q \in ToSet(net'[k])
      PROVE  Sound(q, k)
  BY <1>1, <1>2, <1>3, <1>5, <1>6, EmitAdds
<1> QED
  BY <1>4, <1>6

LEMMA ReceiveStep ==
  ASSUME IInv, NEW n \in Node, Receive(n)
  PROVE  IInv'
<1> DEFINE m == Head(net[n])
<1>1. /\ m \in Message /\ Sound(m, n) /\ HopAfter(n, m) \in Address
      /\ IncomingAfter(n, m) \subseteq Node
      /\ \A k \in IncomingAfter(n, m) : <<n, k>> \in wereLinked
      /\ AirAfter(n, m) \in Air
      /\ \A k \in Node : \A q \in ToSet(AirAfter(n, m)[k]) : Sound(q, k)
  BY TakenOff DEF Receive
<1>2. /\ net[n] # <<>>
      /\ incoming' = [incoming EXCEPT ![n] = IncomingAfter(n, m)]
      /\ Forward(n, m) \/ Detect(n, m) \/ NewDevice(n, m) \/ Dispatch(n, m)
      /\ UNCHANGED <<links, wereLinked, started, sent, ticks, faults>>
  BY DEF Receive, counters
<1>3. TypeOK /\ Symmetric /\ IncomingLinked /\ OnlyFormerNeighbours
  BY DEF IInv
<1> HIDE DEF m
<1>4. /\ net' \in Air
      /\ \A k \in Node : \A q \in ToSet(net'[k]) : Sound(q, k)
  <2>1. CASE Forward(n, m)
    BY <1>2, <2>1, ForwardSound DEF m
  <2>2. CASE Detect(n, m)
    <3>1. CASE Answers(n, m)
      <4>1. net' = Emit(AirAfter(n, m), n, Broadcast,
                        Own(n, Broadcast, kFlagsNewDevice, {}))
        BY <2>2, <3>1 DEF Detect, Advertise
      <4> QED
        BY <1>1, <1>3, <4>1, BroadcastKeeps, Flags
    <3>2. CASE ~Answers(n, m)
      BY <1>1, <2>2, <3>2 DEF Detect
    <3> QED
      BY <3>1, <3>2
  <2>3. CASE NewDevice(n, m) \/ Dispatch(n, m)
    BY <1>1, <2>3 DEF NewDevice, Dispatch
  <2> QED
    BY <1>2, <2>1, <2>2, <2>3
<1>5. AllSound'
  BY <1>2, <1>4, Kept
<1>6. next_hop_' \in [Node -> Address] /\ candidates' \in [Node -> Seq(Node)]
  <2>1. m.hop \in Node /\ candidates[n] \in Seq(Node)
    BY <1>1, <1>3 DEF Message, TypeOK
  <2>2. CASE Forward(n, m)
    <3>1. m.goal \in Node
      BY <1>1, <2>2 DEF Forward, ForMe, Message, Address, NoHop
    <3> QED
      BY <1>1, <1>3, <2>2, <3>1, CandidatesType DEF Forward, TypeOK
  <2>3. CASE Detect(n, m) \/ Dispatch(n, m)
    BY <1>1, <1>3, <2>3 DEF Detect, Dispatch, TypeOK
  <2>4. CASE NewDevice(n, m)
    <3> DEFINE cands == Add(candidates[n], m.hop)
    <3>1. cands \in Seq(Node) /\ cands # <<>>
      BY <2>1, Added
    <3>2. Head(cands) \in Address /\ Tail(cands) \in Seq(Node)
      BY <3>1, Shortened DEF Address
    <3>3. /\ \/ next_hop_' = next_hop_
             \/ next_hop_' = [next_hop_ EXCEPT ![n] = HopAfter(n, m)]
             \/ next_hop_' = [next_hop_ EXCEPT ![n] = Head(cands)]
          /\ \/ candidates' = candidates
             \/ candidates' = [candidates EXCEPT ![n] = cands]
             \/ candidates' = [candidates EXCEPT ![n] = Tail(cands)]
      BY <2>4 DEF NewDevice, TakeCandidate
    <3> HIDE DEF cands
    <3>4. next_hop_ \in [Node -> Address] /\ candidates \in [Node -> Seq(Node)]
      BY <1>3 DEF TypeOK
    <3>5. next_hop_' \in [Node -> Address]
      BY <1>1, <3>2, <3>3, <3>4
    <3>6. candidates' \in [Node -> Seq(Node)]
      BY <3>1, <3>2, <3>3, <3>4
    <3> QED
      BY <3>5, <3>6
  <2> QED
    BY <1>2, <2>2, <2>3, <2>4
<1>7. /\ delivered' \subseteq [from : Node, at : Node]
      /\ \A d \in delivered' : <<d.from, d.at>> \in wereLinked
  <2>1. CASE Dispatch(n, m)
    <3>1. m.from \in Node /\ delivered' = delivered \cup {[from |-> m.from, at |-> n]}
      BY <1>1, <2>1 DEF Dispatch, Message
    <3>2. <<m.from, n>> \in wereLinked
      BY <1>1, <2>1 DEF Dispatch, ForMe, Sound
    <3>3. [from |-> m.from, at |-> n] \in [from : Node, at : Node]
      BY <3>1
    <3>4. delivered \subseteq [from : Node, at : Node]
      BY <1>3 DEF TypeOK
    <3>5. ASSUME NEW d \in delivered' PROVE <<d.from, d.at>> \in wereLinked
      <4>1. CASE d \in delivered
        BY <1>3, <4>1 DEF OnlyFormerNeighbours
      <4>2. CASE d = [from |-> m.from, at |-> n]
        BY <3>2, <4>2
      <4> QED
        BY <3>1, <3>5, <4>1, <4>2
    <3> QED
      BY <3>1, <3>3, <3>4, <3>5
  <2>2. CASE ~Dispatch(n, m)
    <3>1. delivered' = delivered
      BY <1>2, <2>2 DEF Forward, Detect, NewDevice
    <3> QED
      BY <1>3, <3>1 DEF TypeOK, OnlyFormerNeighbours
  <2> QED
    BY <2>1, <2>2
<1>8. incoming' \in [Node -> SUBSET Node] /\ IncomingLinked'
  BY <1>1, <1>2, <1>3 DEF TypeOK, IncomingLinked
<1>9. TypeOK'
  BY <1>2, <1>3, <1>4, <1>6, <1>7, <1>8 DEF TypeOK, Air
<1> QED
  BY <1>2, <1>3, <1>5, <1>7, <1>8, <1>9 DEF IInv, Symmetric, OnlyFormerNeighbours

LEMMA LoseStep ==
  ASSUME IInv, NEW n \in Node, Lose(n)
  PROVE  IInv'
<1>1. TypeOK /\ net \in Air /\ \A k \in Node : \A m \in ToSet(net[k]) : Sound(m, k)
  BY DEF IInv, TypeOK, AllSound, OnAirTo, Air
<1>2. /\ net[n] # <<>> /\ net' = [net EXCEPT ![n] = Tail(@)] /\ faults' = faults + 1
      /\ UNCHANGED <<links, wereLinked, started, incoming, candidates, next_hop_,
                     delivered, sent, ticks>>
  BY DEF Lose, tables
<1>3. Tail(net[n]) \in Seq(Message) /\ ToSet(Tail(net[n])) \subseteq ToSet(net[n])
  BY <1>1, <1>2, Shortened DEF Air
<1>4. net' \in Air /\ \A k \in Node : \A m \in ToSet(net'[k]) : Sound(m, k)
  BY <1>1, <1>2, <1>3 DEF Air
<1>5. AllSound'
  BY <1>2, <1>4, Kept
<1>6. TypeOK'
  BY <1>1, <1>2, <1>4 DEF TypeOK, Air
<1> QED
  BY <1>2, <1>5, <1>6 DEF IInv, Symmetric, IncomingLinked, OnlyFormerNeighbours

\* A link that comes or goes changes no table and no packet; the history grows.
LEMMA MoveStep ==
  ASSUME IInv, NEW a \in Node, NEW b \in Node, Move(a, b)
  PROVE  IInv'
<1>1. /\ TypeOK /\ Symmetric /\ IncomingLinked /\ AllSound /\ OnlyFormerNeighbours
      /\ \A p \in links : <<p[2], p[1]>> \in wereLinked
  BY DEF IInv, Symmetric
<1>2. /\ faults' = faults + 1 /\ wereLinked' = wereLinked \cup links'
      /\ UNCHANGED <<started, incoming, candidates, next_hop_, net, delivered, sent, ticks>>
      /\ \/ links' = links \ {<<a, b>>, <<b, a>>}
         \/ links' = links \cup {<<a, b>>, <<b, a>>}
  BY DEF Move, tables
<1>3. links' \subseteq Node \X Node /\ wereLinked' \subseteq Node \X Node
  <2>1. links \subseteq Node \X Node /\ wereLinked \subseteq Node \X Node
    BY <1>1 DEF TypeOK
  <2>2. {<<a, b>>, <<b, a>>} \subseteq Node \X Node
    OBVIOUS
  <2> QED
    BY <1>2, <2>1, <2>2
<1>4. TypeOK'
  BY <1>1, <1>2, <1>3 DEF TypeOK
<1>5. Symmetric'
  BY <1>1, <1>2 DEF Symmetric
<1>6. AllSound'
  BY <1>1, <1>2 DEF AllSound, OnAirTo, Sound
<1> QED
  BY <1>1, <1>2, <1>4, <1>5, <1>6 DEF IInv, IncomingLinked, OnlyFormerNeighbours

LEMMA InitHolds == Init => IInv
<1> SUFFICES ASSUME Init PROVE IInv
  OBVIOUS
<1>1. \A k \in Node : net[k] = <<>> /\ ToSet(net[k]) = {}
  BY DEF Init, ToSet
<1>2. TypeOK
  BY Addresses DEF Init, TypeOK, Address
<1>3. Symmetric
  BY Addresses DEF Init, Symmetric
<1> QED
  BY <1>1, <1>2, <1>3 DEF Init, IInv, IncomingLinked, AllSound, OnAirTo, OnlyFormerNeighbours

LEMMA StepKeeps == IInv /\ [Next]_vars => IInv'
<1> SUFFICES ASSUME IInv, [Next]_vars PROVE IInv'
  OBVIOUS
<1>1. ASSUME NEW n \in Node, Start(n) \/ Tick(n) PROVE IInv'
  BY <1>1, SearchStep
<1>2. ASSUME NEW n \in Node, NEW g \in Node \cup {Broadcast}, Send(n, g) PROVE IInv'
  BY <1>2, SendStep
<1>3. ASSUME NEW n \in Node, Receive(n) PROVE IInv'
  BY <1>3, ReceiveStep
<1>4. ASSUME NEW n \in Node, Lose(n) PROVE IInv'
  BY <1>4, LoseStep
<1>5. ASSUME NEW a \in Node, NEW b \in Node, Move(a, b) PROVE IInv'
  BY <1>5, MoveStep
<1>6. CASE UNCHANGED vars
  BY <1>6 DEF vars, tables, counters, IInv, TypeOK, Symmetric, IncomingLinked, AllSound,
              OnAirTo, Sound, OnlyFormerNeighbours
<1> QED
  BY <1>1, <1>2, <1>3, <1>4, <1>5, <1>6 DEF Next

LEMMA Always == Spec => []IInv
BY InitHolds, StepKeeps, PTL DEF Spec

\* Every table and every packet keeps its type.
THEOREM Types == Spec => []TypeOK
<1>1. IInv => TypeOK
  BY DEF IInv
<1> QED
  BY <1>1, Always, PTL

(***************************************************************************)
(* "avoid bidirectional loop" (froute.hpp, addresses_imcoming_): recording *)
(* the sender before the way is chosen, and dropping it as the next hop,   *)
(* is enough for no packet to go back to where it came from.               *)
(***************************************************************************)
THEOREM NeverBack == Spec => []NoBounce
<1>1. IInv => NoBounce
  BY DEF IInv, AllSound, Sound, NoBounce
<1> QED
  BY <1>1, Always, PTL

\* No chain of hops reaches a node that was never next to the sender.
THEOREM Reach == Spec => []OnlyFormerNeighbours
<1>1. IInv => OnlyFormerNeighbours
  BY DEF IInv
<1> QED
  BY <1>1, Always, PTL
=============================================================================
