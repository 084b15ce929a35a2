-------------------------- MODULE RemoteStopProofs --------------------------
(***************************************************************************)
(* The remote stop, for any two programs wired as WiringAssumption says,   *)
(* whatever the identifiers and nodes, however their threads overtake each *)
(* other, and however often the switch is thrown.                          *)
(*                                                                         *)
(* A thread works off a list of calls, so the whole state of a call in     *)
(* progress is that list.  Orderly gives the few forms each list has and   *)
(* implies the types.  While no thread has run into another one of its     *)
(* program:                                                                *)
(*   Alone      only one of the two has something to do,                   *)
(*   Following  the places and the output lag behind only if a call that   *)
(*              is about to be made will tell them,                        *)
(*   Agreeing   the ends of the value store differ only if one of them is  *)
(*              about to hear of the value of the other one.               *)
(***************************************************************************)
EXTENDS RemoteStop, TLAPS, SequenceTheorems

emc1 == EmcInputs[1]
emc2 == EmcInputs[2]

Stop == EndOfReceive("switch")
Relay == Link(Switch(robot), emc2)
Attach == Link(Connection[robot], emc1)

\* What follows a change of p's switch, besides its OnChanged.
Linked(p) == IF p = robot THEN <<Relay>> ELSE <<>>

SwitchFrames == {ValueFrame("switch", v) : v \in BOOLEAN}
Frames == {KeepAliveFrame} \cup SwitchFrames

(***************************************************************************)
(* The wiring.                                                             *)
(***************************************************************************)
LEMMA Wires ==
  /\ robot \in Peer /\ controller \in Peer /\ robot # controller
  /\ \A p \in Peer : p = robot \/ p = controller
  /\ OtherEnd[robot] = controller /\ OtherEnd[controller] = robot
  /\ \A p \in Peer : /\ rx(p) \in Thread /\ main(p) \in Thread /\ rx(p) # main(p)
                     /\ Connection[p] \in Node /\ Switch(p) \in Node
  /\ \A p, q \in Peer : p # q => rx(p) # rx(q) /\ main(p) # main(q) /\ rx(p) # main(q)
  /\ Thread = {rx(robot), main(robot), rx(controller), main(controller)}
<1> USE DEF rx, main, Switch
<1>1. /\ robot \in Peer /\ controller \in Peer /\ robot # controller
      /\ \A p \in Peer : p = robot \/ p = controller
  BY WiringAssumption
<1>2. OtherEnd[robot] = controller /\ OtherEnd[controller] = robot
  BY <1>1, WiringAssumption, SspAssumption
<1>3. \A p \in Peer : /\ rx(p) \in Thread /\ main(p) \in Thread /\ rx(p) # main(p)
                      /\ Connection[p] \in Node /\ Switch(p) \in Node
  BY WiringAssumption, SspAssumption
<1>4. \A p, q \in Peer : p # q => rx(p) # rx(q) /\ main(p) # main(q) /\ rx(p) # main(q)
  OBVIOUS
<1>5. Thread = {rx(robot), main(robot), rx(controller), main(controller)}
  BY WiringAssumption
<1> QED
  BY <1>1, <1>2, <1>3, <1>4, <1>5

LEMMA Places ==
  /\ EmcInputs \in Seq(Node) /\ emc1 \in Node /\ emc2 \in Node /\ emc1 # emc2
  /\ Place = {emc1, emc2} /\ Output \in Node
<1>1. EmcInputs \in Seq(Node) /\ Len(EmcInputs) = 2 /\ emc1 # emc2
  BY GraphAssumption, WiringAssumption DEF emc1, emc2
<1>2. emc1 \in Node /\ emc2 \in Node
  <2>1. \A i \in 1..Len(EmcInputs) : EmcInputs[i] \in Node
    BY <1>1
  <2>2. 1 \in 1..Len(EmcInputs) /\ 2 \in 1..Len(EmcInputs)
    BY <1>1
  <2> QED
    BY <2>1, <2>2 DEF emc1, emc2
<1>3. Place = {emc1, emc2}
  BY <1>1 DEF emc1, emc2, Place, ToSet
<1> QED
  BY <1>1, <1>2, <1>3, GraphAssumption

LEMMA Apart ==
  /\ \A p \in Peer : Switch(p) \in Shared
  /\ \A p, q \in Peer : /\ Connection[p] # Switch(q)
                        /\ p # q => Connection[p] # Connection[q] /\ Switch(p) # Switch(q)
  /\ \A p \in Peer : /\ Connection[p] \notin {emc1, emc2, Output} \cup Shared
                     /\ Switch(p) \notin {emc1, emc2, Output}
  /\ Output \notin {emc1, emc2} \cup Shared
  /\ emc1 \notin Shared /\ emc2 \notin Shared
  /\ \A p \in Peer : \A id \in Id :
       /\ NodeOf[p][id] \in Shared
       /\ \A q \in Peer : NodeOf[p][id] = Switch(q) => p = q /\ id = "switch"
<1>1. /\ \A p \in Peer : Connection[p] \notin Shared \cup Place \cup {Output}
      /\ Output \notin Shared \cup Place /\ Place \cap Shared = {}
  BY WiringAssumption
<1>2. /\ "switch" \in Id /\ Shared = {NodeOf[p][id] : p \in Peer, id \in Id}
      /\ \A p, q \in Peer : \A id, jd \in Id : NodeOf[p][id] = NodeOf[q][jd] => p = q /\ id = jd
      /\ \A p, q \in Peer : Connection[p] = Connection[q] => p = q
  BY WiringAssumption
<1>3. \A p \in Peer : \A id \in Id : NodeOf[p][id] \in Shared
  BY <1>2
<1>4. \A p \in Peer : \A id \in Id : \A q \in Peer : NodeOf[p][id] = Switch(q) => p = q /\ id = "switch"
  BY <1>2 DEF Switch
<1>5. \A p \in Peer : Switch(p) \in Shared
  BY <1>2, <1>3 DEF Switch
<1>6. \A p, q \in Peer : p # q => Connection[p] # Connection[q] /\ Switch(p) # Switch(q)
  <2>1. \A p, q \in Peer : p # q => Connection[p] # Connection[q]
    BY <1>2
  <2>2. \A p, q \in Peer : p # q => Switch(p) # Switch(q)
    BY <1>2, <1>4 DEF Switch
  <2> QED
    BY <2>1, <2>2
<1> QED
  BY <1>1, <1>3, <1>4, <1>5, <1>6, Places

\* Whom a node tells that it has changed.
LEMMA Tells ==
  /\ \A p \in Peer : Propagate(Switch(p)) = <<OnChanged(Switch(p))>> \o Linked(p)
  /\ Propagate(Connection[robot]) = <<Attach>>
  /\ Propagate(Connection[controller]) = <<>>
  /\ Propagate(Output) = <<>>
  /\ Propagate(emc1) = <<UpdateOutput>> /\ Propagate(emc2) = <<UpdateOutput>>
<1> USE Wires, Places, Apart
<1>1. /\ Links[Connection[robot]] = <<emc1>>
      /\ Links[Switch(robot)] = <<emc2>>
      /\ \A n \in Node : n \notin {Connection[robot], Switch(robot)} => Links[n] = <<>>
  BY WiringAssumption DEF emc1, emc2
<1>2. /\ \A n \in {emc1, emc2} : Callbacks(n) = <<UpdateOutput>> \o <<>>
      /\ \A p \in Peer : Callbacks(Switch(p)) = <<>> \o <<OnChanged(Switch(p))>>
      /\ \A p \in Peer : Callbacks(Connection[p]) = <<>> \o <<>>
      /\ Callbacks(Output) = <<>> \o <<>>
  <2>1. \A n \in {emc1, emc2} : n \in Place /\ n \notin Shared
    OBVIOUS
  <2>2. \A p \in Peer : Switch(p) \notin Place /\ Switch(p) \in Shared
    OBVIOUS
  <2>3. \A p \in Peer : Connection[p] \notin Place /\ Connection[p] \notin Shared
    OBVIOUS
  <2>4. Output \notin Place /\ Output \notin Shared
    OBVIOUS
  <2> QED
    BY <2>1, <2>2, <2>3, <2>4 DEF Callbacks
<1>3. \A n \in Node : Links[n] = <<>> => [i \in 1..Len(Links[n]) |-> Link(n, Links[n][i])] = <<>>
  OBVIOUS
<1>4. \A n, m \in Node : Links[n] = <<m>> => [i \in 1..Len(Links[n]) |-> Link(n, Links[n][i])] = <<Link(n, m)>>
  OBVIOUS
<1>10. /\ Links[Switch(controller)] = <<>> /\ Links[emc1] = <<>> /\ Links[emc2] = <<>>
       /\ Switch(controller) \in Node
  BY <1>1
<1>11. ASSUME NEW x PROVE <<x>> \o <<>> = <<x>>
  <2> DEFINE S == {x}
  <2>1. <<x>> \in Seq(S) /\ <<>> \in Seq(S)
    OBVIOUS
  <2> QED
    BY <2>1
<1>12. ASSUME NEW x PROVE <<>> \o <<x>> = <<x>>
  OBVIOUS
<1>5. Propagate(Switch(robot)) = <<OnChanged(Switch(robot))>> \o Linked(robot)
  BY <1>1, <1>2, <1>4 DEF Propagate, Linked, Relay
<1>6. Propagate(Switch(controller)) = <<OnChanged(Switch(controller))>> \o Linked(controller)
  <2>1. Linked(controller) = <<>>
    BY DEF Linked
  <2>2. Propagate(Switch(controller)) = (<<>> \o <<OnChanged(Switch(controller))>>) \o <<>>
    BY <1>2, <1>3, <1>10, <1>12 DEF Propagate
  <2> QED
    BY <2>1, <2>2, <1>12
<1>7. Propagate(Connection[robot]) = <<Attach>>
  <2>1. [i \in 1..Len(Links[Connection[robot]]) |-> Link(Connection[robot], Links[Connection[robot]][i])] = <<Attach>>
    BY <1>1, <1>4 DEF Attach
  <2>2. Propagate(Connection[robot]) = <<>> \o <<Attach>>
    <3>1. Callbacks(Connection[robot]) = <<>>
      BY <1>2
    <3> QED
      BY <3>1, <2>1 DEF Propagate
  <2> QED
    BY <2>2, <1>12
<1>8. Propagate(Connection[controller]) = <<>> /\ Propagate(Output) = <<>>
  BY <1>1, <1>2, <1>3 DEF Propagate
<1>9. Propagate(emc1) = <<UpdateOutput>> /\ Propagate(emc2) = <<UpdateOutput>>
  BY <1>10, <1>2, <1>3, <1>11 DEF Propagate
<1> QED
  BY <1>5, <1>6, <1>7, <1>8, <1>9

(***************************************************************************)
(* The calls, and the lists of them.                                       *)
(***************************************************************************)
LEMMA Calls ==
  /\ \A n \in Node : \A v \in BOOLEAN :
       /\ SetValue(n, v) \in ACall /\ SetValue(n, v).do = "SetValue"
       /\ SetValue(n, v).node = n /\ SetValue(n, v).v = v
  /\ \A n, m \in Node : /\ Link(n, m) \in ACall /\ Link(n, m).do = "Link"
                        /\ Link(n, m).node = n /\ Link(n, m).input = m
  /\ \A n \in Node : /\ OnChanged(n) \in ACall /\ OnChanged(n).do = "OnChanged"
                     /\ OnChanged(n).node = n
  /\ Send("switch") \in ACall /\ Send("switch").do = "Send" /\ Send("switch").id = "switch"
  /\ Stop \in ACall /\ Stop.do = "EndOfReceive" /\ Stop.id = "switch"
  /\ UpdateOutput \in ACall /\ UpdateOutput.do = "UpdateOutput"
  /\ CheckTimer \in ACall /\ CheckTimer.do = "CheckTimer"
  /\ RestartTimer \in ACall /\ RestartTimer.do = "RestartTimer"
<1> USE DEF ACall
<1>1. \A n \in Node : \A v \in BOOLEAN :
       /\ SetValue(n, v) \in ACall /\ SetValue(n, v).do = "SetValue"
       /\ SetValue(n, v).node = n /\ SetValue(n, v).v = v
  BY DEF SetValue
<1>2. \A n, m \in Node : /\ Link(n, m) \in ACall /\ Link(n, m).do = "Link"
                         /\ Link(n, m).node = n /\ Link(n, m).input = m
  BY DEF Link
<1>3. \A n \in Node : /\ OnChanged(n) \in ACall /\ OnChanged(n).do = "OnChanged"
                      /\ OnChanged(n).node = n
  BY DEF OnChanged
<1>4. /\ Send("switch") \in ACall /\ Send("switch").do = "Send" /\ Send("switch").id = "switch"
      /\ Stop \in ACall /\ Stop.do = "EndOfReceive" /\ Stop.id = "switch"
  BY WiringAssumption DEF Send, Stop, EndOfReceive
<1>5. /\ UpdateOutput \in ACall /\ UpdateOutput.do = "UpdateOutput"
      /\ CheckTimer \in ACall /\ CheckTimer.do = "CheckTimer"
      /\ RestartTimer \in ACall /\ RestartTimer.do = "RestartTimer"
  BY DEF UpdateOutput, CheckTimer, RestartTimer
<1> QED
  BY <1>1, <1>2, <1>3, <1>4, <1>5

LEMMA First ==
  ASSUME NEW c \in ACall, NEW r \in Seq(ACall)
  PROVE  /\ <<c>> \o r \in Seq(ACall) /\ <<c>> \o r # <<>>
         /\ Head(<<c>> \o r) = c /\ Tail(<<c>> \o r) = r
<1> DEFINE s == <<c>> \o r
<1>1. s \in Seq(ACall) /\ Len(s) = Len(r) + 1 /\ s[1] = c
  OBVIOUS
<1>2. \A i \in 1..Len(r) : s[i + 1] = r[i]
  OBVIOUS
<1>3. s # <<>> /\ Head(s) = c
  BY <1>1
<1>4. Tail(s) = r
  <2>1. Tail(s) \in Seq(ACall) /\ Len(Tail(s)) = Len(r)
    BY <1>1, <1>3
  <2>2. \A i \in 1..Len(r) : Tail(s)[i] = s[i + 1]
    BY <1>1, <1>3
  <2> QED
    BY <1>2, <2>1, <2>2
<1> QED
  BY <1>1, <1>3, <1>4

\* A list of one call.
LEMMA Single ==
  ASSUME NEW c \in ACall
  PROVE  /\ <<c>> \o <<>> = <<c>> /\ <<c>> \in Seq(ACall)
         /\ Head(<<c>>) = c /\ Tail(<<c>>) = <<>> /\ <<c>> # <<>>
OBVIOUS

LEMMA Nothing ==
  ASSUME NEW r \in Seq(ACall)
  PROVE  <<>> \o r = r
OBVIOUS

LEMMA Pair ==
  ASSUME NEW c \in ACall, NEW d \in ACall
  PROVE  <<c, d>> = <<c>> \o <<d>>
<1>1. <<c>> \in Seq(ACall) /\ <<d>> \in Seq(ACall) /\ <<c, d>> \in Seq(ACall)
  OBVIOUS
<1>2. <<c>> \o <<d>> \in Seq(ACall) /\ Len(<<c>> \o <<d>>) = 2
  BY <1>1
<1>3. (<<c>> \o <<d>>)[1] = c /\ (<<c>> \o <<d>>)[2] = d
  BY <1>1
<1>4. Len(<<c, d>>) = 2 /\ <<c, d>>[1] = c /\ <<c, d>>[2] = d
  OBVIOUS
<1> DEFINE x == <<c, d>>
           y == <<c>> \o <<d>>
<1>5. x \in Seq(ACall) /\ y \in Seq(ACall) /\ Len(x) = Len(y) /\ Len(x) = 2
  BY <1>1, <1>2, <1>4
<1>6. x[1] = y[1] /\ x[2] = y[2]
  BY <1>3, <1>4
<1> HIDE DEF x, y
<1>7. \A i \in 1..Len(x) : x[i] = y[i]
  BY <1>5, <1>6
<1>8. x = y
  BY <1>5, <1>7, SeqEqual
<1> QED
  BY <1>8 DEF x, y

LEMMA TwoFirst ==
  ASSUME NEW c \in ACall, NEW d \in ACall, NEW r \in Seq(ACall)
  PROVE  (<<c>> \o <<d>>) \o r = <<c>> \o (<<d>> \o r)
OBVIOUS

(***************************************************************************)
(* What a thread of p is at.  A list is about the connection, about the    *)
(* switch, or about what either leads to, and ends as it began: e is what  *)
(* Receive has put behind the call.                                        *)
(***************************************************************************)
AtConnection(p, q, e) ==
  \/ \E v \in BOOLEAN : q = <<SetValue(Connection[p], v)>> \o e
  \/ p = robot /\ q = <<Attach>> \o e

AtSwitch(p, q, e) ==
  \/ \E v \in BOOLEAN : q = <<SetValue(Switch(p), v)>> \o e
  \/ q = <<OnChanged(Switch(p))>> \o (Linked(p) \o e)
  \/ q = <<Send("switch")>> \o (Linked(p) \o e)
  \/ p = robot /\ q = <<Relay>> \o e

AtOutput(p, q, e) ==
  /\ p = robot
  /\ \/ q = <<UpdateOutput>> \o e
     \/ \E v \in BOOLEAN : q = <<SetValue(Output, v)>> \o e

AtWork(p, q, e) ==
  \/ q = e
  \/ AtConnection(p, q, e) /\ e # <<Stop>>
  \/ AtSwitch(p, q, e) /\ e # <<RestartTimer>>
  \/ AtOutput(p, q, e)

OnMain(p, q) == q = <<CheckTimer>> \/ AtWork(p, q, <<>>)

OnRx(p, r, q) ==
  IF r THEN AtWork(p, q, <<Stop>>) ELSE q = <<>> \/ AtWork(p, q, <<RestartTimer>>)

AtMain(p) == OnMain(p, todo[main(p)])
AtRx(p) == OnRx(p, receiving[p]["switch"], todo[rx(p)])

Ending(p, t) ==
  IF t = main(p) THEN <<>> ELSE IF receiving[p]["switch"] THEN <<Stop>> ELSE <<RestartTimer>>

Typed ==
  /\ value \in [Node -> BOOLEAN]
  /\ todo \in [Thread -> Seq(ACall)]
  /\ connection_lost_timer \in [Peer -> -1..LostTime]
  /\ receiving \in [Peer -> [Id -> BOOLEAN]]
  /\ tx_buffer \in [Peer -> SwitchFrames]
  /\ air \in [Peer -> Seq(Frames)] /\ \A p \in Peer : Len(air[p]) <= MaxInFlight
  /\ off \subseteq Peer /\ writes \in 0..MaxWrites
  /\ moved \in BOOLEAN /\ overlapped \in BOOLEAN /\ astray \in BOOLEAN

Orderly == Typed /\ \A p \in Peer : AtMain(p) /\ AtRx(p)

(***************************************************************************)
(* What a step of a thread does, list by list.                             *)
(***************************************************************************)
Puts(t, calls) == todo' = [todo EXCEPT ![t] = calls]

SetsConnection(p, t, e) ==
  /\ e # <<Stop>>
  /\ \E v \in BOOLEAN :
       /\ todo[t] = <<SetValue(Connection[p], v)>> \o e
       /\ value' = [value EXCEPT ![Connection[p]] = v]
       /\ Puts(t, IF p = robot /\ v # value[Connection[p]] THEN <<Attach>> \o e ELSE e)
  /\ UNCHANGED sspVars

FollowsLink(n, m, t, e) ==
  /\ todo[t] = <<Link(n, m)>> \o e
  /\ value' = [value EXCEPT ![m] = value[n]]
  /\ Puts(t, IF value[n] # value[m] THEN <<UpdateOutput>> \o e ELSE e)
  /\ UNCHANGED sspVars

UpdatesOutput(t, e) ==
  /\ todo[t] = <<UpdateOutput>> \o e
  /\ Puts(t, <<SetValue(Output, value[emc1] /\ value[emc2])>> \o e)
  /\ UNCHANGED <<value, sspVars>>

SetsOutput(t, e) ==
  /\ \E v \in BOOLEAN :
       /\ todo[t] = <<SetValue(Output, v)>> \o e
       /\ value' = [value EXCEPT ![Output] = v]
  /\ Puts(t, e)
  /\ UNCHANGED sspVars

SetsSwitch(p, t, e) ==
  /\ e # <<RestartTimer>>
  /\ \E v \in BOOLEAN :
       /\ todo[t] = <<SetValue(Switch(p), v)>> \o e
       /\ value' = [value EXCEPT ![Switch(p)] = v]
       /\ Puts(t, IF v # value[Switch(p)] THEN <<OnChanged(Switch(p))>> \o (Linked(p) \o e) ELSE e)
  /\ UNCHANGED sspVars

Writes(p, t, e) ==
  /\ e # <<RestartTimer>>
  /\ todo[t] = <<OnChanged(Switch(p))>> \o (Linked(p) \o e)
  /\ tx_buffer' = [tx_buffer EXCEPT ![p] = ValueFrame("switch", value[Switch(p)])]
  /\ Puts(t, <<Send("switch")>> \o (Linked(p) \o e))
  /\ UNCHANGED <<value, connection_lost_timer, receiving, air, off>>

Sends(p, t, e) ==
  /\ e # <<RestartTimer>>
  /\ todo[t] = <<Send("switch")>> \o (Linked(p) \o e)
  /\ Puts(t, Linked(p) \o e)
  /\ IF receiving[p]["switch"] THEN UNCHANGED air ELSE Transmit(p, tx_buffer[p])
  /\ UNCHANGED <<value, connection_lost_timer, receiving, tx_buffer, off>>

Stops(p, t, e) ==
  /\ e = <<Stop>> /\ todo[t] = <<Stop>>
  /\ Puts(t, <<>>)
  /\ receiving' = [receiving EXCEPT ![p]["switch"] = FALSE]
  /\ UNCHANGED <<value, connection_lost_timer, tx_buffer, air, off>>

Checks(p, t, e) ==
  /\ e = <<>> /\ todo[t] = <<CheckTimer>>
  /\ Puts(t, <<>>) \/ Puts(t, <<SetValue(Connection[p], FALSE)>>)
  /\ UNCHANGED <<value, sspVars>>

Restarts(p, t, e) ==
  /\ e = <<RestartTimer>> /\ todo[t] = <<RestartTimer>>
  /\ Puts(t, <<>>)
  /\ connection_lost_timer' = [connection_lost_timer EXCEPT ![p] = LostTime]
  /\ UNCHANGED <<value, receiving, tx_buffer, air, off>>

RobotDoes(t, e) ==
  \/ FollowsLink(Connection[robot], emc1, t, e) /\ e # <<Stop>>
  \/ FollowsLink(Switch(robot), emc2, t, e) /\ e # <<RestartTimer>>
  \/ UpdatesOutput(t, e) \/ SetsOutput(t, e)

Does(p, t, e) ==
  \/ SetsConnection(p, t, e) \/ SetsSwitch(p, t, e)
  \/ Writes(p, t, e) \/ Sends(p, t, e)
  \/ Stops(p, t, e) \/ Checks(p, t, e) \/ Restarts(p, t, e)
  \/ p = robot /\ RobotDoes(t, e)

LEMMA Endings ==
  ASSUME NEW p \in Peer, NEW t \in {rx(p), main(p)}
  PROVE  /\ Ending(p, t) \in {<<>>, <<Stop>>, <<RestartTimer>>}
         /\ Ending(p, t) \in Seq(ACall) /\ Linked(p) \o Ending(p, t) \in Seq(ACall)
         /\ <<Stop>> # <<RestartTimer>> /\ <<Stop>> # <<>> /\ <<RestartTimer>> # <<>>
<1>1. Ending(p, t) \in {<<>>, <<Stop>>, <<RestartTimer>>}
  BY DEF Ending
<1>2. Ending(p, t) \in Seq(ACall)
  <2>1. <<Stop>> \in Seq(ACall) /\ <<RestartTimer>> \in Seq(ACall) /\ <<>> \in Seq(ACall)
    BY Calls
  <2> QED
    BY <1>1, <2>1
<1>3. Linked(p) \in Seq(ACall)
  <2>1. Relay \in ACall
    BY Calls, Places, Wires DEF Relay
  <2> QED
    BY <2>1, Single DEF Linked
<1>4. Stop # RestartTimer
  BY Calls
<1>5. <<Stop>> # <<RestartTimer>> /\ <<Stop>> # <<>> /\ <<RestartTimer>> # <<>>
  BY <1>4
<1> QED
  BY <1>1, <1>2, <1>3, <1>5

LEMMA Linking ==
  ASSUME NEW p \in Peer, NEW c \in ACall, NEW r \in Seq(ACall)
  PROVE  (<<c>> \o Linked(p)) \o r = <<c>> \o (Linked(p) \o r)
<1>1. CASE p = robot
  <2>1. Relay \in ACall /\ Linked(p) = <<Relay>>
    BY <1>1, Calls, Places, Wires DEF Relay, Linked
  <2> QED
    BY <2>1, TwoFirst
<1>2. CASE p # robot
  BY <1>2, Single, Nothing DEF Linked
<1> QED
  BY <1>1, <1>2

(***************************************************************************)
(* Which call is at the head decides what is done.                         *)
(***************************************************************************)
LEMMA StepDoes ==
  ASSUME Orderly, NEW p \in Peer, NEW t \in {rx(p), main(p)}, ServiceStep(p, t)
  PROVE  Does(p, t, Ending(p, t))
<1> SUFFICES ASSUME NEW e, e = Ending(p, t) PROVE Does(p, t, e)
  OBVIOUS
<1> DEFINE l == Linked(p) \o e
<1>1. /\ e \in {<<>>, <<Stop>>, <<RestartTimer>>} /\ e \in Seq(ACall) /\ l \in Seq(ACall)
      /\ t \in Thread
  BY Endings, Wires
<1>2. \/ e = <<>> /\ t = main(p) /\ todo[t] = <<CheckTimer>>
      \/ todo[t] = <<>>
      \/ AtWork(p, todo[t], e)
  BY DEF Orderly, AtMain, AtRx, OnMain, OnRx, Ending
<1>3. /\ Connection[p] \in Node /\ Switch(p) \in Node /\ Connection[robot] \in Node
      /\ Switch(robot) \in Node /\ emc1 \in Node /\ emc2 \in Node /\ Output \in Node
  BY Wires, Places
<1>4. /\ todo \in [Thread -> Seq(ACall)] /\ value \in [Node -> BOOLEAN]
  BY DEF Orderly, Typed
<1> HIDE DEF l
<1>5. ASSUME NEW c \in ACall, NEW r \in Seq(ACall), todo[t] = <<c>> \o r
      PROVE  /\ \A kind : Doing(t, kind) <=> c.do = kind
             /\ Head(todo[t]) = c
             /\ \A calls : Becomes(t, calls) <=> Puts(t, calls \o r)
  <2>1. Head(todo[t]) = c /\ Tail(todo[t]) = r /\ todo[t] # <<>>
    BY <1>5, First
  <2> QED
    BY <2>1, <1>1, <1>4 DEF Doing, Becomes, Puts
<1>6. todo[t] # <<>>
  BY DEF ServiceStep, GraphStep, DoSetValue, DoLink, DoUpdateOutput, DoOnChanged, DoSend,
         DoEndOfReceive, DoCheckTimer, DoRestartTimer, Doing
<1>20. /\ Doing(t, "SetValue")     => DoSetValue(t) /\ UNCHANGED sspVars
       /\ Doing(t, "Link")         => DoLink(t) /\ UNCHANGED sspVars
       /\ Doing(t, "UpdateOutput") => DoUpdateOutput(t) /\ UNCHANGED sspVars
       /\ Doing(t, "OnChanged")    => DoOnChanged(p, t)
       /\ Doing(t, "Send")         => DoSend(p, t)
       /\ Doing(t, "EndOfReceive") => DoEndOfReceive(p, t)
       /\ Doing(t, "CheckTimer")   => DoCheckTimer(p, t)
       /\ Doing(t, "RestartTimer") => DoRestartTimer(p, t)
  BY DEF ServiceStep, GraphStep, DoSetValue, DoLink, DoUpdateOutput, DoOnChanged, DoSend,
         DoEndOfReceive, DoCheckTimer, DoRestartTimer, Doing
<1>24. <<>> \in Seq(ACall) /\ <<>> \o <<>> = <<>>
  OBVIOUS
<1>25. ASSUME NEW c \in ACall, todo[t] = <<c>> \o <<>>
       PROVE  /\ Doing(t, c.do) /\ Head(todo[t]) = c
              /\ Becomes(t, <<>>) => Puts(t, <<>>)
              /\ \A d \in ACall : Becomes(t, <<d>>) => Puts(t, <<d>>)
  <2>1. /\ Doing(t, c.do) /\ Head(todo[t]) = c
        /\ \A calls : Becomes(t, calls) => Puts(t, calls \o <<>>)
    BY <1>5, <1>24, <1>25
  <2> QED
    BY <2>1, <1>24, Single
<1>7. CASE todo[t] = e /\ e = <<Stop>>
  <2>1. todo[t] = <<Stop>> \o <<>>
    BY <1>7, Calls, Single
  <2>2. DoEndOfReceive(p, t) /\ Head(todo[t]) = Stop /\ (Becomes(t, <<>>) => Puts(t, <<>>))
    BY <2>1, <1>25, <1>20, Calls
  <2> QED
    BY <2>2, <1>7, Calls DEF DoEndOfReceive, Stops, Does
<1>8. CASE todo[t] = e /\ e = <<RestartTimer>>
  <2>1. todo[t] = <<RestartTimer>> \o <<>>
    BY <1>8, Calls, Single
  <2>2. DoRestartTimer(p, t) /\ (Becomes(t, <<>>) => Puts(t, <<>>))
    BY <2>1, <1>25, <1>20, Calls
  <2> QED
    BY <2>2, <1>8 DEF DoRestartTimer, Restarts, Does
<1>9. CASE e = <<>> /\ todo[t] = <<CheckTimer>>
  <2>1. todo[t] = <<CheckTimer>> \o <<>>
    BY <1>9, Calls, Single
  <2>2. /\ DoCheckTimer(p, t)
        /\ Becomes(t, <<>>) => Puts(t, <<>>)
        /\ Becomes(t, <<SetValue(Connection[p], FALSE)>>) => Puts(t, <<SetValue(Connection[p], FALSE)>>)
    BY <2>1, <1>3, <1>25, <1>20, Calls
  <2>3. Becomes(t, <<>>) \/ Becomes(t, <<SetValue(Connection[p], FALSE)>>)
    BY <2>2 DEF DoCheckTimer
  <2> QED
    BY <2>2, <2>3, <1>9 DEF DoCheckTimer, Checks, Does
<1>10. ASSUME NEW v \in BOOLEAN, todo[t] = <<SetValue(Connection[p], v)>> \o e, e # <<Stop>>
       PROVE  SetsConnection(p, t, e)
  <2> DEFINE c == SetValue(Connection[p], v)
  <2>1. /\ c \in ACall /\ c.do = "SetValue" /\ c.node = Connection[p] /\ c.v = v
    BY <1>3, Calls
  <2>2. /\ DoSetValue(t) /\ UNCHANGED sspVars /\ Head(todo[t]) = c
        /\ \A calls : Becomes(t, calls) => Puts(t, calls \o e)
    BY <2>1, <1>1, <1>5, <1>10, <1>20
  <2>3. /\ value' = [value EXCEPT ![Connection[p]] = v]
        /\ Becomes(t, IF v # value[Connection[p]] THEN Propagate(Connection[p]) ELSE <<>>)
    BY <2>1, <2>2 DEF DoSetValue, Assign
  <2>4. Puts(t, IF p = robot /\ v # value[Connection[p]] THEN <<Attach>> \o e ELSE e)
    <3>1. Puts(t, (IF v # value[Connection[p]] THEN Propagate(Connection[p]) ELSE <<>>) \o e)
      BY <2>2, <2>3
    <3>2. p # robot => p = controller
      BY Wires
    <3>3. CASE v # value[Connection[p]]
      <4>1. Puts(t, Propagate(Connection[p]) \o e)
        BY <3>1, <3>3
      <4> QED
        BY <4>1, <3>2, <3>3, Tells, Nothing, <1>1
    <3>4. CASE v = value[Connection[p]]
      BY <3>1, <3>4, Nothing, <1>1
    <3> QED
      BY <3>3, <3>4
  <2> QED
    BY <2>2, <2>3, <2>4, <1>10 DEF SetsConnection
<1>11. CASE p = robot /\ todo[t] = <<Attach>> \o e /\ e # <<Stop>>
  <2> DEFINE c == Link(Connection[robot], emc1)
  <2>1. /\ c \in ACall /\ c.do = "Link" /\ c.node = Connection[robot] /\ c.input = emc1
        /\ todo[t] = <<c>> \o e
    BY <1>3, <1>11, Calls DEF Attach
  <2>2. /\ DoLink(t) /\ UNCHANGED sspVars /\ Head(todo[t]) = c
        /\ \A calls : Becomes(t, calls) => Puts(t, calls \o e)
    BY <2>1, <1>1, <1>5, <1>20
  <2>3. /\ value' = [value EXCEPT ![emc1] = value[Connection[robot]]]
        /\ Becomes(t, IF value[Connection[robot]] # value[emc1] THEN Propagate(emc1) ELSE <<>>)
    BY <2>1, <2>2 DEF DoLink, Assign
  <2>4. Puts(t, IF value[Connection[robot]] # value[emc1] THEN <<UpdateOutput>> \o e ELSE e)
    <3>1. Puts(t, (IF value[Connection[robot]] # value[emc1] THEN Propagate(emc1) ELSE <<>>) \o e)
      BY <2>2, <2>3
    <3> QED
      BY <3>1, Tells, Nothing, <1>1
  <2>5. FollowsLink(Connection[robot], emc1, t, e)
    BY <2>1, <2>2, <2>3, <2>4 DEF FollowsLink
  <2> QED
    BY <2>5, <1>11 DEF RobotDoes, Does
<1>12. ASSUME NEW v \in BOOLEAN, todo[t] = <<SetValue(Switch(p), v)>> \o e, e # <<RestartTimer>>
       PROVE  SetsSwitch(p, t, e)
  <2> DEFINE c == SetValue(Switch(p), v)
  <2>1. /\ c \in ACall /\ c.do = "SetValue" /\ c.node = Switch(p) /\ c.v = v
    BY <1>3, Calls
  <2>2. /\ DoSetValue(t) /\ UNCHANGED sspVars /\ Head(todo[t]) = c
        /\ \A calls : Becomes(t, calls) => Puts(t, calls \o e)
    BY <2>1, <1>1, <1>5, <1>12, <1>20
  <2>3. /\ value' = [value EXCEPT ![Switch(p)] = v]
        /\ Becomes(t, IF v # value[Switch(p)] THEN Propagate(Switch(p)) ELSE <<>>)
    BY <2>1, <2>2 DEF DoSetValue, Assign
  <2>4. Puts(t, IF v # value[Switch(p)] THEN <<OnChanged(Switch(p))>> \o l ELSE e)
    <3>1. Puts(t, (IF v # value[Switch(p)] THEN Propagate(Switch(p)) ELSE <<>>) \o e)
      BY <2>2, <2>3
    <3>2. Propagate(Switch(p)) \o e = <<OnChanged(Switch(p))>> \o l
      <4>1. OnChanged(Switch(p)) \in ACall
        BY <1>3, Calls
      <4>2. Propagate(Switch(p)) = <<OnChanged(Switch(p))>> \o Linked(p)
        BY Tells
      <4> QED
        BY <4>1, <4>2, Linking, <1>1 DEF l
    <3> QED
      BY <3>1, <3>2, Nothing, <1>1
  <2> QED
    BY <2>2, <2>3, <2>4, <1>12 DEF SetsSwitch, l
<1>13. CASE todo[t] = <<OnChanged(Switch(p))>> \o l /\ e # <<RestartTimer>>
  <2> DEFINE c == OnChanged(Switch(p))
  <2>1. /\ c \in ACall /\ c.do = "OnChanged" /\ c.node = Switch(p)
    BY <1>3, Calls
  <2>2. /\ DoOnChanged(p, t) /\ Head(todo[t]) = c
        /\ \A calls : Becomes(t, calls) => Puts(t, calls \o l)
    BY <2>1, <1>1, <1>5, <1>13, <1>20
  <2>3. IdOf(p, Switch(p)) = "switch"
    BY Apart, WiringAssumption DEF IdOf, Switch
  <2> HIDE DEF c
  <2>4. /\ tx_buffer' = [tx_buffer EXCEPT ![p] = ValueFrame("switch", value[Switch(p)])]
        /\ Becomes(t, <<Send("switch")>>)
        /\ UNCHANGED <<value, connection_lost_timer, receiving, air, off>>
    BY <2>1, <2>2, <2>3 DEF DoOnChanged
  <2>5. Writes(p, t, e)
    BY <2>2, <2>4, <1>13 DEF Writes, l
  <2> QED
    BY <2>5 DEF Does
<1>14. CASE todo[t] = <<Send("switch")>> \o l /\ e # <<RestartTimer>>
  <2>1. /\ DoSend(p, t) /\ Head(todo[t]) = Send("switch")
        /\ Becomes(t, <<>>) => Puts(t, l)
    <3>1. /\ Doing(t, "Send") /\ Head(todo[t]) = Send("switch")
          /\ Becomes(t, <<>>) => Puts(t, <<>> \o l)
      BY <1>1, <1>5, <1>14, Calls
    <3> QED
      BY <3>1, <1>1, <1>20, Nothing
  <2>2. Sends(p, t, e)
    BY <2>1, <1>14, Calls DEF DoSend, Sends, l
  <2> QED
    BY <2>2 DEF Does
<1>15. CASE p = robot /\ todo[t] = <<Relay>> \o e /\ e # <<RestartTimer>>
  <2> DEFINE c == Link(Switch(robot), emc2)
  <2>1. /\ c \in ACall /\ c.do = "Link" /\ c.node = Switch(robot) /\ c.input = emc2
        /\ todo[t] = <<c>> \o e
    BY <1>3, <1>15, Calls DEF Relay
  <2>2. /\ DoLink(t) /\ UNCHANGED sspVars /\ Head(todo[t]) = c
        /\ \A calls : Becomes(t, calls) => Puts(t, calls \o e)
    BY <2>1, <1>1, <1>5, <1>20
  <2>3. /\ value' = [value EXCEPT ![emc2] = value[Switch(robot)]]
        /\ Becomes(t, IF value[Switch(robot)] # value[emc2] THEN Propagate(emc2) ELSE <<>>)
    BY <2>1, <2>2 DEF DoLink, Assign
  <2>4. Puts(t, IF value[Switch(robot)] # value[emc2] THEN <<UpdateOutput>> \o e ELSE e)
    <3>1. Puts(t, (IF value[Switch(robot)] # value[emc2] THEN Propagate(emc2) ELSE <<>>) \o e)
      BY <2>2, <2>3
    <3> QED
      BY <3>1, Tells, Nothing, <1>1
  <2>5. FollowsLink(Switch(robot), emc2, t, e)
    BY <2>1, <2>2, <2>3, <2>4 DEF FollowsLink
  <2> QED
    BY <2>5, <1>15 DEF RobotDoes, Does
<1>16. CASE p = robot /\ todo[t] = <<UpdateOutput>> \o e
  <2> DEFINE c == SetValue(Output, \A n \in Place : value[n])
  <2>1. /\ DoUpdateOutput(t) /\ UNCHANGED sspVars
        /\ Becomes(t, <<c>>) => Puts(t, <<c>> \o e)
    BY <1>1, <1>5, <1>16, <1>20, Calls
  <2>2. (\A n \in Place : value[n]) <=> value[emc1] /\ value[emc2]
    BY Places
  <2>3. c = SetValue(Output, value[emc1] /\ value[emc2])
    BY <2>2
  <2>4. UpdatesOutput(t, e)
    BY <2>1, <2>3, <1>16 DEF DoUpdateOutput, UpdatesOutput
  <2> QED
    BY <2>4, <1>16 DEF RobotDoes, Does
<1>17. ASSUME NEW v \in BOOLEAN, p = robot, todo[t] = <<SetValue(Output, v)>> \o e
       PROVE  SetsOutput(t, e)
  <2> DEFINE c == SetValue(Output, v)
  <2>1. /\ c \in ACall /\ c.do = "SetValue" /\ c.node = Output /\ c.v = v
    BY <1>3, Calls
  <2>2. /\ DoSetValue(t) /\ UNCHANGED sspVars /\ Head(todo[t]) = c
        /\ \A calls : Becomes(t, calls) => Puts(t, calls \o e)
    BY <2>1, <1>1, <1>5, <1>17, <1>20
  <2>3. /\ value' = [value EXCEPT ![Output] = v]
        /\ Becomes(t, IF v # value[Output] THEN Propagate(Output) ELSE <<>>)
    BY <2>1, <2>2 DEF DoSetValue, Assign
  <2>4. Becomes(t, <<>>)
    BY <2>3, Tells
  <2>5. Puts(t, e)
    BY <2>2, <2>4, <1>1, Nothing
  <2> QED
    BY <2>2, <2>3, <2>5, <1>17 DEF SetsOutput
<1>18. CASE todo[t] = e
  BY <1>1, <1>6, <1>7, <1>8, <1>18
<1>19. CASE AtConnection(p, todo[t], e) /\ e # <<Stop>>
  BY <1>10, <1>11, <1>19 DEF AtConnection, Does
<1>21. CASE AtSwitch(p, todo[t], e) /\ e # <<RestartTimer>>
  BY <1>12, <1>13, <1>14, <1>15, <1>21 DEF AtSwitch, Does, l
<1>22. CASE AtOutput(p, todo[t], e)
  BY <1>16, <1>17, <1>22 DEF AtOutput, Does, RobotDoes
<1> QED
  BY <1>2, <1>6, <1>9, <1>18, <1>19, <1>21, <1>22 DEF AtWork

(***************************************************************************)
(* Every list is one of these, always.                                     *)
(***************************************************************************)
LEMMA ListStep ==
  ASSUME Orderly, NEW p \in Peer, NEW t \in {rx(p), main(p)}, ServiceStep(p, t)
  PROVE  \E x \in Seq(ACall) :
           /\ Puts(t, x)
           /\ \/ AtWork(p, x, Ending(p, t)) /\ UNCHANGED receiving
              \/ t = rx(p) /\ x = <<>>
                  /\ receiving' = [receiving EXCEPT ![p]["switch"] = FALSE]
<1> SUFFICES ASSUME NEW e, e = Ending(p, t)
             PROVE  \E x \in Seq(ACall) :
                      /\ Puts(t, x)
                      /\ \/ AtWork(p, x, e) /\ UNCHANGED receiving
                         \/ t = rx(p) /\ x = <<>>
                             /\ receiving' = [receiving EXCEPT ![p]["switch"] = FALSE]
  OBVIOUS
<1> DEFINE l == Linked(p) \o e
<1>1. /\ e \in {<<>>, <<Stop>>, <<RestartTimer>>} /\ e \in Seq(ACall) /\ l \in Seq(ACall)
      /\ t \in Thread /\ <<Stop>> # <<RestartTimer>> /\ <<Stop>> # <<>> /\ <<RestartTimer>> # <<>>
  BY Endings, Wires
<1>2. Does(p, t, e)
  BY StepDoes
<1>3. /\ Connection[p] \in Node /\ Switch(p) \in Node /\ Connection[robot] \in Node
      /\ Switch(robot) \in Node /\ emc1 \in Node /\ emc2 \in Node /\ Output \in Node
  BY Wires, Places
<1>4. value \in [Node -> BOOLEAN] /\ receiving \in [Peer -> [Id -> BOOLEAN]]
  BY DEF Orderly, Typed
<1>5. \A c \in ACall : <<c>> \o e \in Seq(ACall) /\ <<c>> \o l \in Seq(ACall)
  BY <1>1, First
<1>6. l = e \/ (p = robot /\ l = <<Relay>> \o e)
  BY <1>1, Nothing DEF Linked
<1> HIDE DEF l
<1>7. ASSUME SetsConnection(p, t, e)
      PROVE  \E x \in Seq(ACall) : Puts(t, x) /\ AtWork(p, x, e) /\ UNCHANGED receiving
  <2>1. UNCHANGED receiving /\ e # <<Stop>>
    BY <1>7 DEF SetsConnection, sspVars
  <2>2. \/ Puts(t, e)
        \/ p = robot /\ Puts(t, <<Attach>> \o e)
    BY <1>7 DEF SetsConnection
  <2>3. p = robot => <<Attach>> \o e \in Seq(ACall) /\ AtWork(p, <<Attach>> \o e, e)
    BY <2>1, <1>3, <1>5, Calls DEF AtWork, AtConnection, Attach
  <2> QED
    BY <2>1, <2>2, <2>3, <1>1 DEF AtWork
<1>8. ASSUME SetsSwitch(p, t, e)
      PROVE  \E x \in Seq(ACall) : Puts(t, x) /\ AtWork(p, x, e) /\ UNCHANGED receiving
  <2>1. UNCHANGED receiving /\ e # <<RestartTimer>>
    BY <1>8 DEF SetsSwitch, sspVars
  <2>2. Puts(t, e) \/ Puts(t, <<OnChanged(Switch(p))>> \o l)
    BY <1>8 DEF SetsSwitch, l
  <2>3. /\ <<OnChanged(Switch(p))>> \o l \in Seq(ACall)
        /\ AtWork(p, <<OnChanged(Switch(p))>> \o l, e)
    BY <2>1, <1>3, <1>5, Calls DEF AtWork, AtSwitch, l
  <2> QED
    BY <2>1, <2>2, <2>3, <1>1 DEF AtWork
<1>9. ASSUME Writes(p, t, e)
      PROVE  \E x \in Seq(ACall) : Puts(t, x) /\ AtWork(p, x, e) /\ UNCHANGED receiving
  <2>1. UNCHANGED receiving /\ e # <<RestartTimer>> /\ Puts(t, <<Send("switch")>> \o l)
    BY <1>9 DEF Writes, l
  <2>2. <<Send("switch")>> \o l \in Seq(ACall) /\ AtWork(p, <<Send("switch")>> \o l, e)
    BY <2>1, <1>5, Calls DEF AtWork, AtSwitch, l
  <2> QED
    BY <2>1, <2>2
<1>10. ASSUME Sends(p, t, e)
       PROVE  \E x \in Seq(ACall) : Puts(t, x) /\ AtWork(p, x, e) /\ UNCHANGED receiving
  <2>1. UNCHANGED receiving /\ e # <<RestartTimer>> /\ Puts(t, l)
    BY <1>10 DEF Sends, l
  <2>2. AtWork(p, l, e)
    BY <2>1, <1>6 DEF AtWork, AtSwitch
  <2> QED
    BY <2>1, <2>2, <1>1
<1>11. ASSUME p = robot, RobotDoes(t, e)
       PROVE  \E x \in Seq(ACall) : Puts(t, x) /\ AtWork(p, x, e) /\ UNCHANGED receiving
  <2>1. UNCHANGED receiving
    BY <1>11 DEF RobotDoes, FollowsLink, UpdatesOutput, SetsOutput, sspVars
  <2>2. \/ Puts(t, e) \/ Puts(t, <<UpdateOutput>> \o e)
        \/ Puts(t, <<SetValue(Output, value[emc1] /\ value[emc2])>> \o e)
    BY <1>11 DEF RobotDoes, FollowsLink, UpdatesOutput, SetsOutput
  <2>3. AtWork(p, e, e) /\ AtWork(p, <<UpdateOutput>> \o e, e)
    BY <1>11 DEF AtWork, AtOutput
  <2>4. /\ AtWork(p, <<SetValue(Output, value[emc1] /\ value[emc2])>> \o e, e)
        /\ SetValue(Output, value[emc1] /\ value[emc2]) \in ACall
    BY <1>3, <1>11, Calls DEF AtWork, AtOutput
  <2> QED
    BY <2>1, <2>2, <2>3, <2>4, <1>1, <1>5, Calls
<1>12. ASSUME Checks(p, t, e)
       PROVE  \E x \in Seq(ACall) : Puts(t, x) /\ AtWork(p, x, e) /\ UNCHANGED receiving
  <2>1. UNCHANGED receiving /\ e = <<>> /\ e # <<Stop>>
    BY <1>12, <1>1 DEF Checks, sspVars
  <2>2. Puts(t, <<>>) \/ Puts(t, <<SetValue(Connection[p], FALSE)>>)
    BY <1>12 DEF Checks
  <2>3. /\ <<SetValue(Connection[p], FALSE)>> = <<SetValue(Connection[p], FALSE)>> \o e
        /\ <<SetValue(Connection[p], FALSE)>> \in Seq(ACall)
    <3>1. SetValue(Connection[p], FALSE) \in ACall
      BY <1>3, Calls
    <3> QED
      BY <3>1, <2>1, Single
  <2>4. AtWork(p, <<SetValue(Connection[p], FALSE)>>, e) /\ AtWork(p, <<>>, e)
    BY <2>1, <2>3 DEF AtWork, AtConnection
  <2> QED
    BY <2>1, <2>2, <2>3, <2>4, <1>1
<1>13. ASSUME Stops(p, t, e)
       PROVE  /\ t = rx(p) /\ Puts(t, <<>>)
              /\ receiving' = [receiving EXCEPT ![p]["switch"] = FALSE]
  BY <1>13, <1>1 DEF Stops, Ending
<1>14. ASSUME Restarts(p, t, e)
       PROVE  /\ t = rx(p) /\ Puts(t, <<>>)
              /\ receiving' = [receiving EXCEPT ![p]["switch"] = FALSE]
  <2>1. t = rx(p) /\ ~receiving[p]["switch"] /\ UNCHANGED receiving /\ Puts(t, <<>>)
    BY <1>14, <1>1 DEF Restarts, Ending
  <2>2. receiving = [receiving EXCEPT ![p]["switch"] = FALSE]
    BY <2>1, <1>4, WiringAssumption
  <2> QED
    BY <2>1, <2>2
<1>15. <<>> \in Seq(ACall)
  OBVIOUS
<1>16. CASE \E x \in Seq(ACall) : Puts(t, x) /\ AtWork(p, x, e) /\ UNCHANGED receiving
  BY <1>16
<1>17. CASE /\ t = rx(p) /\ Puts(t, <<>>)
            /\ receiving' = [receiving EXCEPT ![p]["switch"] = FALSE]
  BY <1>15, <1>17
<1> QED
  BY <1>2, <1>7, <1>8, <1>9, <1>10, <1>11, <1>12, <1>13, <1>14, <1>16, <1>17 DEF Does

\* One list changes, the others stay.
LEMMA Others ==
  ASSUME Orderly, NEW p \in Peer, NEW t \in {rx(p), main(p)}, NEW x \in Seq(ACall), Puts(t, x),
         \A q \in Peer : q # p => receiving'[q]["switch"] = receiving[q]["switch"],
         IF t = main(p) THEN receiving'[p]["switch"] = receiving[p]["switch"] /\ OnMain(p, x)
                        ELSE OnRx(p, receiving'[p]["switch"], x)
  PROVE  todo' \in [Thread -> Seq(ACall)] /\ \A q \in Peer : AtMain(q)' /\ AtRx(q)'
<1>1. todo \in [Thread -> Seq(ACall)] /\ t \in Thread /\ rx(p) # main(p)
  BY Wires DEF Orderly, Typed
<1>2. todo' \in [Thread -> Seq(ACall)] /\ todo'[t] = x /\ \A u \in Thread : u # t => todo'[u] = todo[u]
  BY <1>1 DEF Puts
<1>3. ASSUME NEW q \in Peer, q # p PROVE AtMain(q)' /\ AtRx(q)'
  <2>1. todo'[main(q)] = todo[main(q)] /\ todo'[rx(q)] = todo[rx(q)]
    BY <1>2, <1>3, Wires
  <2>2. AtMain(q) /\ AtRx(q) /\ receiving'[q]["switch"] = receiving[q]["switch"]
    BY <1>3 DEF Orderly
  <2> QED
    BY <2>1, <2>2 DEF AtMain, AtRx
<1>4. AtMain(p) /\ AtRx(p)
  BY DEF Orderly
<1>5. CASE t = main(p)
  <2>1. todo'[rx(p)] = todo[rx(p)] /\ todo'[main(p)] = x
    BY <1>1, <1>2, <1>5, Wires
  <2>2. AtMain(p)' /\ AtRx(p)'
    BY <2>1, <1>4, <1>5 DEF AtMain, AtRx
  <2> QED
    BY <2>2, <1>2, <1>3
<1>6. CASE t = rx(p)
  <2>1. todo'[main(p)] = todo[main(p)] /\ todo'[rx(p)] = x
    BY <1>1, <1>2, <1>6, Wires
  <2>2. AtMain(p)' /\ AtRx(p)'
    BY <2>1, <1>1, <1>4, <1>6 DEF AtMain, AtRx
  <2> QED
    BY <2>2, <1>2, <1>3
<1> QED
  BY <1>5, <1>6

LEMMA ServiceLists ==
  ASSUME Orderly, NEW p \in Peer, NEW t \in {rx(p), main(p)}, ServiceStep(p, t)
  PROVE  todo' \in [Thread -> Seq(ACall)] /\ \A q \in Peer : AtMain(q)' /\ AtRx(q)'
<1>1. PICK x \in Seq(ACall) :
         /\ Puts(t, x)
         /\ \/ AtWork(p, x, Ending(p, t)) /\ UNCHANGED receiving
            \/ t = rx(p) /\ x = <<>>
                /\ receiving' = [receiving EXCEPT ![p]["switch"] = FALSE]
  BY ListStep
<1>2. receiving \in [Peer -> [Id -> BOOLEAN]] /\ "switch" \in Id /\ rx(p) # main(p)
  BY WiringAssumption, Wires DEF Orderly, Typed
<1>3. CASE AtWork(p, x, Ending(p, t)) /\ UNCHANGED receiving
  <2>1. IF t = main(p) THEN OnMain(p, x) ELSE OnRx(p, receiving[p]["switch"], x)
    BY <1>3 DEF OnMain, OnRx, Ending
  <2> QED
    BY <2>1, <1>1, <1>3, Others
<1>4. CASE t = rx(p) /\ x = <<>> /\ receiving' = [receiving EXCEPT ![p]["switch"] = FALSE]
  <2>1. receiving'[p]["switch"] = FALSE /\ \A q \in Peer : q # p => receiving'[q] = receiving[q]
    BY <1>2, <1>4
  <2>2. OnRx(p, receiving'[p]["switch"], x)
    BY <2>1, <1>4 DEF OnRx
  <2> QED
    BY <2>1, <2>2, <1>1, <1>2, <1>4, Others
<1> QED
  BY <1>1, <1>3, <1>4

LEMMA ReceiveLists ==
  ASSUME Orderly, NEW p \in Peer, Receive(p, rx(p))
  PROVE  /\ todo' \in [Thread -> Seq(ACall)] /\ \A q \in Peer : AtMain(q)' /\ AtRx(q)'
         /\ receiving' \in [Peer -> [Id -> BOOLEAN]]
         /\ ~receiving[p]["switch"]
         /\ \/ /\ Head(air[p]) = KeepAliveFrame /\ UNCHANGED receiving
               /\ Puts(rx(p), <<SetValue(Connection[p], TRUE)>> \o <<RestartTimer>>)
            \/ /\ receiving' = [receiving EXCEPT ![p]["switch"] = TRUE]
               /\ \E v \in BOOLEAN :
                    /\ Head(air[p]) = ValueFrame("switch", v)
                    /\ Puts(rx(p), <<SetValue(Switch(p), v)>> \o <<Stop>>)
<1>1. /\ receiving \in [Peer -> [Id -> BOOLEAN]] /\ "switch" \in Id /\ air \in [Peer -> Seq(Frames)]
      /\ Connection[p] \in Node /\ Switch(p) \in Node
  BY WiringAssumption, Wires DEF Orderly, Typed
<1>2. todo[rx(p)] = <<>> /\ air[p] # <<>> /\ AtRx(p)
  BY DEF Receive, Orderly
<1>3. ~receiving[p]["switch"]
  <2> SUFFICES ASSUME receiving[p]["switch"] PROVE FALSE
    OBVIOUS
  <2>1. AtWork(p, <<>>, <<Stop>>)
    BY <1>2 DEF AtRx, OnRx
  <2>2. <<Stop>> # <<>>
    OBVIOUS
  <2>3. <<Stop>> \in Seq(ACall) /\ Linked(p) \o <<Stop>> \in Seq(ACall)
    <3>1. <<Stop>> \in Seq(ACall)
      BY Calls, Single
    <3>2. Relay \in ACall
      BY Calls, Wires, Places DEF Relay
    <3> QED
      BY <3>1, <3>2, Single DEF Linked
  <2>4. ~AtConnection(p, <<>>, <<Stop>>) /\ ~AtSwitch(p, <<>>, <<Stop>>) /\ ~AtOutput(p, <<>>, <<Stop>>)
    <3>1. \A c \in ACall : <<>> # <<c>> \o <<Stop>> /\ <<>> # <<c>> \o (Linked(p) \o <<Stop>>)
      BY <2>3, First
    <3>2. \A v \in BOOLEAN : /\ SetValue(Connection[p], v) \in ACall
                             /\ SetValue(Switch(p), v) \in ACall /\ SetValue(Output, v) \in ACall
      BY <1>1, Calls, Places
    <3>3. /\ OnChanged(Switch(p)) \in ACall /\ Send("switch") \in ACall
          /\ UpdateOutput \in ACall /\ Relay \in ACall /\ Attach \in ACall
      BY <1>1, Calls, Wires, Places DEF Relay, Attach
    <3> QED
      BY <3>1, <3>2, <3>3 DEF AtConnection, AtSwitch, AtOutput
  <2> QED
    BY <2>1, <2>2, <2>4 DEF AtWork
<1>4. Head(air[p]) \in Frames
  BY <1>1, <1>2
<1>5. CASE Head(air[p]) = KeepAliveFrame
  <2>1. UNCHANGED receiving /\ Puts(rx(p), TreatKeepAlive(p))
    BY <1>5 DEF Receive, Puts
  <2>2. /\ SetValue(Connection[p], TRUE) \in ACall /\ RestartTimer \in ACall
        /\ <<RestartTimer>> \in Seq(ACall)
    BY <1>1, Calls, Single
  <2>3. /\ TreatKeepAlive(p) = <<SetValue(Connection[p], TRUE)>> \o <<RestartTimer>>
        /\ <<SetValue(Connection[p], TRUE)>> \o <<RestartTimer>> \in Seq(ACall)
    BY <2>2, First, Pair DEF TreatKeepAlive
  <2>4. <<RestartTimer>> # <<Stop>>
    BY Endings
  <2>5. OnRx(p, FALSE, <<SetValue(Connection[p], TRUE)>> \o <<RestartTimer>>)
    BY <2>4 DEF OnRx, AtWork, AtConnection
  <2>6. /\ \A q \in Peer : receiving'[q]["switch"] = receiving[q]["switch"]
        /\ OnRx(p, receiving'[p]["switch"], <<SetValue(Connection[p], TRUE)>> \o <<RestartTimer>>)
    <3>1. receiving[p]["switch"] = FALSE
      BY <1>1, <1>3
    <3>2. receiving'[p]["switch"] = FALSE
      BY <2>1, <3>1
    <3> QED
      BY <2>1, <2>5, <3>2
  <2>7. rx(p) # main(p)
    BY Wires
  <2>8. todo' \in [Thread -> Seq(ACall)] /\ \A q \in Peer : AtMain(q)' /\ AtRx(q)'
    BY <2>1, <2>3, <2>6, <2>7, Others
  <2>9. receiving' \in [Peer -> [Id -> BOOLEAN]]
    BY <1>1, <2>1
  <2> QED
    BY <2>1, <2>3, <2>8, <2>9, <1>3, <1>5
<1>6. ASSUME NEW v \in BOOLEAN, Head(air[p]) = ValueFrame("switch", v)
      PROVE  /\ todo' \in [Thread -> Seq(ACall)] /\ \A q \in Peer : AtMain(q)' /\ AtRx(q)'
             /\ receiving' = [receiving EXCEPT ![p]["switch"] = TRUE]
             /\ Puts(rx(p), <<SetValue(Switch(p), v)>> \o <<Stop>>)
  <2>1. /\ Head(air[p]) # KeepAliveFrame /\ Head(air[p]).id = "switch" /\ Head(air[p]).v = v
    BY <1>6 DEF ValueFrame, KeepAliveFrame
  <2>2. /\ receiving' = [receiving EXCEPT ![p]["switch"] = TRUE]
        /\ Puts(rx(p), <<SetValue(Switch(p), v), Stop>>)
    BY <2>1 DEF Receive, Puts, Load, Switch, Stop
  <2>3. SetValue(Switch(p), v) \in ACall /\ Stop \in ACall /\ <<Stop>> \in Seq(ACall)
    BY <1>1, Calls, Single
  <2>4. /\ <<SetValue(Switch(p), v), Stop>> = <<SetValue(Switch(p), v)>> \o <<Stop>>
        /\ <<SetValue(Switch(p), v)>> \o <<Stop>> \in Seq(ACall)
    BY <2>3, First
  <2>5. <<RestartTimer>> # <<Stop>>
    BY Endings
  <2>6. OnRx(p, TRUE, <<SetValue(Switch(p), v)>> \o <<Stop>>)
    BY <2>5 DEF OnRx, AtWork, AtSwitch
  <2>7. receiving'[p]["switch"] = TRUE /\ \A q \in Peer : q # p => receiving'[q] = receiving[q]
    BY <1>1, <2>2
  <2>8. rx(p) # main(p)
    BY Wires
  <2> QED
    BY <2>2, <2>4, <2>6, <2>7, <2>8, Others
<1>7. CASE \E v \in BOOLEAN : Head(air[p]) = ValueFrame("switch", v)
  <2>1. PICK v \in BOOLEAN : Head(air[p]) = ValueFrame("switch", v)
    BY <1>7
  <2>2. /\ todo' \in [Thread -> Seq(ACall)] /\ \A q \in Peer : AtMain(q)' /\ AtRx(q)'
        /\ receiving' = [receiving EXCEPT ![p]["switch"] = TRUE]
        /\ Puts(rx(p), <<SetValue(Switch(p), v)>> \o <<Stop>>)
    BY <2>1, <1>6
  <2>3. receiving' \in [Peer -> [Id -> BOOLEAN]]
    BY <2>2, <1>1
  <2> QED
    BY <2>1, <2>2, <2>3, <1>3
<1> QED
  BY <1>4, <1>5, <1>7 DEF Frames, SwitchFrames

\* What is on the air after Transmit.
LEMMA Transmitting ==
  ASSUME Typed, NEW p \in Peer, NEW f \in Frames, Transmit(p, f)
  PROVE  /\ air' \in [Peer -> Seq(Frames)] /\ \A q \in Peer : Len(air'[q]) <= MaxInFlight
         /\ Arrives(p) => air'[OtherEnd[p]] = Append(air[OtherEnd[p]], f)
         /\ ~Arrives(p) => air' = air
         /\ \A q \in Peer : q # OtherEnd[p] => air'[q] = air[q]
<1> DEFINE o == OtherEnd[p]
<1>1. o \in Peer /\ air \in [Peer -> Seq(Frames)] /\ MaxInFlight \in Nat
      /\ \A q \in Peer : Len(air[q]) <= MaxInFlight
  BY SspAssumption DEF Typed
<1>2. CASE Arrives(p)
  <2>1. air' = [air EXCEPT ![o] = Append(@, f)] /\ Len(air[o]) < MaxInFlight
    BY <1>2 DEF Transmit, Arrives
  <2>2. Append(air[o], f) \in Seq(Frames) /\ Len(Append(air[o], f)) = Len(air[o]) + 1
        /\ Len(air[o]) \in Nat
    BY <1>1
  <2> HIDE DEF o
  <2>3. air' \in [Peer -> Seq(Frames)] /\ air'[o] = Append(air[o], f)
        /\ \A q \in Peer : q # o => air'[q] = air[q]
    BY <1>1, <2>1, <2>2
  <2>4. Len(air'[o]) <= MaxInFlight
    BY <1>1, <2>1, <2>2, <2>3
  <2> QED
    BY <1>1, <1>2, <2>3, <2>4 DEF o
<1>3. CASE ~Arrives(p)
  BY <1>1, <1>3 DEF Transmit
<1> QED
  BY <1>2, <1>3

\* What is on the air after a frame was taken from it.
LEMMA Taking ==
  ASSUME Typed, NEW p \in Peer, air[p] # <<>>, air' = [air EXCEPT ![p] = Tail(@)]
  PROVE  /\ air' \in [Peer -> Seq(Frames)] /\ \A q \in Peer : Len(air'[q]) <= MaxInFlight
         /\ air'[p] = Tail(air[p]) /\ \A q \in Peer : q # p => air'[q] = air[q]
<1>1. air \in [Peer -> Seq(Frames)] /\ MaxInFlight \in Nat
      /\ \A q \in Peer : Len(air[q]) <= MaxInFlight
  BY SspAssumption DEF Typed
<1>2. Tail(air[p]) \in Seq(Frames) /\ Len(Tail(air[p])) = Len(air[p]) - 1 /\ Len(air[p]) \in Nat
  BY <1>1
<1>3. air' \in [Peer -> Seq(Frames)] /\ air'[p] = Tail(air[p])
      /\ \A q \in Peer : q # p => air'[q] = air[q]
  BY <1>1, <1>2
<1>4. Len(air'[p]) <= MaxInFlight
  <2>1. Len(air[p]) <= MaxInFlight
    BY <1>1
  <2>2. Len(air'[p]) = Len(air[p]) - 1
    BY <1>2, <1>3
  <2> QED
    BY <2>1, <2>2, <1>1, <1>2
<1> QED
  BY <1>1, <1>3, <1>4

LEMMA ServiceTyped ==
  ASSUME Orderly, NEW p \in Peer, NEW t \in {rx(p), main(p)}, ServiceStep(p, t)
  PROVE  /\ value' \in [Node -> BOOLEAN]
         /\ connection_lost_timer' \in [Peer -> -1..LostTime]
         /\ receiving' \in [Peer -> [Id -> BOOLEAN]]
         /\ tx_buffer' \in [Peer -> SwitchFrames]
         /\ air' \in [Peer -> Seq(Frames)] /\ \A q \in Peer : Len(air'[q]) <= MaxInFlight
         /\ off' = off
<1> SUFFICES ASSUME NEW e, Does(p, t, e)
             PROVE  /\ value' \in [Node -> BOOLEAN]
                    /\ connection_lost_timer' \in [Peer -> -1..LostTime]
                    /\ receiving' \in [Peer -> [Id -> BOOLEAN]]
                    /\ tx_buffer' \in [Peer -> SwitchFrames]
                    /\ air' \in [Peer -> Seq(Frames)] /\ \A q \in Peer : Len(air'[q]) <= MaxInFlight
                    /\ off' = off
  BY StepDoes
<1>1. Typed
  BY DEF Orderly
<1> USE <1>1 DEF Typed
<1>2. /\ Connection[p] \in Node /\ Switch(p) \in Node /\ Output \in Node
      /\ Connection[robot] \in Node /\ Switch(robot) \in Node /\ emc1 \in Node /\ emc2 \in Node
  BY Wires, Places
<1>3. CASE SetsConnection(p, t, e) \/ SetsSwitch(p, t, e) \/ Checks(p, t, e)
  BY <1>2, <1>3 DEF SetsConnection, SetsSwitch, Checks, sspVars
<1>4. CASE Writes(p, t, e)
  <2>1. ValueFrame("switch", value[Switch(p)]) \in SwitchFrames
    BY <1>2 DEF SwitchFrames
  <2> QED
    BY <2>1, <1>4 DEF Writes
<1>5. CASE Sends(p, t, e)
  <2>1. UNCHANGED air \/ Transmit(p, tx_buffer[p])
    BY <1>5 DEF Sends
  <2>2. tx_buffer[p] \in Frames
    BY DEF Frames
  <2>3. air' \in [Peer -> Seq(Frames)] /\ \A q \in Peer : Len(air'[q]) <= MaxInFlight
    BY <2>1, <2>2, Transmitting
  <2> QED
    BY <2>3, <1>5 DEF Sends
<1>6. CASE Stops(p, t, e)
  BY <1>6 DEF Stops
<1>7. CASE Restarts(p, t, e)
  BY <1>7, SspAssumption DEF Restarts
<1>8. CASE RobotDoes(t, e)
  BY <1>2, <1>8 DEF RobotDoes, FollowsLink, UpdatesOutput, SetsOutput, sspVars
<1> QED
  BY <1>3, <1>4, <1>5, <1>6, <1>7, <1>8 DEF Does

LEMMA OrderlyStep == Orderly /\ [Next]_vars => Orderly'
<1> SUFFICES ASSUME Orderly, [Next]_vars PROVE Orderly'
  OBVIOUS
<1> USE SspAssumption
<1>1. Typed /\ \A p \in Peer : AtMain(p) /\ AtRx(p)
  BY DEF Orderly
<1>2. ASSUME NEW p \in Peer, NEW v \in BOOLEAN, Throw(p, v) PROVE Orderly'
  <2> DEFINE x == <<SetValue(Switch(p), v)>>
  <2>1. /\ Puts(main(p), x) /\ UNCHANGED <<value, sspVars>>
        /\ writes < MaxWrites /\ writes' = writes + 1
    BY <1>2 DEF Throw, Puts
  <2>2. SetValue(Switch(p), v) \in ACall
    BY Calls, Wires
  <2>3. x \in Seq(ACall) /\ x = x \o <<>>
    BY <2>2, Single
  <2>4. OnMain(p, x)
    <3>1. <<>> # <<RestartTimer>>
      OBVIOUS
    <3> QED
      BY <3>1, <2>3 DEF OnMain, AtWork, AtSwitch
  <2>5. todo' \in [Thread -> Seq(ACall)] /\ \A q \in Peer : AtMain(q)' /\ AtRx(q)'
    BY <2>1, <2>3, <2>4, Others DEF sspVars
  <2>6. moved' \in BOOLEAN /\ overlapped' \in BOOLEAN /\ astray' \in BOOLEAN
    BY <1>1, <1>2 DEF Throw, Begins, Typed
  <2>7. writes' \in 0..MaxWrites
    BY <1>1, <2>1, WiringAssumption DEF Typed
  <2> QED
    BY <1>1, <2>1, <2>5, <2>6, <2>7 DEF Orderly, Typed, sspVars
<1>3. ASSUME CallUpdate PROVE Orderly'
  <2> DEFINE x == <<CheckTimer>>
  <2>1. /\ Puts(main(robot), x) /\ UNCHANGED <<value, receiving, tx_buffer, air, off, writes>>
        /\ connection_lost_timer' =
             [connection_lost_timer EXCEPT ![robot] = CountDown(connection_lost_timer[robot])]
    BY <1>3 DEF CallUpdate, Update, Puts
  <2>2. x \in Seq(ACall) /\ OnMain(robot, x) /\ robot \in Peer
    BY Calls, Single, Wires DEF OnMain
  <2>3. todo' \in [Thread -> Seq(ACall)] /\ \A q \in Peer : AtMain(q)' /\ AtRx(q)'
    BY <2>1, <2>2, Others
  <2>4. connection_lost_timer' \in [Peer -> -1..LostTime]
    <3>1. \A i \in -1..LostTime : CountDown(i) \in -1..LostTime
      BY DEF CountDown
    <3> QED
      BY <3>1, <2>1, <1>1 DEF Typed
  <2>5. moved' \in BOOLEAN /\ overlapped' \in BOOLEAN /\ astray' \in BOOLEAN
    BY <1>1, <1>3 DEF CallUpdate, Begins, Typed
  <2> QED
    BY <1>1, <2>1, <2>3, <2>4, <2>5 DEF Orderly, Typed
<1>4. ASSUME CallSendKeepAlive PROVE Orderly'
  <2>1. /\ Transmit(controller, KeepAliveFrame)
        /\ UNCHANGED <<value, todo, connection_lost_timer, receiving, tx_buffer, off, writes>>
    BY <1>4 DEF CallSendKeepAlive, SendKeepAliveTo
  <2>2. air' \in [Peer -> Seq(Frames)] /\ \A q \in Peer : Len(air'[q]) <= MaxInFlight
    BY <1>1, <2>1, Transmitting, Wires DEF Frames
  <2>3. moved' \in BOOLEAN /\ overlapped' \in BOOLEAN /\ astray' \in BOOLEAN
    BY <1>1, <1>4 DEF CallSendKeepAlive, Begins, Typed
  <2> QED
    BY <1>1, <2>1, <2>2, <2>3 DEF Orderly, Typed, AtMain, AtRx
<1>5. ASSUME NEW p \in Peer, ReceiveFrame(p) PROVE Orderly'
  <2>1. /\ Receive(p, rx(p)) /\ air[p] # <<>> /\ air' = [air EXCEPT ![p] = Tail(@)]
        /\ UNCHANGED <<value, connection_lost_timer, tx_buffer, off, writes>>
    BY <1>5 DEF ReceiveFrame, Receive
  <2>2. /\ todo' \in [Thread -> Seq(ACall)] /\ \A q \in Peer : AtMain(q)' /\ AtRx(q)'
        /\ receiving' \in [Peer -> [Id -> BOOLEAN]]
    BY <2>1, ReceiveLists
  <2>3. air' \in [Peer -> Seq(Frames)] /\ \A q \in Peer : Len(air'[q]) <= MaxInFlight
    BY <2>1, <1>1, Taking
  <2>4. moved' \in BOOLEAN /\ overlapped' \in BOOLEAN /\ astray' \in BOOLEAN
    BY <1>1, <1>5 DEF ReceiveFrame, Begins, Typed
  <2> QED
    BY <1>1, <2>1, <2>2, <2>3, <2>4 DEF Orderly, Typed
<1>6. ASSUME NEW p \in Peer, Lose(p) PROVE Orderly'
  <2>1. air' \in [Peer -> Seq(Frames)] /\ \A q \in Peer : Len(air'[q]) <= MaxInFlight
    BY <1>1, <1>6, Taking DEF Lose
  <2> QED
    BY <1>1, <1>6, <2>1 DEF Lose, Orderly, Typed, AtMain, AtRx
<1>7. ASSUME SwitchOff PROVE Orderly'
  <2>1. /\ off' = {controller} /\ air' = [air EXCEPT ![controller] = <<>>]
        /\ UNCHANGED <<value, todo, connection_lost_timer, receiving, tx_buffer, history>>
    BY <1>7 DEF SwitchOff
  <2>2. <<>> \in Seq(Frames) /\ Len(<<>>) = 0
    OBVIOUS
  <2>3. /\ air' \in [Peer -> Seq(Frames)]
        /\ \A q \in Peer : air'[q] = <<>> \/ air'[q] = air[q]
    BY <1>1, <2>1, <2>2, Wires DEF Typed
  <2>4. \A q \in Peer : Len(air'[q]) <= MaxInFlight
    <3>1. 0 <= MaxInFlight
      OBVIOUS
    <3> QED
      BY <1>1, <2>2, <2>3, <3>1 DEF Typed
  <2> QED
    BY <1>1, <2>1, <2>3, <2>4, Wires DEF Orderly, Typed, AtMain, AtRx, history
<1>8. ASSUME NEW p \in Peer, NEW t \in {rx(p), main(p)}, Step(p, t) PROVE Orderly'
  <2>1. ServiceStep(p, t) /\ UNCHANGED <<writes, overlapped>>
    BY <1>8 DEF Step
  <2>2. moved' \in BOOLEAN /\ astray' \in BOOLEAN
    BY <1>1, <1>8 DEF Step, Typed
  <2> QED
    BY <1>1, <2>1, <2>2, ServiceTyped, ServiceLists DEF Orderly, Typed
<1>9. CASE UNCHANGED vars
  BY <1>1, <1>9 DEF Orderly, Typed, AtMain, AtRx, vars, sspVars, history
<1> QED
  BY <1>2, <1>3, <1>4, <1>5, <1>6, <1>7, <1>8, <1>9 DEF Next

(***************************************************************************)
(* The output.  What the robot's threads are about to do, when only one of *)
(* them is at work.                                                        *)
(***************************************************************************)
Heads == {Head(todo[t]) : t \in {u \in {rx(robot), main(robot)} : todo[u] # <<>>}}

Allowed == value[emc1] /\ value[emc2]

Alone == ~overlapped => \A p \in Peer : todo[main(p)] = <<>> \/ todo[rx(p)] = <<>>

(***************************************************************************)
(* A place that lags behind its source is about to be told.  An output     *)
(* that lags behind the places is about to be told, and whoever is about   *)
(* to write it has read the places as they are.                            *)
(***************************************************************************)
PlacesFollow ==
  /\ value[emc1] = value[Connection[robot]] \/ Attach \in Heads
  /\ \/ value[emc2] = value[Switch(robot)]
     \/ {Relay, OnChanged(Switch(robot)), Send("switch")} \cap Heads # {}

OutputComes ==
  \/ UpdateOutput \in Heads
  \/ SetValue(Output, Allowed) \in Heads
  \/ value[Output] = Allowed /\ \A v \in BOOLEAN : SetValue(Output, v) \notin Heads

Following == ~overlapped => PlacesFollow /\ (moved => OutputComes)

LEMMA Change ==
  ASSUME Orderly, NEW t \in Thread, NEW x, Puts(t, x)
  PROVE  todo'[t] = x /\ \A u \in Thread : u # t => todo'[u] = todo[u]
BY DEF Orderly, Typed, Puts

LEMMA BusyStep ==
  ASSUME Orderly, NEW p \in Peer, NEW t \in {rx(p), main(p)}, ServiceStep(p, t)
  PROVE  todo[t] # <<>> /\ \E x \in Seq(ACall) : Puts(t, x)
<1>1. todo[t] # <<>>
  BY DEF ServiceStep, GraphStep, DoSetValue, DoLink, DoUpdateOutput, DoOnChanged, DoSend,
         DoEndOfReceive, DoCheckTimer, DoRestartTimer, Doing
<1> QED
  BY <1>1, ListStep

LEMMA AloneStep == Orderly /\ Alone /\ [Next]_vars => Alone'
<1> SUFFICES ASSUME Orderly, Alone, [Next]_vars PROVE Alone'
  OBVIOUS
<1>1. ASSUME NEW p \in Peer, NEW t \in {rx(p), main(p)}, NEW u \in {rx(p), main(p)}, t # u,
             NEW x, Puts(t, x), overlapped' = (overlapped \/ todo[u] # <<>>)
      PROVE  Alone'
  <2> SUFFICES ASSUME ~overlapped', NEW q \in Peer
               PROVE  todo'[main(q)] = <<>> \/ todo'[rx(q)] = <<>>
    BY DEF Alone
  <2>1. ~overlapped /\ todo[u] = <<>>
    BY <1>1
  <2>2. t \in Thread /\ u \in Thread /\ rx(q) \in Thread /\ main(q) \in Thread
    BY Wires
  <2>3. \A w \in Thread : w # t => todo'[w] = todo[w]
    BY <1>1, <2>2, Change
  <2>4. CASE q = p
    <3>1. todo'[u] = <<>> /\ (u = main(q) \/ u = rx(q))
      BY <1>1, <2>1, <2>2, <2>3, <2>4
    <3> QED
      BY <3>1
  <2>5. CASE q # p
    <3>1. todo'[main(q)] = todo[main(q)] /\ todo'[rx(q)] = todo[rx(q)]
      BY <2>2, <2>3, <2>5, Wires
    <3> QED
      BY <3>1, <2>1 DEF Alone
  <2> QED
    BY <2>4, <2>5
<1>2. ASSUME NEW p \in Peer, NEW v \in BOOLEAN, Throw(p, v) PROVE Alone'
  BY <1>1, <1>2, Wires DEF Throw, Begins, Puts
<1>3. ASSUME CallUpdate PROVE Alone'
  BY <1>1, <1>3, Wires DEF CallUpdate, Update, Begins, Puts
<1>4. ASSUME CallSendKeepAlive PROVE Alone'
  BY <1>4 DEF CallSendKeepAlive, SendKeepAliveTo, Begins, Alone
<1>5. ASSUME NEW p \in Peer, ReceiveFrame(p) PROVE Alone'
  <2>1. Receive(p, rx(p)) /\ overlapped' = (overlapped \/ todo[main(p)] # <<>>)
    BY <1>5 DEF ReceiveFrame, Begins
  <2>2. \E x : Puts(rx(p), x)
    BY <2>1, ReceiveLists
  <2> QED
    BY <1>1, <2>1, <2>2, Wires
<1>6. ASSUME NEW p \in Peer, Lose(p) PROVE Alone'
  BY <1>6 DEF Lose, Alone
<1>7. ASSUME SwitchOff PROVE Alone'
  BY <1>7 DEF SwitchOff, Alone, history
<1>8. ASSUME NEW p \in Peer, NEW t \in {rx(p), main(p)}, Step(p, t) PROVE Alone'
  <2>1. ServiceStep(p, t) /\ UNCHANGED overlapped
    BY <1>8 DEF Step
  <2>2. todo[t] # <<>> /\ \E x \in Seq(ACall) : Puts(t, x)
    BY <2>1, BusyStep
  <2>3. CASE overlapped
    BY <2>1, <2>3 DEF Alone
  <2>4. CASE ~overlapped
    <3>0. rx(p) # main(p) /\ (todo[main(p)] = <<>> \/ todo[rx(p)] = <<>>)
      BY <2>4, Wires DEF Alone
    <3>1. PICK u \in {rx(p), main(p)} : u # t
      BY <3>0
    <3>2. todo[u] = <<>>
      BY <2>2, <3>0, <3>1
    <3>3. overlapped' = (overlapped \/ todo[u] # <<>>)
      <4>1. overlapped \in BOOLEAN
        BY DEF Orderly, Typed
      <4> QED
        BY <4>1, <2>1, <2>4, <3>2
    <3> QED
      BY <1>1, <2>2, <3>1, <3>3
  <2> QED
    BY <2>3, <2>4
<1>9. CASE UNCHANGED vars
  BY <1>9 DEF vars, history, Alone
<1> QED
  BY <1>2, <1>3, <1>4, <1>5, <1>6, <1>7, <1>8, <1>9 DEF Next

(***************************************************************************)
(* What the heads become.                                                  *)
(***************************************************************************)
LEMMA HeadsChange ==
  ASSUME Orderly, Alone, ~overlapped, NEW t \in {rx(robot), main(robot)},
         NEW c \in ACall, NEW r \in Seq(ACall), todo[t] = <<c>> \o r,
         NEW x, Puts(t, x)
  PROVE  Heads = {c} /\ Heads' = (IF x = <<>> THEN {} ELSE {Head(x)})
<1>1. robot \in Peer /\ rx(robot) \in Thread /\ main(robot) \in Thread /\ rx(robot) # main(robot)
  BY Wires
<1>2. PICK u \in {rx(robot), main(robot)} : u # t /\ {rx(robot), main(robot)} = {t, u}
  BY <1>1
<1>3. todo[t] # <<>> /\ Head(todo[t]) = c
  BY First
<1>4. todo[u] = <<>>
  <2>1. todo[rx(robot)] = <<>> \/ todo[main(robot)] = <<>>
    BY <1>1 DEF Alone
  <2> QED
    BY <2>1, <1>2, <1>3
<1>5. todo'[t] = x /\ todo'[u] = <<>>
  BY <1>1, <1>2, <1>4, Change
<1>6. Heads = {c}
  BY <1>2, <1>3, <1>4 DEF Heads
<1>7. Heads' = {Head(todo'[w]) : w \in {v \in {t, u} : todo'[v] # <<>>}}
  BY <1>2 DEF Heads
<1>8. Heads' = (IF x = <<>> THEN {} ELSE {Head(x)})
  BY <1>5, <1>7
<1> QED
  BY <1>6, <1>8

LEMMA HeadsBegin ==
  ASSUME Orderly, NEW t \in {rx(robot), main(robot)}, NEW u \in {rx(robot), main(robot)}, t # u,
         todo[t] = <<>>, todo[u] = <<>>, NEW x, Puts(t, x), x # <<>>
  PROVE  Heads = {} /\ Heads' = {Head(x)}
<1>1. rx(robot) \in Thread /\ main(robot) \in Thread /\ {rx(robot), main(robot)} = {t, u}
  BY Wires
<1>2. todo'[t] = x /\ todo'[u] = <<>>
  BY <1>1, Change
<1>3. Heads = {}
  BY <1>1 DEF Heads
<1>4. Heads' = {Head(todo'[w]) : w \in {v \in {t, u} : todo'[v] # <<>>}}
  BY <1>1 DEF Heads
<1> QED
  BY <1>2, <1>3, <1>4

LEMMA HeadsStay ==
  ASSUME Orderly, NEW t \in {rx(controller), main(controller)}, NEW x, Puts(t, x)
  PROVE  Heads' = Heads
<1>1. /\ t \in Thread /\ rx(robot) \in Thread /\ main(robot) \in Thread
      /\ t # rx(robot) /\ t # main(robot)
  BY Wires
<1>2. todo'[rx(robot)] = todo[rx(robot)] /\ todo'[main(robot)] = todo[main(robot)]
  BY <1>1, Change
<1> QED
  BY <1>2 DEF Heads

LEMMA Kinds ==
  /\ Attach \in ACall /\ Attach.do = "Link" /\ Relay \in ACall /\ Relay.do = "Link" /\ Attach # Relay
  /\ OnChanged(Switch(robot)) \in ACall /\ OnChanged(Switch(robot)).do = "OnChanged"
  /\ Send("switch") \in ACall /\ Send("switch").do = "Send"
  /\ UpdateOutput \in ACall /\ UpdateOutput.do = "UpdateOutput"
  /\ CheckTimer \in ACall /\ CheckTimer.do = "CheckTimer"
  /\ RestartTimer \in ACall /\ RestartTimer.do = "RestartTimer"
  /\ Stop \in ACall /\ Stop.do = "EndOfReceive"
  /\ \A v \in BOOLEAN : \A n \in {Output, Connection[robot], Switch(robot)} :
       SetValue(n, v) \in ACall /\ SetValue(n, v).do = "SetValue" /\ SetValue(n, v).node = n
  /\ \A v, w \in BOOLEAN : SetValue(Output, v) = SetValue(Output, w) => v = w
<1>1. /\ Connection[robot] \in Node /\ Switch(robot) \in Node /\ Output \in Node
      /\ emc1 \in Node /\ emc2 \in Node /\ emc1 # emc2
  BY Wires, Places
<1>2. /\ Attach \in ACall /\ Attach.do = "Link" /\ Relay \in ACall /\ Relay.do = "Link"
      /\ Attach.input = emc1 /\ Relay.input = emc2
  BY <1>1, Calls DEF Attach, Relay
<1>3. \A v, w \in BOOLEAN : SetValue(Output, v) = SetValue(Output, w) => v = w
  BY <1>1, Calls
<1> QED
  BY <1>1, <1>2, <1>3, Calls

\* Nothing of what the places or the output wait for.
Nowhere(h) ==
  /\ {Attach, Relay, OnChanged(Switch(robot)), Send("switch"), UpdateOutput} \cap h = {}
  /\ \A v \in BOOLEAN : SetValue(Output, v) \notin h

LEMMA EndsNowhere ==
  ASSUME NEW e \in {<<>>, <<Stop>>, <<RestartTimer>>}
  PROVE  Nowhere(IF e = <<>> THEN {} ELSE {Head(e)})
<1>1. CASE e = <<>>
  BY <1>1 DEF Nowhere
<1>2. CASE e = <<Stop>>
  <2>1. e # <<>> /\ Head(e) = Stop
    BY <1>2, Kinds, Single
  <2>2. Nowhere({Stop})
    BY Kinds DEF Nowhere
  <2> QED
    BY <2>1, <2>2
<1>3. CASE e = <<RestartTimer>>
  <2>1. e # <<>> /\ Head(e) = RestartTimer
    BY <1>3, Kinds, Single
  <2>2. Nowhere({RestartTimer})
    BY Kinds DEF Nowhere
  <2> QED
    BY <2>1, <2>2
<1> QED
  BY <1>1, <1>2, <1>3

\* Everything has followed.
Settled ==
  /\ value[emc1] = value[Connection[robot]] /\ value[emc2] = value[Switch(robot)]
  /\ moved => value[Output] = Allowed

LEMMA SettledFirst ==
  ASSUME PlacesFollow, moved => OutputComes, Nowhere(Heads), Allowed \in BOOLEAN
  PROVE  Settled
BY DEF PlacesFollow, OutputComes, Nowhere, Settled

LEMMA SettledThen ==
  ASSUME Settled', Nowhere(Heads')
  PROVE  Following'
BY DEF PlacesFollow, OutputComes, Nowhere, Settled, Following

LEMMA RobotFollowing ==
  ASSUME Orderly, Alone, ~overlapped, Following, NEW t \in {rx(robot), main(robot)},
         ServiceStep(robot, t),
         moved' = (moved \/ \E n \in Place : value'[n] # value[n])
  PROVE  Following'
<1> DEFINE e == Ending(robot, t)
           l == <<Relay>> \o e
<1>1. /\ PlacesFollow /\ (moved => OutputComes)
      /\ value \in [Node -> BOOLEAN] /\ moved \in BOOLEAN
  BY DEF Following, Orderly, Typed
<1>2. /\ Connection[robot] \in Node /\ Switch(robot) \in Node /\ Output \in Node
      /\ emc1 \in Node /\ emc2 \in Node /\ emc1 # emc2 /\ Place = {emc1, emc2}
      /\ Connection[robot] \notin {emc1, emc2, Output, Switch(robot)}
      /\ Switch(robot) \notin {emc1, emc2, Output} /\ Output \notin {emc1, emc2}
  BY Wires, Places, Apart
<1>3. Allowed \in BOOLEAN /\ value[Output] \in BOOLEAN
  BY <1>1, <1>2 DEF Allowed
<1>4. /\ e \in {<<>>, <<Stop>>, <<RestartTimer>>} /\ e \in Seq(ACall) /\ l \in Seq(ACall)
      /\ Linked(robot) \o e = l
  BY Endings, Wires DEF Linked
<1>5. Does(robot, t, e)
  BY StepDoes, Wires
<1>6. Nowhere(IF e = <<>> THEN {} ELSE {Head(e)})
  BY <1>4, EndsNowhere
<1> HIDE DEF e, l
<1>7. ASSUME NEW c \in ACall, NEW r \in Seq(ACall), todo[t] = <<c>> \o r, NEW x, Puts(t, x)
      PROVE  Heads = {c} /\ Heads' = (IF x = <<>> THEN {} ELSE {Head(x)})
  BY <1>7, HeadsChange
<1>8. ASSUME NEW c \in ACall, NEW r \in Seq(ACall), todo[t] = <<c>> \o r,
             NEW d \in ACall, NEW s \in Seq(ACall), Puts(t, <<d>> \o s)
      PROVE  Heads = {c} /\ Heads' = {d}
  <2>1. <<d>> \o s # <<>> /\ Head(<<d>> \o s) = d
    BY First
  <2> QED
    BY <1>7, <1>8, <2>1
<1>9. ASSUME UNCHANGED value PROVE UNCHANGED moved
  <2>1. (\E n \in Place : value'[n] # value[n]) = FALSE
    BY <1>9
  <2> QED
    BY <2>1, <1>1
<1>10. ASSUME UNCHANGED value, Nowhere(Heads), Nowhere(Heads') PROVE Following'
  <2>1. Settled
    BY <1>1, <1>3, <1>10, SettledFirst
  <2>2. Settled'
    BY <2>1, <1>9, <1>10 DEF Settled, Allowed
  <2> QED
    BY <2>2, <1>10, SettledThen
<1>11. CASE SetsConnection(robot, t, e)
  <2>1. PICK v \in BOOLEAN :
          /\ todo[t] = <<SetValue(Connection[robot], v)>> \o e
          /\ value' = [value EXCEPT ![Connection[robot]] = v]
          /\ Puts(t, IF v # value[Connection[robot]] THEN <<Attach>> \o e ELSE e)
    BY <1>4, <1>11 DEF SetsConnection
  <2> DEFINE c == SetValue(Connection[robot], v)
  <2>2. c \in ACall /\ c.do = "SetValue" /\ c.node = Connection[robot] /\ Attach \in ACall
    BY Kinds
  <2>3. Nowhere({c})
    BY <2>2, <1>2, Kinds DEF Nowhere
  <2> HIDE DEF c
  <2>4. Heads = {c}
    BY <2>1, <2>2, <1>4, <1>7 DEF c
  <2>5. Settled
    BY <2>3, <2>4, <1>1, <1>3, SettledFirst
  <2>6. \A n \in Node : n # Connection[robot] => value'[n] = value[n]
    BY <2>1, <1>1
  <2>7. /\ value'[emc1] = value[emc1] /\ value'[emc2] = value[emc2]
        /\ value'[Output] = value[Output] /\ Allowed' = Allowed
    BY <2>6, <1>2 DEF Allowed
  <2>8. UNCHANGED moved
    <3>1. (\E n \in Place : value'[n] # value[n]) = FALSE
      BY <2>7, <1>2
    <3> QED
      BY <3>1, <1>1
  <2>9. CASE v = value[Connection[robot]]
    <3>1. \A n \in Node : value'[n] = value[n]
      BY <2>1, <2>9, <1>1
    <3>2. Settled'
      BY <2>5, <2>7, <2>8, <3>1, <1>2 DEF Settled
    <3>3. Puts(t, e)
      BY <2>1, <2>9
    <3>4. Heads' = (IF e = <<>> THEN {} ELSE {Head(e)})
      BY <2>1, <2>2, <3>3, <1>4, <1>7 DEF c
    <3> QED
      BY <3>2, <3>4, <1>6, SettledThen
  <2>10. CASE v # value[Connection[robot]]
    <3>1. Puts(t, <<Attach>> \o e)
      BY <2>1, <2>10
    <3>2. Heads' = {Attach}
      BY <2>1, <2>2, <3>1, <1>4, <1>8 DEF c
    <3>3. PlacesFollow'
      BY <2>5, <2>6, <2>7, <3>2, <1>2 DEF PlacesFollow, Settled
    <3>4. moved' => OutputComes'
      BY <2>5, <2>7, <2>8, <3>2, Kinds DEF OutputComes, Settled
    <3> QED
      BY <3>3, <3>4 DEF Following
  <2> QED
    BY <2>9, <2>10
<1>12. CASE SetsSwitch(robot, t, e)
  <2>1. PICK v \in BOOLEAN :
          /\ todo[t] = <<SetValue(Switch(robot), v)>> \o e
          /\ value' = [value EXCEPT ![Switch(robot)] = v]
          /\ Puts(t, IF v # value[Switch(robot)] THEN <<OnChanged(Switch(robot))>> \o l ELSE e)
    BY <1>4, <1>12 DEF SetsSwitch
  <2> DEFINE c == SetValue(Switch(robot), v)
  <2>2. c \in ACall /\ c.do = "SetValue" /\ c.node = Switch(robot) /\ OnChanged(Switch(robot)) \in ACall
    BY Kinds
  <2>3. Nowhere({c})
    BY <2>2, <1>2, Kinds DEF Nowhere
  <2> HIDE DEF c
  <2>4. Heads = {c}
    BY <2>1, <2>2, <1>4, <1>7 DEF c
  <2>5. Settled
    BY <2>3, <2>4, <1>1, <1>3, SettledFirst
  <2>6. \A n \in Node : n # Switch(robot) => value'[n] = value[n]
    BY <2>1, <1>1
  <2>7. /\ value'[emc1] = value[emc1] /\ value'[emc2] = value[emc2]
        /\ value'[Output] = value[Output] /\ Allowed' = Allowed
    BY <2>6, <1>2 DEF Allowed
  <2>8. UNCHANGED moved
    <3>1. (\E n \in Place : value'[n] # value[n]) = FALSE
      BY <2>7, <1>2
    <3> QED
      BY <3>1, <1>1
  <2>9. CASE v = value[Switch(robot)]
    <3>1. \A n \in Node : value'[n] = value[n]
      BY <2>1, <2>9, <1>1
    <3>2. Settled'
      BY <2>5, <2>7, <2>8, <3>1, <1>2 DEF Settled
    <3>3. Puts(t, e)
      BY <2>1, <2>9
    <3>4. Heads' = (IF e = <<>> THEN {} ELSE {Head(e)})
      BY <2>1, <2>2, <3>3, <1>4, <1>7 DEF c
    <3> QED
      BY <3>2, <3>4, <1>6, SettledThen
  <2>10. CASE v # value[Switch(robot)]
    <3>1. Puts(t, <<OnChanged(Switch(robot))>> \o l)
      BY <2>1, <2>10
    <3>2. Heads' = {OnChanged(Switch(robot))}
      BY <2>1, <2>2, <3>1, <1>4, <1>8 DEF c
    <3>3. PlacesFollow'
      BY <2>5, <2>6, <2>7, <3>2, <1>2 DEF PlacesFollow, Settled
    <3>4. moved' => OutputComes'
      BY <2>5, <2>7, <2>8, <3>2, Kinds DEF OutputComes, Settled
    <3> QED
      BY <3>3, <3>4 DEF Following
  <2> QED
    BY <2>9, <2>10
<1>13. CASE Writes(robot, t, e)
  <2> DEFINE c == OnChanged(Switch(robot))
             d == Send("switch")
  <2>1. c \in ACall /\ d \in ACall
    BY Kinds
  <2>2. Heads = {c} /\ Heads' = {d} /\ UNCHANGED value
    BY <2>1, <1>4, <1>8, <1>13 DEF Writes
  <2>3. PlacesFollow'
    BY <2>2, <1>1, Kinds DEF PlacesFollow
  <2>4. OutputComes => OutputComes'
    BY <2>2, Kinds DEF OutputComes, Allowed
  <2> QED
    BY <2>2, <2>3, <2>4, <1>1, <1>9 DEF Following
<1>14. CASE Sends(robot, t, e)
  <2> DEFINE c == Send("switch")
  <2>1. c \in ACall /\ Relay \in ACall
    BY Kinds
  <2>2. Heads = {c} /\ Heads' = {Relay} /\ UNCHANGED value
    BY <2>1, <1>4, <1>8, <1>14 DEF Sends, l
  <2>3. PlacesFollow'
    BY <2>2, <1>1, Kinds DEF PlacesFollow
  <2>4. OutputComes => OutputComes'
    BY <2>2, Kinds DEF OutputComes, Allowed
  <2> QED
    BY <2>2, <2>3, <2>4, <1>1, <1>9 DEF Following
<1>15. CASE Stops(robot, t, e) \/ Restarts(robot, t, e)
  <2>1. PICK c \in {Stop, RestartTimer} : todo[t] = <<c>> /\ Puts(t, <<>>) /\ UNCHANGED value
    BY <1>15 DEF Stops, Restarts
  <2>2. c \in ACall /\ Nowhere({c}) /\ <<>> \in Seq(ACall)
    BY Kinds DEF Nowhere
  <2>3. todo[t] = <<c>> \o <<>>
    BY <2>1, <2>2, Single
  <2>4. Heads = {c} /\ Heads' = {}
    BY <2>1, <2>2, <2>3, <1>7
  <2>5. Nowhere({})
    BY DEF Nowhere
  <2> QED
    BY <2>1, <2>2, <2>4, <2>5, <1>10
<1>16. CASE Checks(robot, t, e)
  <2> DEFINE d == SetValue(Connection[robot], FALSE)
  <2>1. /\ todo[t] = <<CheckTimer>> /\ UNCHANGED value
        /\ Puts(t, <<>>) \/ Puts(t, <<d>>)
    BY <1>16 DEF Checks
  <2>2. CheckTimer \in ACall /\ Nowhere({CheckTimer}) /\ Nowhere({}) /\ <<>> \in Seq(ACall)
    BY Kinds DEF Nowhere
  <2>3. d \in ACall /\ Nowhere({d})
    <3>1. d \in ACall /\ d.do = "SetValue" /\ d.node = Connection[robot] /\ Connection[robot] # Output
      BY <1>2, Kinds
    <3> HIDE DEF d
    <3> QED
      BY <3>1, Kinds DEF Nowhere
  <2>4. todo[t] = <<CheckTimer>> \o <<>>
    BY <2>1, <2>2, Single
  <2>5. <<d>> = <<d>> \o <<>>
    BY <2>3, Single
  <2>6. Heads = {CheckTimer} /\ (Heads' = {} \/ Heads' = {d})
    BY <2>1, <2>2, <2>3, <2>4, <2>5, <1>7, <1>8
  <2> QED
    BY <2>1, <2>2, <2>3, <2>6, <1>10
<1>17. CASE FollowsLink(Connection[robot], emc1, t, e)
  <2>1. /\ todo[t] = <<Attach>> \o e
        /\ value' = [value EXCEPT ![emc1] = value[Connection[robot]]]
        /\ Puts(t, IF value[Connection[robot]] # value[emc1] THEN <<UpdateOutput>> \o e ELSE e)
    BY <1>17 DEF FollowsLink, Attach
  <2>2. Attach \in ACall /\ UpdateOutput \in ACall
    BY Kinds
  <2>3. Heads = {Attach}
    BY <2>1, <2>2, <1>4, <1>7
  <2>4. value[emc2] = value[Switch(robot)] /\ (moved => value[Output] = Allowed)
    BY <2>3, <1>1, <1>3, Kinds DEF PlacesFollow, OutputComes
  <2>5. /\ value'[emc1] = value[Connection[robot]] /\ \A n \in Node : n # emc1 => value'[n] = value[n]
    BY <2>1, <1>1, <1>2
  <2>6. /\ value'[emc1] = value'[Connection[robot]] /\ value'[emc2] = value'[Switch(robot)]
        /\ value'[Output] = value[Output] /\ value'[emc2] = value[emc2]
    BY <2>4, <2>5, <1>2
  <2>7. CASE value[Connection[robot]] = value[emc1]
    <3>1. value'[emc1] = value[emc1] /\ value'[emc2] = value[emc2]
      BY <2>5, <2>6, <2>7
    <3>2. UNCHANGED moved
      <4>1. (\E n \in Place : value'[n] # value[n]) = FALSE
        BY <3>1, <1>2
      <4> QED
        BY <4>1, <1>1
    <3>3. Settled'
      BY <2>4, <2>6, <3>1, <3>2 DEF Settled, Allowed
    <3>4. Puts(t, e)
      BY <2>1, <2>7
    <3>5. Heads' = (IF e = <<>> THEN {} ELSE {Head(e)})
      BY <2>1, <2>2, <3>4, <1>4, <1>7
    <3> QED
      BY <3>3, <3>5, <1>6, SettledThen
  <2>8. CASE value[Connection[robot]] # value[emc1]
    <3>1. Puts(t, <<UpdateOutput>> \o e)
      BY <2>1, <2>8
    <3>2. Heads' = {UpdateOutput}
      BY <2>1, <2>2, <3>1, <1>4, <1>8
    <3>3. PlacesFollow'
      BY <2>6 DEF PlacesFollow
    <3>4. OutputComes'
      BY <3>2 DEF OutputComes
    <3> QED
      BY <3>3, <3>4 DEF Following
  <2> QED
    BY <2>7, <2>8
<1>18. CASE FollowsLink(Switch(robot), emc2, t, e)
  <2>1. /\ todo[t] = <<Relay>> \o e
        /\ value' = [value EXCEPT ![emc2] = value[Switch(robot)]]
        /\ Puts(t, IF value[Switch(robot)] # value[emc2] THEN <<UpdateOutput>> \o e ELSE e)
    BY <1>18 DEF FollowsLink, Relay
  <2>2. Relay \in ACall /\ UpdateOutput \in ACall
    BY Kinds
  <2>3. Heads = {Relay}
    BY <2>1, <2>2, <1>4, <1>7
  <2>4. value[emc1] = value[Connection[robot]] /\ (moved => value[Output] = Allowed)
    BY <2>3, <1>1, <1>3, Kinds DEF PlacesFollow, OutputComes
  <2>5. /\ value'[emc2] = value[Switch(robot)] /\ \A n \in Node : n # emc2 => value'[n] = value[n]
    BY <2>1, <1>1, <1>2
  <2>6. /\ value'[emc2] = value'[Switch(robot)] /\ value'[emc1] = value'[Connection[robot]]
        /\ value'[Output] = value[Output] /\ value'[emc1] = value[emc1]
    BY <2>4, <2>5, <1>2
  <2>7. CASE value[Switch(robot)] = value[emc2]
    <3>1. value'[emc1] = value[emc1] /\ value'[emc2] = value[emc2]
      BY <2>5, <2>6, <2>7
    <3>2. UNCHANGED moved
      <4>1. (\E n \in Place : value'[n] # value[n]) = FALSE
        BY <3>1, <1>2
      <4> QED
        BY <4>1, <1>1
    <3>3. Settled'
      BY <2>4, <2>6, <3>1, <3>2 DEF Settled, Allowed
    <3>4. Puts(t, e)
      BY <2>1, <2>7
    <3>5. Heads' = (IF e = <<>> THEN {} ELSE {Head(e)})
      BY <2>1, <2>2, <3>4, <1>4, <1>7
    <3> QED
      BY <3>3, <3>5, <1>6, SettledThen
  <2>8. CASE value[Switch(robot)] # value[emc2]
    <3>1. Puts(t, <<UpdateOutput>> \o e)
      BY <2>1, <2>8
    <3>2. Heads' = {UpdateOutput}
      BY <2>1, <2>2, <3>1, <1>4, <1>8
    <3>3. PlacesFollow'
      BY <2>6 DEF PlacesFollow
    <3>4. OutputComes'
      BY <3>2 DEF OutputComes
    <3> QED
      BY <3>3, <3>4 DEF Following
  <2> QED
    BY <2>7, <2>8
<1>19. CASE UpdatesOutput(t, e)
  <2> DEFINE d == SetValue(Output, Allowed)
  <2>1. UpdateOutput \in ACall /\ d \in ACall
    BY <1>3, Kinds
  <2>2. todo[t] = <<UpdateOutput>> \o e /\ Puts(t, <<d>> \o e) /\ UNCHANGED value
    BY <1>19 DEF UpdatesOutput, Allowed
  <2>3. Heads = {UpdateOutput} /\ Heads' = {d}
    BY <2>1, <2>2, <1>4, <1>8
  <2>4. PlacesFollow'
    BY <2>2, <2>3, <1>1, Kinds DEF PlacesFollow
  <2>5. Allowed' = Allowed
    BY <2>2 DEF Allowed
  <2>6. OutputComes'
    BY <2>3, <2>5 DEF OutputComes
  <2> QED
    BY <2>4, <2>6 DEF Following
<1>20. CASE SetsOutput(t, e)
  <2>1. PICK v \in BOOLEAN :
          /\ todo[t] = <<SetValue(Output, v)>> \o e
          /\ value' = [value EXCEPT ![Output] = v] /\ Puts(t, e)
    BY <1>20 DEF SetsOutput
  <2> DEFINE c == SetValue(Output, v)
  <2>2. c \in ACall /\ c.do = "SetValue" /\ (c = SetValue(Output, Allowed) => v = Allowed)
    BY <1>3, Kinds
  <2>3. Heads = {c} /\ Heads' = (IF e = <<>> THEN {} ELSE {Head(e)})
    BY <2>1, <2>2, <1>4, <1>7
  <2>4. value[emc1] = value[Connection[robot]] /\ value[emc2] = value[Switch(robot)]
    BY <2>2, <2>3, <1>1, Kinds DEF PlacesFollow
  <2>5. moved => v = Allowed
    <3> SUFFICES ASSUME moved PROVE v = Allowed
      OBVIOUS
    <3>1. OutputComes /\ c \in Heads
      BY <2>3, <1>1
    <3>2. SetValue(Output, Allowed) \in Heads
      BY <2>2, <2>3, <3>1, Kinds DEF OutputComes
    <3> QED
      BY <2>2, <2>3, <3>2
  <2>6. value'[Output] = v /\ \A n \in Node : n # Output => value'[n] = value[n]
    BY <2>1, <1>1, <1>2
  <2>7. /\ value'[emc1] = value[emc1] /\ value'[emc2] = value[emc2]
        /\ value'[Connection[robot]] = value[Connection[robot]]
        /\ value'[Switch(robot)] = value[Switch(robot)] /\ Allowed' = Allowed
    BY <2>6, <1>2 DEF Allowed
  <2>8. UNCHANGED moved
    <3>1. (\E n \in Place : value'[n] # value[n]) = FALSE
      BY <2>7, <1>2
    <3> QED
      BY <3>1, <1>1
  <2>9. Settled'
    BY <2>4, <2>5, <2>6, <2>7, <2>8 DEF Settled
  <2> QED
    BY <2>3, <2>9, <1>6, SettledThen
<1> QED
  BY <1>5, <1>11, <1>12, <1>13, <1>14, <1>15, <1>16, <1>17, <1>18, <1>19, <1>20 DEF Does, RobotDoes

LEMMA FollowingStays ==
  ASSUME Following, Heads' = Heads, moved' = moved, overlapped' = FALSE => overlapped = FALSE,
         overlapped \in BOOLEAN, overlapped' \in BOOLEAN,
         \A n \in {emc1, emc2, Output, Connection[robot], Switch(robot)} : value'[n] = value[n]
  PROVE  Following'
<1>1. /\ value'[emc1] = value[emc1] /\ value'[emc2] = value[emc2] /\ value'[Output] = value[Output]
      /\ value'[Connection[robot]] = value[Connection[robot]]
      /\ value'[Switch(robot)] = value[Switch(robot)]
  OBVIOUS
<1>2. Allowed' = Allowed
  BY <1>1 DEF Allowed
<1>3. PlacesFollow' = PlacesFollow
  BY <1>1 DEF PlacesFollow
<1>4. OutputComes' = OutputComes
  BY <1>1, <1>2 DEF OutputComes
<1> QED
  BY <1>3, <1>4 DEF Following

LEMMA ControllerFollowing ==
  ASSUME Orderly, Following, NEW t \in {rx(controller), main(controller)},
         ServiceStep(controller, t), overlapped' = overlapped,
         moved' = (moved \/ \E n \in Place : value'[n] # value[n])
  PROVE  Following'
<1>1. value \in [Node -> BOOLEAN] /\ moved \in BOOLEAN /\ overlapped \in BOOLEAN
  BY DEF Orderly, Typed
<1>2. controller \in Peer /\ robot \in Peer /\ controller # robot
  BY Wires
<1> DEFINE own == {Connection[controller], Switch(controller)}
<1>3. \A n \in {emc1, emc2, Output, Connection[robot], Switch(robot)} : n \in Node /\ n \notin own
  BY <1>2, Wires, Places, Apart
<1>4. PICK e : Does(controller, t, e)
  BY <1>2, StepDoes
<1>5. \A n \in Node \ own : value'[n] = value[n]
  BY <1>1, <1>2, <1>4 DEF Does, SetsConnection, SetsSwitch, Writes, Sends, Stops, Checks, Restarts
<1>6. \E x : Puts(t, x)
  BY <1>2, BusyStep
<1>7. Heads' = Heads
  BY <1>6, HeadsStay
<1>8. moved' = moved
  <2>1. (\E n \in Place : value'[n] # value[n]) = FALSE
    BY <1>3, <1>5, Places
  <2> QED
    BY <2>1, <1>1
<1> QED
  BY <1>1, <1>3, <1>5, <1>7, <1>8, FollowingStays

\* A thread of the robot begins something, and only the heads change.
LEMMA BeginFollowing ==
  ASSUME Orderly, Following,
         NEW t \in {rx(robot), main(robot)}, NEW u \in {rx(robot), main(robot)}, t # u,
         todo[t] = <<>>, overlapped' = (overlapped \/ todo[u] # <<>>),
         NEW c \in ACall, NEW r \in Seq(ACall), Puts(t, <<c>> \o r), Nowhere({c}),
         UNCHANGED <<value, moved>>
  PROVE  Following'
<1>1. value \in [Node -> BOOLEAN] /\ overlapped \in BOOLEAN
  BY DEF Orderly, Typed
<1>2. CASE ~overlapped /\ todo[u] = <<>>
  <2>1. <<c>> \o r # <<>> /\ Head(<<c>> \o r) = c
    BY First
  <2>2. Heads = {} /\ Heads' = {c}
    BY <2>1, <1>2, HeadsBegin
  <2>3. Nowhere(Heads)
    BY <2>2 DEF Nowhere
  <2>4. Allowed \in BOOLEAN
    BY <1>1, Places DEF Allowed
  <2>5. PlacesFollow /\ (moved => OutputComes)
    BY <1>2 DEF Following
  <2>6. Settled
    BY <2>3, <2>4, <2>5, SettledFirst
  <2>7. Settled'
    BY <2>6 DEF Settled, Allowed
  <2> QED
    BY <2>2, <2>7, SettledThen
<1>3. CASE ~(~overlapped /\ todo[u] = <<>>)
  BY <1>3 DEF Following
<1> QED
  BY <1>2, <1>3

LEMMA FollowingStep == Orderly /\ Alone /\ Following /\ [Next]_vars => Following'
<1> SUFFICES ASSUME Orderly, Alone, Following, [Next]_vars PROVE Following'
  OBVIOUS
<1>1. /\ value \in [Node -> BOOLEAN] /\ overlapped \in BOOLEAN /\ moved \in BOOLEAN
      /\ overlapped' \in BOOLEAN
  <2>1. Orderly'
    BY OrderlyStep
  <2> QED
    BY <2>1 DEF Orderly, Typed
<1>2. \A p \in Peer : p = robot \/ p = controller
  BY Wires
<1>3. ASSUME NEW t \in {rx(controller), main(controller)}, NEW x, Puts(t, x),
             UNCHANGED <<value, moved>>, overlapped' = FALSE => overlapped = FALSE
      PROVE  Following'
  BY <1>1, <1>3, HeadsStay, FollowingStays
<1>4. ASSUME UNCHANGED <<value, moved, todo>>, overlapped' = FALSE => overlapped = FALSE
      PROVE  Following'
  <2>1. Heads' = Heads
    BY <1>4 DEF Heads
  <2> QED
    BY <1>1, <1>4, <2>1, FollowingStays
<1>5. ASSUME NEW p, NEW u, Begins(p, u)
      PROVE  /\ overlapped' = (overlapped \/ todo[u] # <<>>) /\ UNCHANGED moved
             /\ overlapped' = FALSE => overlapped = FALSE
  BY <1>1, <1>5 DEF Begins
<1>6. ASSUME NEW p \in Peer, NEW v \in BOOLEAN, Throw(p, v) PROVE Following'
  <2> DEFINE c == SetValue(Switch(p), v)
  <2>1. /\ todo[main(p)] = <<>> /\ Puts(main(p), <<c>>) /\ UNCHANGED value /\ Begins(p, rx(p))
    BY <1>6 DEF Throw, Puts
  <2>2. CASE p = controller
    BY <2>1, <2>2, <1>3, <1>5
  <2>3. CASE p = robot
    <3>1. c \in ACall /\ c.do = "SetValue" /\ c.node = Switch(robot) /\ Switch(robot) # Output
      BY <2>3, Kinds, Apart, Wires
    <3> HIDE DEF c
    <3>2. Nowhere({c})
      BY <3>1, Kinds DEF Nowhere
    <3>3. <<c>> = <<c>> \o <<>> /\ <<>> \in Seq(ACall)
      BY <3>1, Single
    <3>4. main(robot) # rx(robot)
      BY Wires
    <3>5. UNCHANGED <<value, moved>> /\ overlapped' = (overlapped \/ todo[rx(robot)] # <<>>)
      BY <2>1, <2>3, <1>5
    <3>6. Puts(main(robot), <<c>> \o <<>>)
      BY <2>1, <2>3, <3>3
    <3> QED
      BY <2>1, <2>3, <3>1, <3>2, <3>3, <3>4, <3>5, <3>6, BeginFollowing
  <2> QED
    BY <2>2, <2>3, <1>2
<1>7. ASSUME CallUpdate PROVE Following'
  <2>1. /\ todo[main(robot)] = <<>> /\ Puts(main(robot), <<CheckTimer>>) /\ UNCHANGED value
        /\ Begins(robot, rx(robot))
    BY <1>7 DEF CallUpdate, Update, Puts
  <2>2. CheckTimer \in ACall /\ Nowhere({CheckTimer})
    BY Kinds DEF Nowhere
  <2>3. <<CheckTimer>> = <<CheckTimer>> \o <<>> /\ <<>> \in Seq(ACall)
    BY <2>2, Single
  <2>4. main(robot) # rx(robot)
    BY Wires
  <2>5. Puts(main(robot), <<CheckTimer>> \o <<>>)
    BY <2>1, <2>3
  <2>6. UNCHANGED <<value, moved>> /\ overlapped' = (overlapped \/ todo[rx(robot)] # <<>>)
    BY <2>1, <1>5
  <2> QED
    BY <2>1, <2>2, <2>3, <2>4, <2>5, <2>6, BeginFollowing
<1>8. ASSUME CallSendKeepAlive PROVE Following'
  BY <1>4, <1>5, <1>8 DEF CallSendKeepAlive, SendKeepAliveTo
<1>9. ASSUME NEW p \in Peer, ReceiveFrame(p) PROVE Following'
  <2>1. /\ Receive(p, rx(p)) /\ todo[rx(p)] = <<>> /\ UNCHANGED value /\ Begins(p, main(p))
    BY <1>9 DEF ReceiveFrame, Receive
  <2>2. \/ Puts(rx(p), <<SetValue(Connection[p], TRUE)>> \o <<RestartTimer>>)
        \/ \E v \in BOOLEAN : Puts(rx(p), <<SetValue(Switch(p), v)>> \o <<Stop>>)
    BY <2>1, ReceiveLists
  <2>3. CASE p = controller
    <3>1. \E x : Puts(rx(controller), x)
      BY <2>2, <2>3
    <3> QED
      BY <2>1, <2>3, <3>1, <1>3, <1>5
  <2>4. CASE p = robot
    <3>1. main(robot) # rx(robot)
      BY Wires
    <3>2. UNCHANGED <<value, moved>> /\ overlapped' = (overlapped \/ todo[main(robot)] # <<>>)
      BY <2>1, <2>4, <1>5
    <3>3. <<RestartTimer>> \in Seq(ACall) /\ <<Stop>> \in Seq(ACall)
      BY Kinds, Single
    <3>4. ASSUME NEW n \in {Connection[robot], Switch(robot)}, NEW v \in BOOLEAN,
                 NEW r \in Seq(ACall), Puts(rx(robot), <<SetValue(n, v)>> \o r)
          PROVE  Following'
      <4> DEFINE c == SetValue(n, v)
      <4>1. c \in ACall /\ c.do = "SetValue" /\ c.node = n /\ n # Output
        BY Kinds, Apart, Wires
      <4>2. Puts(rx(robot), <<c>> \o r)
        BY <3>4
      <4> HIDE DEF c
      <4>3. Nowhere({c})
        BY <4>1, Kinds DEF Nowhere
      <4> QED
        BY <2>1, <2>4, <3>1, <3>2, <4>1, <4>2, <4>3, BeginFollowing
    <3>5. CASE Puts(rx(robot), <<SetValue(Connection[robot], TRUE)>> \o <<RestartTimer>>)
      BY <3>3, <3>4, <3>5
    <3>6. CASE \E v \in BOOLEAN : Puts(rx(robot), <<SetValue(Switch(robot), v)>> \o <<Stop>>)
      BY <3>3, <3>4, <3>6
    <3> QED
      BY <2>2, <2>4, <3>5, <3>6
  <2> QED
    BY <2>3, <2>4, <1>2
<1>10. ASSUME NEW p \in Peer, Lose(p) PROVE Following'
  BY <1>4, <1>10 DEF Lose
<1>11. ASSUME SwitchOff PROVE Following'
  BY <1>4, <1>11 DEF SwitchOff, history
<1>12. ASSUME NEW p \in Peer, NEW t \in {rx(p), main(p)}, Step(p, t) PROVE Following'
  <2>1. /\ ServiceStep(p, t) /\ overlapped' = overlapped
        /\ moved' = (moved \/ \E n \in Place : value'[n] # value[n])
    BY <1>12 DEF Step
  <2>2. CASE p = controller
    BY <2>1, <2>2, ControllerFollowing
  <2>3. CASE p = robot /\ ~overlapped
    BY <2>1, <2>3, RobotFollowing
  <2>4. CASE overlapped
    BY <2>1, <2>4 DEF Following
  <2> QED
    BY <2>2, <2>3, <2>4, <1>2
<1>13. CASE UNCHANGED vars
  BY <1>4, <1>13 DEF vars, history
<1> QED
  BY <1>6, <1>7, <1>8, <1>9, <1>10, <1>11, <1>12, <1>13 DEF Next

LEMMA Begin == Init => Orderly /\ Alone /\ Following
<1> SUFFICES ASSUME Init PROVE Orderly /\ Alone /\ Following
  OBVIOUS
<1> DEFINE c == SetValue(Output, TRUE)
<1>1. /\ todo = [t \in Thread |-> IF t = main(robot) THEN <<c>> ELSE <<>>]
      /\ value = [n \in Node |-> FALSE] /\ moved = FALSE /\ overlapped = FALSE
      /\ receiving = [p \in Peer |-> [id \in Id |-> FALSE]]
      /\ tx_buffer = [p \in Peer |-> ValueFrame("switch", FALSE)]
      /\ air = [p \in Peer |-> <<>>]
  BY DEF Init
<1>2. c \in ACall /\ Output \in Node
  BY Kinds, Places
<1> HIDE DEF c
<1>3. <<c>> = <<c>> \o <<>> /\ <<c>> \in Seq(ACall) /\ <<>> \in Seq(ACall)
  BY <1>2, Single
<1>4. Typed
  <2>1. ValueFrame("switch", FALSE) \in SwitchFrames
    BY DEF SwitchFrames
  <2>2. <<>> \in Seq(Frames) /\ Len(<<>>) = 0
    OBVIOUS
  <2>3. todo \in [Thread -> Seq(ACall)]
    BY <1>1, <1>3
  <2>4. 0 \in -1..LostTime /\ 0 <= MaxInFlight /\ 0 \in 0..MaxWrites
    BY SspAssumption, WiringAssumption
  <2> QED
    BY <1>1, <2>1, <2>2, <2>3, <2>4 DEF Typed, Init
<1>5. /\ robot \in Peer /\ "switch" \in Id
      /\ \A p \in Peer : rx(p) \in Thread /\ main(p) \in Thread /\ rx(p) # main(robot)
      /\ \A p \in Peer : p # robot => main(p) # main(robot)
  <2>1. \A p \in Peer : rx(p) # main(robot)
    BY Wires DEF rx, main
  <2> QED
    BY <2>1, Wires, WiringAssumption
<1>6. \A p \in Peer : todo[rx(p)] = <<>> /\ receiving[p]["switch"] = FALSE
  BY <1>1, <1>5
<1>7. todo[main(robot)] = <<c>> /\ \A p \in Peer : p # robot => todo[main(p)] = <<>>
  BY <1>1, <1>5
<1>8. OnMain(robot, <<c>>)
  BY <1>3 DEF OnMain, AtWork, AtOutput, c
<1>9. Orderly
  <2>1. \A p \in Peer : AtRx(p)
    BY <1>6 DEF AtRx, OnRx
  <2>2. AtMain(robot)
    BY <1>7, <1>8 DEF AtMain
  <2>3. \A p \in Peer : p # robot => AtMain(p)
    BY <1>7 DEF AtMain, OnMain, AtWork
  <2> QED
    BY <1>4, <2>1, <2>2, <2>3 DEF Orderly
<1>10. Alone
  BY <1>6 DEF Alone
<1>11. Following
  <2>1. /\ emc1 \in Node /\ emc2 \in Node /\ Connection[robot] \in Node /\ Switch(robot) \in Node
    BY Places, Wires
  <2>2. value[emc1] = value[Connection[robot]] /\ value[emc2] = value[Switch(robot)]
    BY <1>1, <2>1
  <2> QED
    BY <1>1, <2>2 DEF Following, PlacesFollow
<1> QED
  BY <1>9, <1>10, <1>11

LEMMA Always == Spec => [](Orderly /\ Alone /\ Following)
<1>1. Orderly /\ Alone /\ Following /\ [Next]_vars => (Orderly /\ Alone /\ Following)'
  BY OrderlyStep, AloneStep, FollowingStep
<1> QED
  BY Begin, <1>1, PTL DEF Spec

(***************************************************************************)
(* Every variable has its type.  That a thread's list is a list of calls   *)
(* is not enough to go on with: a call is made with what the list says, so *)
(* the list must be one that the code can come to.                         *)
(***************************************************************************)
THEOREM EverythingTyped == Spec => []TypeOK
<1>1. Orderly => TypeOK
  <2> SUFFICES ASSUME Orderly PROVE TypeOK
    OBVIOUS
  <2>1. Typed /\ "switch" \in Id
    BY WiringAssumption DEF Orderly
  <2>2. SwitchFrames \subseteq Frame /\ Frames \subseteq Frame
    BY <2>1 DEF SwitchFrames, Frames, Frame, ValueFrame
  <2>3. \A p \in Peer : air[p] \in Seq(Frame)
    BY <2>1, <2>2 DEF Typed
  <2> QED
    BY <2>1, <2>2, <2>3 DEF Typed, TypeOK
<1> QED
  BY Always, <1>1, PTL

(***************************************************************************)
(* The robot's output is on exactly when the controller is connected and   *)
(* the switch allows it, once the robot has come to rest.                  *)
(***************************************************************************)
THEOREM OutputIsRight == Spec => []OutputFollows
<1>1. Orderly /\ Alone /\ Following => OutputFollows
  <2> SUFFICES ASSUME Orderly, Following, AtRest(robot), ~overlapped, moved
               PROVE  value[Output] = (value[Connection[robot]] /\ value[Switch(robot)])
    BY DEF OutputFollows
  <2>1. Heads = {}
    BY DEF AtRest, Heads
  <2>2. Nowhere(Heads)
    BY <2>1 DEF Nowhere
  <2>3. Allowed \in BOOLEAN
    BY Places DEF Orderly, Typed, Allowed
  <2>4. Settled
    BY <2>2, <2>3, SettledFirst DEF Following
  <2> QED
    BY <2>4 DEF Settled, Allowed
<1> QED
  BY Always, <1>1, PTL

(***************************************************************************)
(* The two ends of the value store.  A list of frames carries the switch   *)
(* when one of them is about it, and says v when the last such frame does. *)
(***************************************************************************)
Carries(s) == \E i \in 1..Len(s) : s[i] # KeepAliveFrame
Says(s, v) ==
  \E i \in 1..Len(s) : /\ s[i] = ValueFrame("switch", v)
                       /\ \A j \in 1..Len(s) : j > i => s[j] = KeepAliveFrame

LEMMA FrameKinds ==
  /\ KeepAliveFrame \in Frames /\ KeepAliveFrame.service = "keep_alive"
  /\ \A v \in BOOLEAN : /\ ValueFrame("switch", v) \in Frames
                        /\ ValueFrame("switch", v) # KeepAliveFrame
                        /\ ValueFrame("switch", v).service = "value_store"
  /\ \A v, w \in BOOLEAN : ValueFrame("switch", v) = ValueFrame("switch", w) => v = w
  /\ \A f \in Frames : f # KeepAliveFrame => \E v \in BOOLEAN : f = ValueFrame("switch", v)
<1>1. /\ KeepAliveFrame \in Frames /\ KeepAliveFrame.service = "keep_alive"
      /\ \A v \in BOOLEAN : /\ ValueFrame("switch", v) \in Frames
                            /\ ValueFrame("switch", v).service = "value_store"
                            /\ ValueFrame("switch", v).v = v
  BY DEF Frames, SwitchFrames, KeepAliveFrame, ValueFrame
<1>2. \A f \in Frames : f # KeepAliveFrame => \E v \in BOOLEAN : f = ValueFrame("switch", v)
  BY DEF Frames, SwitchFrames
<1>3. \A v \in BOOLEAN : ValueFrame("switch", v) # KeepAliveFrame
  BY <1>1
<1>4. \A v, w \in BOOLEAN : ValueFrame("switch", v) = ValueFrame("switch", w) => v = w
  BY <1>1
<1> QED
  BY <1>1, <1>2, <1>3, <1>4

LEMMA SaysCarries ==
  ASSUME NEW s \in Seq(Frames), NEW v \in BOOLEAN, Says(s, v)
  PROVE  Carries(s)
BY FrameKinds DEF Says, Carries

LEMMA CarriesSwitch ==
  ASSUME NEW p \in Peer, air[p] \in Seq(Frames)
  PROVE  SwitchOnItsWay(p) <=> Carries(air[p])
<1>1. DOMAIN air[p] = 1..Len(air[p])
  OBVIOUS
<1>2. \A i \in 1..Len(air[p]) : air[p][i] \in Frames
  OBVIOUS
<1>3. \A f \in Frames : f.service = "value_store" <=> f # KeepAliveFrame
  BY FrameKinds
<1> QED
  BY <1>1, <1>2, <1>3 DEF SwitchOnItsWay, Carries

LEMMA AppendKeepAlive ==
  ASSUME NEW s \in Seq(Frames)
  PROVE  /\ Carries(Append(s, KeepAliveFrame)) <=> Carries(s)
         /\ \A v \in BOOLEAN : Says(s, v) => Says(Append(s, KeepAliveFrame), v)
<1> DEFINE a == Append(s, KeepAliveFrame)
<1>1. Len(a) = Len(s) + 1 /\ Len(s) \in Nat /\ a[Len(s) + 1] = KeepAliveFrame
      /\ \A i \in 1..Len(s) : a[i] = s[i]
  BY FrameKinds
<1> HIDE DEF a
<1>2. Carries(a) <=> Carries(s)
  BY <1>1 DEF Carries
<1>3. ASSUME NEW v \in BOOLEAN, Says(s, v) PROVE Says(a, v)
  <2>1. PICK i \in 1..Len(s) : /\ s[i] = ValueFrame("switch", v)
                               /\ \A j \in 1..Len(s) : j > i => s[j] = KeepAliveFrame
    BY <1>3 DEF Says
  <2>2. i \in 1..Len(a) /\ a[i] = ValueFrame("switch", v)
    BY <1>1, <2>1
  <2>3. \A j \in 1..Len(a) : j > i => a[j] = KeepAliveFrame
    <3> SUFFICES ASSUME NEW j \in 1..Len(a), j > i PROVE a[j] = KeepAliveFrame
      OBVIOUS
    <3>1. CASE j = Len(s) + 1
      BY <1>1, <3>1
    <3>2. CASE j # Len(s) + 1
      <4>1. j \in 1..Len(s)
        BY <1>1, <3>2
      <4> QED
        BY <4>1, <1>1, <2>1
    <3> QED
      BY <3>1, <3>2
  <2> QED
    BY <2>2, <2>3 DEF Says
<1> QED
  BY <1>2, <1>3 DEF a

LEMMA AppendValue ==
  ASSUME NEW s \in Seq(Frames), NEW v \in BOOLEAN
  PROVE  Says(Append(s, ValueFrame("switch", v)), v)
<1> DEFINE f == ValueFrame("switch", v)
           a == Append(s, f)
<1>1. Len(a) = Len(s) + 1 /\ Len(s) \in Nat /\ a[Len(s) + 1] = f
  BY FrameKinds
<1> HIDE DEF f, a
<1>2. Len(s) + 1 \in 1..Len(a) /\ \A j \in 1..Len(a) : ~(j > Len(s) + 1)
  BY <1>1
<1> QED
  BY <1>1, <1>2 DEF Says, f, a

\* What remains when the first frame is taken.
LEMMA TakeFirst ==
  ASSUME NEW s \in Seq(Frames), s # <<>>
  PROVE  /\ Tail(s) \in Seq(Frames) /\ Head(s) \in Frames
         /\ Head(s) = KeepAliveFrame => /\ Carries(Tail(s)) <=> Carries(s)
                                        /\ \A v \in BOOLEAN : Says(s, v) => Says(Tail(s), v)
         /\ Head(s) # KeepAliveFrame => Carries(s)
         /\ \A v \in BOOLEAN : Says(s, v) =>
              \/ Says(Tail(s), v)
              \/ ~Carries(Tail(s)) /\ Head(s) = ValueFrame("switch", v)
<1> DEFINE a == Tail(s)
<1>1. /\ a \in Seq(Frames) /\ Len(s) \in Nat /\ Len(s) > 0 /\ Len(a) = Len(s) - 1
      /\ Head(s) = s[1] /\ s[1] \in Frames /\ \A i \in 1..Len(a) : a[i] = s[i + 1]
  OBVIOUS
<1> HIDE DEF a
<1>2. Head(s) # KeepAliveFrame => Carries(s)
  BY <1>1 DEF Carries
<1>3. ASSUME Carries(a) PROVE Carries(s)
  <2>1. PICK i \in 1..Len(a) : a[i] # KeepAliveFrame
    BY <1>3 DEF Carries
  <2>2. i + 1 \in 1..Len(s) /\ s[i + 1] # KeepAliveFrame
    BY <1>1, <2>1
  <2> QED
    BY <2>2 DEF Carries
<1>4. ASSUME Carries(s), s[1] = KeepAliveFrame PROVE Carries(a)
  <2>1. PICK i \in 1..Len(s) : s[i] # KeepAliveFrame
    BY <1>4 DEF Carries
  <2>2. i # 1
    BY <1>4, <2>1
  <2>3. i - 1 \in 1..Len(a) /\ (i - 1) + 1 = i
    BY <1>1, <2>2
  <2>4. a[i - 1] # KeepAliveFrame
    BY <1>1, <2>1, <2>3
  <2> QED
    BY <2>3, <2>4 DEF Carries
<1>5. ASSUME NEW v \in BOOLEAN, Says(s, v)
      PROVE  Says(a, v) \/ (~Carries(a) /\ Head(s) = ValueFrame("switch", v))
  <2>1. PICK i \in 1..Len(s) : /\ s[i] = ValueFrame("switch", v)
                               /\ \A j \in 1..Len(s) : j > i => s[j] = KeepAliveFrame
    BY <1>5 DEF Says
  <2>2. CASE i = 1
    <3>1. \A j \in 1..Len(a) : j + 1 \in 1..Len(s) /\ j + 1 > i
      BY <1>1, <2>2
    <3>2. \A j \in 1..Len(a) : a[j] = KeepAliveFrame
      BY <1>1, <2>1, <3>1
    <3> QED
      BY <1>1, <2>1, <2>2, <3>2 DEF Carries
  <2>3. CASE i # 1
    <3>1. i - 1 \in 1..Len(a) /\ (i - 1) + 1 = i
      BY <1>1, <2>3
    <3>2. a[i - 1] = ValueFrame("switch", v)
      BY <1>1, <2>1, <3>1
    <3>3. \A j \in 1..Len(a) : j > i - 1 => j + 1 \in 1..Len(s) /\ j + 1 > i
      BY <1>1, <3>1
    <3>4. \A j \in 1..Len(a) : j > i - 1 => a[j] = KeepAliveFrame
      BY <1>1, <2>1, <3>3
    <3> QED
      BY <3>1, <3>2, <3>4 DEF Says
  <2> QED
    BY <2>2, <2>3
<1>6. ASSUME NEW v \in BOOLEAN, Says(s, v), s[1] = KeepAliveFrame PROVE Says(a, v)
  BY <1>1, <1>5, <1>6, FrameKinds
<1> QED
  BY <1>1, <1>2, <1>3, <1>4, <1>5, <1>6 DEF a

(***************************************************************************)
(* Of the two programs one leads: the other does nothing about the switch, *)
(* and it either is about to be told or has learned what the leader has.   *)
(***************************************************************************)
TellsIn(p, x) == x # <<>> /\ Head(x) \in {OnChanged(Switch(p)), Send("switch")}
SendsIn(x) == x # <<>> /\ Head(x) = Send("switch")
SetsIn(p, x, v) == x # <<>> /\ Head(x) = SetValue(Switch(p), v)

\* What q's switch will be, once everything that is under way has come.
Learns(q, v) ==
  \/ Says(air[q], v)
  \/ /\ ~Carries(air[q])
     /\ \/ SetsIn(q, todo[rx(q)], v)
        \/ value[Switch(q)] = v /\ \A w \in BOOLEAN : ~SetsIn(q, todo[rx(q)], w)

\* Program p does nothing about the switch, nor does o with what p has told it.
Passive(p, o) ==
  /\ ~TellsIn(p, todo[main(p)]) /\ ~Carries(air[o])
  /\ \A v \in BOOLEAN : ~SetsIn(p, todo[main(p)], v) /\ ~SetsIn(o, todo[rx(o)], v)

Leads(p, o) ==
  /\ Passive(o, p)
  /\ TellsIn(p, todo[main(p)]) \/ Learns(o, value[Switch(p)])

\* What is about to be sent is what the switch is.
Buffered(p) ==
  SendsIn(todo[main(p)]) => tx_buffer[p] = ValueFrame("switch", value[Switch(p)])

Agreeing ==
  ~astray /\ off = {} => /\ Leads(robot, controller) \/ Leads(controller, robot)
                         /\ Buffered(robot) /\ Buffered(controller)

Astray == overlapped => astray

\* What else is kept under some id has never been set.
Quiet == \A p \in Peer : \A id \in Id : id # "switch" => value[NodeOf[p][id]] = FALSE

LEMMA SwitchKinds ==
  ASSUME NEW p \in Peer
  PROVE  /\ OnChanged(Switch(p)) \in ACall /\ Send("switch") \in ACall
         /\ \A v \in BOOLEAN : SetValue(Switch(p), v) \in ACall
         /\ OnChanged(Switch(p)) # Send("switch")
         /\ \A v \in BOOLEAN : SetValue(Switch(p), v) \notin {OnChanged(Switch(p)), Send("switch")}
         /\ \A v, w \in BOOLEAN : SetValue(Switch(p), v) = SetValue(Switch(p), w) => v = w
<1>1. Switch(p) \in Node
  BY Wires
<1>2. /\ OnChanged(Switch(p)) \in ACall /\ OnChanged(Switch(p)).do = "OnChanged"
      /\ Send("switch") \in ACall /\ Send("switch").do = "Send"
      /\ \A v \in BOOLEAN : /\ SetValue(Switch(p), v) \in ACall /\ SetValue(Switch(p), v).do = "SetValue"
                            /\ SetValue(Switch(p), v).v = v
  BY <1>1, Calls
<1>3. \A v, w \in BOOLEAN : SetValue(Switch(p), v) = SetValue(Switch(p), w) => v = w
  BY <1>2
<1>4. /\ OnChanged(Switch(p)) # Send("switch")
      /\ \A v \in BOOLEAN : SetValue(Switch(p), v) \notin {OnChanged(Switch(p)), Send("switch")}
  BY <1>2
<1> QED
  BY <1>2, <1>3, <1>4

\* A list that has nothing to do with p's switch at its head.
Elsewhere(p, x) ==
  ~TellsIn(p, x) /\ ~SendsIn(x) /\ \A v \in BOOLEAN : ~SetsIn(p, x, v)

LEMMA ElsewhereCalls ==
  ASSUME NEW p \in Peer, NEW r \in Seq(ACall)
  PROVE  /\ Elsewhere(p, <<>>)
         /\ \A c \in {UpdateOutput, CheckTimer, RestartTimer, Stop, Attach, Relay} :
              Elsewhere(p, <<c>> \o r)
         /\ \A n \in {Connection[p], Output} : \A v \in BOOLEAN :
              SetValue(n, v) \in ACall /\ Elsewhere(p, <<SetValue(n, v)>> \o r)
<1>1. /\ Switch(p) \in Node /\ Connection[p] \in Node /\ Output \in Node
      /\ Switch(p) # Connection[p] /\ Switch(p) # Output
  BY Wires, Places, Apart
<1>2. /\ OnChanged(Switch(p)).do = "OnChanged" /\ Send("switch").do = "Send"
      /\ \A v \in BOOLEAN : /\ SetValue(Switch(p), v).do = "SetValue"
                            /\ SetValue(Switch(p), v).node = Switch(p)
  BY <1>1, Calls
<1>3. ASSUME NEW c \in ACall, c.do \notin {"OnChanged", "Send"},
             c.do = "SetValue" => c.node # Switch(p)
      PROVE  Elsewhere(p, <<c>> \o r)
  <2>1. Head(<<c>> \o r) = c
    BY First
  <2>2. c # OnChanged(Switch(p)) /\ c # Send("switch") /\ \A v \in BOOLEAN : c # SetValue(Switch(p), v)
    BY <1>2, <1>3
  <2> QED
    BY <2>1, <2>2 DEF Elsewhere, TellsIn, SendsIn, SetsIn
<1>4. Elsewhere(p, <<>>)
  BY DEF Elsewhere, TellsIn, SendsIn, SetsIn
<1>5. ASSUME NEW c \in {UpdateOutput, CheckTimer, RestartTimer, Stop, Attach, Relay}
      PROVE  Elsewhere(p, <<c>> \o r)
  <2>1. c \in ACall /\ c.do \notin {"OnChanged", "Send", "SetValue"}
    BY Kinds
  <2> QED
    BY <2>1, <1>3
<1>6. ASSUME NEW n \in {Connection[p], Output}, NEW v \in BOOLEAN
      PROVE  SetValue(n, v) \in ACall /\ Elsewhere(p, <<SetValue(n, v)>> \o r)
  <2> DEFINE c == SetValue(n, v)
  <2>1. c \in ACall /\ c.do = "SetValue" /\ c.node = n /\ n # Switch(p)
    BY <1>1, Calls
  <2> HIDE DEF c
  <2>2. Elsewhere(p, <<c>> \o r)
    BY <2>1, <1>3
  <2> QED
    BY <2>1, <2>2 DEF c
<1> QED
  BY <1>4, <1>5, <1>6

LEMMA ElsewhereEnds ==
  ASSUME NEW p \in Peer, NEW e \in {<<>>, <<Stop>>, <<RestartTimer>>}
  PROVE  Elsewhere(p, e)
<1>1. /\ <<>> \in Seq(ACall) /\ <<Stop>> = <<Stop>> \o <<>>
      /\ <<RestartTimer>> = <<RestartTimer>> \o <<>>
  BY Kinds, Single
<1> QED
  BY <1>1, ElsewhereCalls

(***************************************************************************)
(* What concerns p's switch is as it was: its main list, its receive list, *)
(* what is on its way to it, its value.                                    *)
(***************************************************************************)
MainAsItWas(p) ==
  /\ TellsIn(p, todo'[main(p)]) <=> TellsIn(p, todo[main(p)])
  /\ \A v \in BOOLEAN : SetsIn(p, todo'[main(p)], v) <=> SetsIn(p, todo[main(p)], v)
RxAsItWas(p) == \A v \in BOOLEAN : SetsIn(p, todo'[rx(p)], v) <=> SetsIn(p, todo[rx(p)], v)
AirAsItWas(p) ==
  /\ Carries(air'[p]) <=> Carries(air[p])
  /\ \A v \in BOOLEAN : Says(air[p], v) => Says(air'[p], v)

LEMMA LeadsOn ==
  ASSUME NEW p \in Peer, NEW o \in Peer, value \in [Node -> BOOLEAN],
         MainAsItWas(p), RxAsItWas(p), AirAsItWas(p), value'[Switch(p)] = value[Switch(p)],
         MainAsItWas(o), RxAsItWas(o), AirAsItWas(o), value'[Switch(o)] = value[Switch(o)],
         Leads(p, o)
  PROVE  Leads(p, o)'
<1>1. Passive(o, p) /\ (TellsIn(p, todo[main(p)]) \/ Learns(o, value[Switch(p)]))
  BY DEF Leads
<1>2. Passive(o, p)'
  BY <1>1 DEF Passive, MainAsItWas, RxAsItWas, AirAsItWas
<1>3. CASE TellsIn(p, todo[main(p)])
  BY <1>2, <1>3 DEF Leads, MainAsItWas
<1>4. CASE Learns(o, value[Switch(p)])
  <2>1. value[Switch(p)] \in BOOLEAN
    BY Wires
  <2>2. Says(air'[o], value[Switch(p)]) \/
          /\ ~Carries(air'[o])
          /\ \/ SetsIn(o, todo'[rx(o)], value[Switch(p)])
             \/ value'[Switch(o)] = value[Switch(p)] /\ \A w \in BOOLEAN : ~SetsIn(o, todo'[rx(o)], w)
    BY <1>4, <2>1 DEF Learns, RxAsItWas, AirAsItWas
  <2> QED
    BY <1>2, <2>2 DEF Leads, Learns
<1> QED
  BY <1>1, <1>3, <1>4

LEMMA AgreeingOn ==
  ASSUME Orderly, Agreeing, astray = FALSE, off = {},
         \A p \in Peer : /\ MainAsItWas(p) /\ RxAsItWas(p) /\ AirAsItWas(p)
                         /\ value'[Switch(p)] = value[Switch(p)]
                         /\ SendsIn(todo'[main(p)]) => SendsIn(todo[main(p)]) /\ tx_buffer'[p] = tx_buffer[p]
  PROVE  Agreeing'
<1>1. robot \in Peer /\ controller \in Peer /\ value \in [Node -> BOOLEAN]
  BY Wires DEF Orderly, Typed
<1>2. /\ Leads(robot, controller) \/ Leads(controller, robot)
      /\ Buffered(robot) /\ Buffered(controller)
  BY DEF Agreeing
<1>3. Leads(robot, controller)' \/ Leads(controller, robot)'
  BY <1>1, <1>2, LeadsOn
<1>4. Buffered(robot)' /\ Buffered(controller)'
  BY <1>1, <1>2 DEF Buffered
<1> QED
  BY <1>3, <1>4 DEF Agreeing

\* Only one list changes, and it had and has nothing to do with the switch.
LEMMA ListsOn ==
  ASSUME Orderly, NEW p \in Peer, NEW t \in {rx(p), main(p)}, NEW x, Puts(t, x),
         \A v \in BOOLEAN : ~SetsIn(p, todo[t], v) /\ ~SetsIn(p, x, v),
         t = main(p) => Elsewhere(p, todo[t]) /\ Elsewhere(p, x)
  PROVE  \A q \in Peer : /\ MainAsItWas(q) /\ RxAsItWas(q)
                         /\ SendsIn(todo'[main(q)]) => SendsIn(todo[main(q)])
<1> SUFFICES ASSUME NEW q \in Peer
             PROVE  /\ MainAsItWas(q) /\ RxAsItWas(q)
                    /\ SendsIn(todo'[main(q)]) => SendsIn(todo[main(q)])
  OBVIOUS
<1>1. /\ t \in Thread /\ rx(q) \in Thread /\ main(q) \in Thread /\ rx(p) # main(p) /\ rx(q) # main(q)
      /\ q # p => rx(q) \notin {rx(p), main(p)} /\ main(q) \notin {rx(p), main(p)}
  BY Wires
<1>2. todo'[t] = x /\ \A u \in Thread : u # t => todo'[u] = todo[u]
  BY <1>1, Change
<1>3. CASE rx(q) # t /\ main(q) # t
  <2>1. todo'[rx(q)] = todo[rx(q)] /\ todo'[main(q)] = todo[main(q)]
    BY <1>1, <1>2, <1>3
  <2> QED
    BY <2>1 DEF MainAsItWas, RxAsItWas
<1>4. CASE rx(q) = t
  <2>1. q = p /\ t = rx(p)
    BY <1>1, <1>4
  <2>2. todo'[main(q)] = todo[main(q)]
    BY <1>1, <1>2, <1>4
  <2>3. RxAsItWas(q)
    BY <1>2, <2>1 DEF RxAsItWas
  <2> QED
    BY <2>2, <2>3 DEF MainAsItWas
<1>5. CASE main(q) = t
  <2>1. q = p /\ t = main(p)
    BY <1>1, <1>5
  <2>2. todo'[rx(q)] = todo[rx(q)]
    BY <1>1, <1>2, <1>5
  <2>3. todo'[main(q)] = x /\ Elsewhere(q, x) /\ Elsewhere(q, todo[main(q)])
    BY <1>2, <2>1
  <2> QED
    BY <2>2, <2>3 DEF MainAsItWas, RxAsItWas, Elsewhere
<1> QED
  BY <1>3, <1>4, <1>5

\* A step that neither touches a switch nor says or hears anything about one.
LEMMA NeutralStep ==
  ASSUME Orderly, Agreeing, astray = FALSE, off = {},
         NEW p \in Peer, NEW t \in {rx(p), main(p)}, NEW x, Puts(t, x),
         Elsewhere(p, todo[t]), Elsewhere(p, x),
         \A q \in Peer : AirAsItWas(q) /\ value'[Switch(q)] = value[Switch(q)],
         tx_buffer' = tx_buffer
  PROVE  Agreeing'
<1>1. \A q \in Peer : /\ MainAsItWas(q) /\ RxAsItWas(q)
                      /\ SendsIn(todo'[main(q)]) => SendsIn(todo[main(q)])
  BY ListsOn DEF Elsewhere
<1> QED
  BY <1>1, AgreeingOn

LEMMA SameAir ==
  ASSUME NEW p, air'[p] = air[p]
  PROVE  AirAsItWas(p)
BY DEF AirAsItWas

(***************************************************************************)
(* A program's main thread throws the switch.                              *)
(***************************************************************************)
LEMMA MainSets ==
  ASSUME Orderly, Agreeing, astray = FALSE, off = {}, NEW p \in Peer, NEW o \in Peer, p # o,
         NEW v \in BOOLEAN, todo[main(p)] = <<SetValue(Switch(p), v)>> \o <<>>,
         value' = [value EXCEPT ![Switch(p)] = v],
         Puts(main(p), IF v # value[Switch(p)]
                       THEN <<OnChanged(Switch(p))>> \o (Linked(p) \o <<>>) ELSE <<>>),
         air' = air, tx_buffer' = tx_buffer
  PROVE  Agreeing'
<1> DEFINE c == SetValue(Switch(p), v)
           d == OnChanged(Switch(p))
           l == Linked(p) \o <<>>
<1>1. /\ robot \in Peer /\ controller \in Peer /\ value \in [Node -> BOOLEAN]
      /\ Switch(p) \in Node /\ Switch(o) \in Node /\ Switch(p) # Switch(o)
      /\ main(p) \in Thread /\ rx(p) \in Thread /\ main(o) \in Thread /\ rx(o) \in Thread
      /\ main(p) \notin {rx(p), main(o), rx(o)}
      /\ <<robot, controller>> \in {<<p, o>>, <<o, p>>}
  BY Wires, Apart DEF Orderly, Typed
<1>2. c \in ACall /\ d \in ACall /\ c # d /\ c # Send("switch") /\ d # Send("switch")
  BY SwitchKinds
<1>3. l \in Seq(ACall) /\ <<>> \in Seq(ACall)
  <2>1. main(p) \in {rx(p), main(p)} /\ Ending(p, main(p)) = <<>>
    BY DEF Ending
  <2> QED
    BY <2>1, Endings
<1> HIDE DEF c, d, l
<1>4. SetsIn(p, todo[main(p)], v) /\ ~TellsIn(p, todo[main(p)])
  <2>1. todo[main(p)] # <<>> /\ Head(todo[main(p)]) = c
    BY <1>2, <1>3, First DEF c
  <2> QED
    BY <2>1, <1>2 DEF SetsIn, TellsIn, c, d
<1>5. Leads(p, o) /\ Buffered(p) /\ Buffered(o)
  <2>1. ~Leads(o, p)
    BY <1>4 DEF Leads, Passive
  <2> QED
    BY <1>1, <2>1 DEF Agreeing
<1>6. Passive(o, p) /\ Learns(o, value[Switch(p)])
  BY <1>4, <1>5 DEF Leads
<1>7. /\ \A u \in Thread : u # main(p) => todo'[u] = todo[u]
      /\ todo'[main(p)] = IF v # value[Switch(p)] THEN <<d>> \o l ELSE <<>>
      /\ value'[Switch(o)] = value[Switch(o)] /\ value'[Switch(p)] = v
  BY <1>1, Change DEF d, l
<1>8. todo'[rx(p)] = todo[rx(p)] /\ todo'[main(o)] = todo[main(o)] /\ todo'[rx(o)] = todo[rx(o)]
  BY <1>1, <1>7
<1>9. Passive(o, p)'
  BY <1>6, <1>8 DEF Passive
<1>10. Buffered(o)'
  BY <1>5, <1>7, <1>8 DEF Buffered
<1>11. CASE v = value[Switch(p)]
  <2>1. todo'[main(p)] = <<>>
    BY <1>7, <1>11
  <2>2. Buffered(p)'
    BY <2>1 DEF Buffered, SendsIn
  <2>3. Learns(o, value[Switch(p)])'
    BY <1>6, <1>7, <1>8, <1>11 DEF Learns
  <2> QED
    BY <2>2, <2>3, <1>1, <1>9, <1>10 DEF Leads, Agreeing
<1>12. CASE v # value[Switch(p)]
  <2>1. todo'[main(p)] # <<>> /\ Head(todo'[main(p)]) = d
    BY <1>2, <1>3, <1>7, <1>12, First
  <2>2. Buffered(p)'
    BY <2>1, <1>2 DEF Buffered, SendsIn
  <2>3. TellsIn(p, todo'[main(p)])
    BY <2>1 DEF TellsIn, d
  <2> QED
    BY <2>2, <2>3, <1>1, <1>9, <1>10 DEF Leads, Agreeing
<1> QED
  BY <1>11, <1>12

(***************************************************************************)
(* A program loads what it has received.                                   *)
(***************************************************************************)
LEMMA RxSets ==
  ASSUME Orderly, Agreeing, astray = FALSE, off = {}, NEW p \in Peer, NEW o \in Peer, p # o,
         todo[main(p)] = <<>>,
         NEW v \in BOOLEAN, todo[rx(p)] = <<SetValue(Switch(p), v)>> \o <<Stop>>,
         value' = [value EXCEPT ![Switch(p)] = v],
         Puts(rx(p), IF v # value[Switch(p)]
                     THEN <<OnChanged(Switch(p))>> \o (Linked(p) \o <<Stop>>) ELSE <<Stop>>),
         air' = air, tx_buffer' = tx_buffer
  PROVE  Agreeing'
<1> DEFINE c == SetValue(Switch(p), v)
           d == OnChanged(Switch(p))
           l == Linked(p) \o <<Stop>>
<1>1. /\ robot \in Peer /\ controller \in Peer /\ value \in [Node -> BOOLEAN]
      /\ Switch(p) \in Node /\ Switch(o) \in Node /\ Switch(p) # Switch(o)
      /\ main(p) \in Thread /\ rx(p) \in Thread /\ main(o) \in Thread /\ rx(o) \in Thread
      /\ rx(p) \notin {main(p), main(o), rx(o)}
      /\ <<robot, controller>> \in {<<p, o>>, <<o, p>>}
  BY Wires, Apart DEF Orderly, Typed
<1>2. c \in ACall /\ d \in ACall /\ c # d /\ Stop \in ACall
      /\ \A w \in BOOLEAN : d # SetValue(Switch(p), w) /\ (c = SetValue(Switch(p), w) => v = w)
  BY SwitchKinds, Kinds
<1>3. l \in Seq(ACall) /\ <<Stop>> \in Seq(ACall)
  <2>1. <<Stop>> \in Seq(ACall)
    BY <1>2
  <2>2. CASE p = robot
    <3>1. Linked(p) = <<Relay>> /\ Relay \in ACall
      BY <2>2, Kinds DEF Linked
    <3> QED
      BY <2>1, <3>1, First
  <2>3. CASE p # robot
    BY <2>1, <2>3, Nothing DEF Linked
  <2> QED
    BY <2>1, <2>2, <2>3
<1> HIDE DEF c, d, l
<1>4. todo[rx(p)] # <<>> /\ Head(todo[rx(p)]) = c
  BY <1>2, <1>3, First DEF c
<1>5. SetsIn(p, todo[rx(p)], v) /\ \A w \in BOOLEAN : SetsIn(p, todo[rx(p)], w) => w = v
  BY <1>2, <1>4 DEF SetsIn, c
<1>6. Leads(o, p) /\ Buffered(o) /\ Passive(p, o)
  <2>1. ~Leads(p, o)
    BY <1>5 DEF Leads, Passive
  <2> QED
    BY <1>1, <2>1 DEF Agreeing, Leads
<1>7. /\ \A u \in Thread : u # rx(p) => todo'[u] = todo[u]
      /\ todo'[rx(p)] = IF v # value[Switch(p)] THEN <<d>> \o l ELSE <<Stop>>
      /\ value'[Switch(o)] = value[Switch(o)] /\ value'[Switch(p)] = v
  BY <1>1, Change DEF d, l
<1>8. todo'[main(p)] = <<>> /\ todo'[main(o)] = todo[main(o)] /\ todo'[rx(o)] = todo[rx(o)]
  BY <1>1, <1>7
<1>9. Passive(p, o)'
  BY <1>6, <1>8 DEF Passive, TellsIn, SetsIn
<1>10. Buffered(o)' /\ Buffered(p)'
  BY <1>6, <1>7, <1>8 DEF Buffered, SendsIn
<1>11. \A w \in BOOLEAN : ~SetsIn(p, todo'[rx(p)], w)
  <2>1. CASE v = value[Switch(p)]
    BY <2>1, <1>7, ElsewhereEnds DEF Elsewhere
  <2>2. CASE v # value[Switch(p)]
    <3>1. Head(todo'[rx(p)]) = d
      BY <2>2, <1>2, <1>3, <1>7, First
    <3> QED
      BY <3>1, <1>2 DEF SetsIn
  <2> QED
    BY <2>1, <2>2
<1>12. Leads(o, p)'
  <2>1. CASE TellsIn(o, todo[main(o)])
    BY <2>1, <1>8, <1>9 DEF Leads
  <2>2. CASE Learns(p, value[Switch(o)])
    <3>1. value[Switch(o)] \in BOOLEAN
      BY <1>1
    <3>2. Says(air[p], value[Switch(o)]) \/ (~Carries(air[p]) /\ v = value[Switch(o)])
      BY <2>2, <1>5, <3>1 DEF Learns
    <3>3. Learns(p, value[Switch(o)])'
      BY <3>2, <1>7, <1>11 DEF Learns
    <3> QED
      BY <3>3, <1>9 DEF Leads
  <2> QED
    BY <2>1, <2>2, <1>6 DEF Leads
<1> QED
  BY <1>1, <1>10, <1>12 DEF Agreeing

LEMMA LinkedElsewhere ==
  ASSUME NEW p \in Peer, NEW e \in {<<>>, <<Stop>>, <<RestartTimer>>}
  PROVE  Linked(p) \o e \in Seq(ACall) /\ Elsewhere(p, Linked(p) \o e)
<1>1. e \in Seq(ACall) /\ Elsewhere(p, e)
  <2>1. <<>> \in Seq(ACall) /\ <<Stop>> \in Seq(ACall) /\ <<RestartTimer>> \in Seq(ACall)
    BY Kinds, Single
  <2> QED
    BY <2>1, ElsewhereEnds
<1>2. CASE p = robot
  <2>1. Linked(p) = <<Relay>> /\ Relay \in ACall
    BY <1>2, Kinds DEF Linked
  <2>2. <<Relay>> \o e \in Seq(ACall) /\ Elsewhere(p, <<Relay>> \o e)
    BY <1>1, <2>1, First, ElsewhereCalls
  <2> QED
    BY <2>1, <2>2
<1>3. CASE p # robot
  <2>1. Linked(p) \o e = e
    BY <1>1, <1>3, Nothing DEF Linked
  <2> QED
    BY <1>1, <2>1
<1> QED
  BY <1>2, <1>3

(***************************************************************************)
(* A program's main thread sends the switch.                               *)
(***************************************************************************)
LEMMA MainSends ==
  ASSUME Orderly, Agreeing, astray = FALSE, off = {},
         NEW p \in Peer, NEW o \in Peer, p # o, OtherEnd[p] = o,
         todo[rx(p)] = <<>>, todo[main(p)] = <<Send("switch")>> \o (Linked(p) \o <<>>),
         Puts(main(p), Linked(p) \o <<>>), Transmit(p, tx_buffer[p]), Arrives(p),
         UNCHANGED <<value, tx_buffer>>
  PROVE  Agreeing'
<1>1. /\ robot \in Peer /\ controller \in Peer /\ value \in [Node -> BOOLEAN]
      /\ Switch(p) \in Node /\ air \in [Peer -> Seq(Frames)] /\ tx_buffer \in [Peer -> SwitchFrames]
      /\ main(p) \in Thread /\ rx(p) \in Thread /\ main(o) \in Thread /\ rx(o) \in Thread
      /\ main(p) \notin {rx(p), main(o), rx(o)}
      /\ <<robot, controller>> \in {<<p, o>>, <<o, p>>}
  BY Wires DEF Orderly, Typed
<1>2. /\ Linked(p) \o <<>> \in Seq(ACall) /\ Elsewhere(p, Linked(p) \o <<>>)
      /\ Send("switch") \in ACall /\ Send("switch") # OnChanged(Switch(p))
  BY LinkedElsewhere, SwitchKinds
<1>3. todo[main(p)] # <<>> /\ Head(todo[main(p)]) = Send("switch")
  BY <1>2, First
<1>4. TellsIn(p, todo[main(p)]) /\ SendsIn(todo[main(p)])
  BY <1>3 DEF TellsIn, SendsIn
<1>5. Leads(p, o) /\ Buffered(p) /\ Buffered(o)
  <2>1. ~Leads(o, p)
    BY <1>4 DEF Leads, Passive
  <2> QED
    BY <1>1, <2>1 DEF Agreeing
<1>6. Passive(o, p) /\ tx_buffer[p] = ValueFrame("switch", value[Switch(p)])
  BY <1>4, <1>5 DEF Leads, Buffered
<1>7. tx_buffer[p] \in Frames
  BY <1>1 DEF Frames
<1>8. Typed
  BY DEF Orderly
<1>9. air'[o] = Append(air[o], tx_buffer[p]) /\ air'[p] = air[p]
  BY <1>7, <1>8, Transmitting
<1>10. todo'[main(p)] = Linked(p) \o <<>> /\ \A u \in Thread : u # main(p) => todo'[u] = todo[u]
  BY <1>1, Change
<1>11. todo'[rx(p)] = todo[rx(p)] /\ todo'[main(o)] = todo[main(o)] /\ todo'[rx(o)] = todo[rx(o)]
  BY <1>1, <1>10
<1>12. Passive(o, p)'
  BY <1>6, <1>9, <1>11 DEF Passive
<1>13. Buffered(o)' /\ Buffered(p)'
  <2>1. Buffered(o)'
    BY <1>5, <1>11 DEF Buffered
  <2>2. ~SendsIn(todo'[main(p)])
    BY <1>2, <1>10 DEF Elsewhere
  <2> QED
    BY <2>1, <2>2 DEF Buffered
<1>14. Says(air'[o], value[Switch(p)])
  <2>1. air[o] \in Seq(Frames) /\ value[Switch(p)] \in BOOLEAN
    BY <1>1
  <2> QED
    BY <2>1, <1>6, <1>9, AppendValue
<1>15. Leads(p, o)'
  BY <1>12, <1>14 DEF Leads, Learns
<1> QED
  BY <1>1, <1>13, <1>15 DEF Agreeing

(***************************************************************************)
(* A frame about the switch is received.                                   *)
(***************************************************************************)
LEMMA SwitchReceived ==
  ASSUME Orderly, Agreeing, astray = FALSE, off = {}, NEW p \in Peer, NEW o \in Peer, p # o,
         todo[main(p)] = <<>>, todo[rx(p)] = <<>>, air[p] # <<>>, air' = [air EXCEPT ![p] = Tail(@)],
         NEW v \in BOOLEAN, Head(air[p]) = ValueFrame("switch", v),
         Puts(rx(p), <<SetValue(Switch(p), v)>> \o <<Stop>>),
         UNCHANGED <<value, tx_buffer>>
  PROVE  Agreeing'
<1> DEFINE c == SetValue(Switch(p), v)
<1>1. /\ robot \in Peer /\ controller \in Peer /\ value \in [Node -> BOOLEAN]
      /\ Switch(o) \in Node /\ air \in [Peer -> Seq(Frames)]
      /\ main(p) \in Thread /\ rx(p) \in Thread /\ main(o) \in Thread /\ rx(o) \in Thread
      /\ rx(p) \notin {main(p), main(o), rx(o)}
      /\ <<robot, controller>> \in {<<p, o>>, <<o, p>>}
  BY Wires DEF Orderly, Typed
<1>2. c \in ACall /\ <<Stop>> \in Seq(ACall) /\ \A w \in BOOLEAN : c = SetValue(Switch(p), w) => v = w
  BY SwitchKinds, Kinds, Single
<1>3. Head(air[p]) # KeepAliveFrame
  BY FrameKinds
<1>4. /\ Carries(air[p])
      /\ \A w \in BOOLEAN : Says(air[p], w) => \/ Says(Tail(air[p]), w)
                                               \/ ~Carries(Tail(air[p])) /\ w = v
  <2>1. air[p] \in Seq(Frames)
    BY <1>1
  <2>2. \A w \in BOOLEAN : Head(air[p]) = ValueFrame("switch", w) => w = v
    BY FrameKinds
  <2> QED
    BY <1>3, <2>1, <2>2, TakeFirst
<1>5. Leads(o, p) /\ Buffered(p) /\ Buffered(o) /\ Passive(p, o)
  <2>1. ~Leads(p, o)
    BY <1>4 DEF Leads, Passive
  <2> QED
    BY <1>1, <2>1 DEF Agreeing, Leads
<1>6. /\ todo'[rx(p)] = <<c>> \o <<Stop>> /\ \A u \in Thread : u # rx(p) => todo'[u] = todo[u]
      /\ air'[p] = Tail(air[p]) /\ air'[o] = air[o]
  BY <1>1, Change
<1>7. todo'[main(p)] = todo[main(p)] /\ todo'[main(o)] = todo[main(o)] /\ todo'[rx(o)] = todo[rx(o)]
  BY <1>1, <1>6
<1> HIDE DEF c
<1>8. todo'[rx(p)] # <<>> /\ Head(todo'[rx(p)]) = c
  BY <1>2, <1>6, First
<1>9. SetsIn(p, todo'[rx(p)], v)
  BY <1>8 DEF SetsIn, c
<1>10. Passive(p, o)'
  BY <1>5, <1>6, <1>7 DEF Passive
<1>11. Buffered(o)' /\ Buffered(p)'
  BY <1>5, <1>7 DEF Buffered
<1>12. Leads(o, p)'
  <2>1. CASE TellsIn(o, todo[main(o)])
    BY <2>1, <1>7, <1>10 DEF Leads
  <2>2. CASE Learns(p, value[Switch(o)])
    <3>1. value[Switch(o)] \in BOOLEAN
      BY <1>1
    <3>2. Says(air[p], value[Switch(o)])
      BY <2>2, <1>4 DEF Learns
    <3>3. Says(air'[p], value[Switch(o)]) \/ (~Carries(air'[p]) /\ value[Switch(o)] = v)
      BY <1>4, <1>6, <3>1, <3>2
    <3>4. Learns(p, value[Switch(o)])'
      BY <3>3, <1>9 DEF Learns
    <3> QED
      BY <3>4, <1>10 DEF Leads
  <2> QED
    BY <2>1, <2>2, <1>5 DEF Leads
<1> QED
  BY <1>1, <1>11, <1>12 DEF Agreeing

(***************************************************************************)
(* The switch is thrown at p: it leads from now on.                        *)
(***************************************************************************)
LEMMA Thrown ==
  ASSUME Orderly, Agreeing, astray = FALSE, off = {}, NEW p \in Peer, NEW o \in Peer, p # o,
         todo[main(p)] = <<>>, todo[rx(p)] = <<>>, todo[main(o)] = <<>>, ~Carries(air[p]),
         NEW v \in BOOLEAN, Puts(main(p), <<SetValue(Switch(p), v)>>),
         UNCHANGED <<value, air, tx_buffer>>
  PROVE  Agreeing'
<1> DEFINE c == SetValue(Switch(p), v)
<1>1. /\ robot \in Peer /\ controller \in Peer /\ value \in [Node -> BOOLEAN]
      /\ Switch(o) \in Node /\ Switch(p) \in Node /\ air[p] \in Seq(Frames)
      /\ main(p) \in Thread /\ rx(p) \in Thread /\ main(o) \in Thread /\ rx(o) \in Thread
      /\ main(p) \notin {rx(p), main(o), rx(o)}
      /\ <<robot, controller>> \in {<<p, o>>, <<o, p>>}
  BY Wires DEF Orderly, Typed
<1>2. c \in ACall /\ c # Send("switch")
  BY SwitchKinds
<1>3. \A w \in BOOLEAN : ~SetsIn(p, todo[rx(p)], w)
  BY DEF SetsIn
<1>4. Passive(o, p)
  BY <1>3 DEF Passive, TellsIn, SetsIn
<1>5. Learns(o, value[Switch(p)]) /\ Buffered(o)
  <2>0. Buffered(o) /\ (Leads(p, o) \/ Leads(o, p))
    BY <1>1 DEF Agreeing
  <2>1. CASE Leads(p, o)
    BY <2>0, <2>1 DEF Leads, TellsIn
  <2>2. CASE Leads(o, p)
    <3>1. Passive(p, o) /\ Learns(p, value[Switch(o)])
      BY <2>2 DEF Leads, TellsIn
    <3>2. value[Switch(o)] \in BOOLEAN
      BY <1>1
    <3>3. ~Says(air[p], value[Switch(o)])
      BY <1>1, <3>2, SaysCarries
    <3>4. value[Switch(p)] = value[Switch(o)]
      BY <1>3, <3>1, <3>2, <3>3 DEF Learns
    <3>5. Learns(o, value[Switch(p)])
      BY <3>1, <3>4 DEF Learns, Passive
    <3> QED
      BY <2>0, <3>5
  <2> QED
    BY <2>0, <2>1, <2>2
<1>6. todo'[main(p)] = <<c>> /\ \A u \in Thread : u # main(p) => todo'[u] = todo[u]
  BY <1>1, Change
<1>7. todo'[rx(p)] = todo[rx(p)] /\ todo'[main(o)] = todo[main(o)] /\ todo'[rx(o)] = todo[rx(o)]
  BY <1>1, <1>6
<1> HIDE DEF c
<1>8. Leads(p, o)'
  BY <1>4, <1>5, <1>7 DEF Leads, Passive, Learns
<1>9. Buffered(o)' /\ Buffered(p)'
  <2>1. ~SendsIn(todo'[main(p)])
    BY <1>2, <1>6 DEF SendsIn
  <2> QED
    BY <2>1, <1>5, <1>7 DEF Buffered
<1> QED
  BY <1>1, <1>8, <1>9 DEF Agreeing

(***************************************************************************)
(* A program's main thread fills the buffer it sends from.                 *)
(***************************************************************************)
LEMMA MainWrites ==
  ASSUME Orderly, Agreeing, astray = FALSE, off = {}, NEW p \in Peer, NEW o \in Peer, p # o,
         todo[main(p)] = <<OnChanged(Switch(p))>> \o (Linked(p) \o <<>>),
         Puts(main(p), <<Send("switch")>> \o (Linked(p) \o <<>>)),
         tx_buffer' = [tx_buffer EXCEPT ![p] = ValueFrame("switch", value[Switch(p)])],
         UNCHANGED <<value, air>>
  PROVE  Agreeing'
<1>1. /\ robot \in Peer /\ controller \in Peer /\ value \in [Node -> BOOLEAN]
      /\ tx_buffer \in [Peer -> SwitchFrames]
      /\ main(p) \in Thread /\ rx(p) \in Thread /\ main(o) \in Thread /\ rx(o) \in Thread
      /\ main(p) \notin {rx(p), main(o), rx(o)}
      /\ <<robot, controller>> \in {<<p, o>>, <<o, p>>}
  BY Wires DEF Orderly, Typed
<1>2. /\ OnChanged(Switch(p)) \in ACall /\ Send("switch") \in ACall
      /\ \A v \in BOOLEAN : SetValue(Switch(p), v) \notin {OnChanged(Switch(p)), Send("switch")}
      /\ Linked(p) \o <<>> \in Seq(ACall)
  BY SwitchKinds, LinkedElsewhere
<1>3. /\ todo'[main(p)] = <<Send("switch")>> \o (Linked(p) \o <<>>)
      /\ \A u \in Thread : u # main(p) => todo'[u] = todo[u]
  BY <1>1, Change
<1>4. todo'[rx(p)] = todo[rx(p)] /\ todo'[main(o)] = todo[main(o)] /\ todo'[rx(o)] = todo[rx(o)]
  BY <1>1, <1>3
<1>5. /\ todo[main(p)] # <<>> /\ Head(todo[main(p)]) = OnChanged(Switch(p))
      /\ todo'[main(p)] # <<>> /\ Head(todo'[main(p)]) = Send("switch")
  BY <1>2, <1>3, First
<1>6. MainAsItWas(p)
  BY <1>2, <1>5 DEF MainAsItWas, TellsIn, SetsIn
<1>7. MainAsItWas(o) /\ RxAsItWas(p) /\ RxAsItWas(o)
  BY <1>4 DEF MainAsItWas, RxAsItWas
<1>8. AirAsItWas(p) /\ AirAsItWas(o)
  BY SameAir
<1>9. \A q, r \in {p, o} : Leads(q, r) => Leads(q, r)'
  BY <1>1, <1>6, <1>7, <1>8, LeadsOn
<1>10. Leads(robot, controller)' \/ Leads(controller, robot)'
  BY <1>1, <1>9 DEF Agreeing
<1>11. tx_buffer'[p] = ValueFrame("switch", value[Switch(p)]) /\ tx_buffer'[o] = tx_buffer[o]
  BY <1>1
<1>12. Buffered(p)' /\ Buffered(o)'
  <2>1. Buffered(o)
    BY <1>1 DEF Agreeing
  <2> QED
    BY <2>1, <1>4, <1>11 DEF Buffered
<1> QED
  BY <1>1, <1>10, <1>12 DEF Agreeing

LEMMA IdleRx ==
  ASSUME Orderly, NEW p \in Peer, todo[rx(p)] = <<>>
  PROVE  receiving[p]["switch"] = FALSE
<1> SUFFICES ASSUME receiving[p]["switch"] PROVE FALSE
  <2>1. receiving[p]["switch"] \in BOOLEAN
    BY WiringAssumption DEF Orderly, Typed
  <2> QED
    BY <2>1
<1>1. AtWork(p, <<>>, <<Stop>>)
  BY DEF Orderly, AtRx, OnRx
<1>2. <<Stop>> # <<>> /\ <<Stop>> \in Seq(ACall) /\ Linked(p) \o <<Stop>> \in Seq(ACall)
  BY Kinds, Single, LinkedElsewhere
<1>3. \A c \in ACall : <<>> # <<c>> \o <<Stop>> /\ <<>> # <<c>> \o (Linked(p) \o <<Stop>>)
  BY <1>2, First
<1>4. \A v \in BOOLEAN : /\ SetValue(Connection[p], v) \in ACall
                         /\ SetValue(Switch(p), v) \in ACall /\ SetValue(Output, v) \in ACall
  BY Wires, Calls, Places
<1>5. /\ OnChanged(Switch(p)) \in ACall /\ Send("switch") \in ACall
      /\ UpdateOutput \in ACall /\ Relay \in ACall /\ Attach \in ACall
  BY Kinds, SwitchKinds
<1>6. ~AtConnection(p, <<>>, <<Stop>>) /\ ~AtSwitch(p, <<>>, <<Stop>>) /\ ~AtOutput(p, <<>>, <<Stop>>)
  BY <1>3, <1>4, <1>5 DEF AtConnection, AtSwitch, AtOutput
<1> QED
  BY <1>1, <1>2, <1>6 DEF AtWork

(***************************************************************************)
(* What the threads do, call by call.                                      *)
(***************************************************************************)
LEMMA AgreeingService ==
  ASSUME Orderly, Alone, Agreeing, overlapped = FALSE, astray = FALSE, off = {},
         NEW p \in Peer, NEW t \in {rx(p), main(p)}, ServiceStep(p, t),
         Doing(t, "Send") => Arrives(p)
  PROVE  Agreeing'
<1> DEFINE o == OtherEnd[p]
<1>1. o \in Peer /\ o # p /\ rx(p) # main(p)
  BY Wires, WiringAssumption, SspAssumption
<1>2. SUFFICES ASSUME NEW e, e = Ending(p, t), Does(p, t, e) PROVE Agreeing'
  BY StepDoes
<1>3. /\ e \in {<<>>, <<Stop>>, <<RestartTimer>>} /\ e \in Seq(ACall)
      /\ Linked(p) \o e \in Seq(ACall) /\ <<Stop>> # <<RestartTimer>>
      /\ <<Stop>> # <<>> /\ <<RestartTimer>> # <<>>
  BY <1>2, Endings
<1>4. Elsewhere(p, e) /\ Elsewhere(p, Linked(p) \o e) /\ Elsewhere(p, <<>>)
  BY <1>3, ElsewhereEnds, LinkedElsewhere
<1>5. /\ \A c \in {UpdateOutput, CheckTimer, RestartTimer, Stop, Attach, Relay} :
           Elsewhere(p, <<c>> \o e) /\ Elsewhere(p, <<c>>)
      /\ \A n \in {Connection[p], Output} : \A v \in BOOLEAN :
           Elsewhere(p, <<SetValue(n, v)>> \o e) /\ Elsewhere(p, <<SetValue(n, v)>>)
  <2>1. \A c \in {UpdateOutput, CheckTimer, RestartTimer, Stop, Attach, Relay} : <<c>> = <<c>> \o <<>>
    BY Kinds, Single
  <2>2. \A n \in {Connection[p], Output} : \A v \in BOOLEAN : <<SetValue(n, v)>> = <<SetValue(n, v)>> \o <<>>
    BY <1>3, ElsewhereCalls, Single
  <2>3. <<>> \in Seq(ACall)
    OBVIOUS
  <2>4. \A c \in {UpdateOutput, CheckTimer, RestartTimer, Stop, Attach, Relay} :
          Elsewhere(p, <<c>> \o e) /\ Elsewhere(p, <<c>> \o <<>>)
    BY <1>3, <2>3, ElsewhereCalls
  <2>5. \A n \in {Connection[p], Output} : \A v \in BOOLEAN :
          Elsewhere(p, <<SetValue(n, v)>> \o e) /\ Elsewhere(p, <<SetValue(n, v)>> \o <<>>)
    BY <1>3, <2>3, ElsewhereCalls
  <2> QED
    BY <2>1, <2>2, <2>4, <2>5
<1>6. value \in [Node -> BOOLEAN] /\ \A q \in Peer : Switch(q) \in Node
  BY Wires DEF Orderly, Typed
<1>7. ASSUME NEW x, Puts(t, x), Elsewhere(p, todo[t]), Elsewhere(p, x), UNCHANGED <<air, tx_buffer>>,
             \A q \in Peer : value'[Switch(q)] = value[Switch(q)]
      PROVE  Agreeing'
  BY <1>7, NeutralStep, SameAir
<1>8. ASSUME NEW n \in Node, \A q \in Peer : Switch(q) # n, NEW v, value' = [value EXCEPT ![n] = v]
      PROVE  \A q \in Peer : value'[Switch(q)] = value[Switch(q)]
  BY <1>6, <1>8
<1>9. /\ Connection[p] \in Node /\ Output \in Node /\ emc1 \in Node /\ emc2 \in Node
      /\ \A q \in Peer : /\ Switch(q) # Connection[p] /\ Switch(q) # Output
                         /\ Switch(q) # emc1 /\ Switch(q) # emc2
  BY Wires, Places, Apart
<1>10. t = rx(p) \/ e = <<>>
  BY <1>2 DEF Ending
<1>11. CASE SetsConnection(p, t, e)
  <2>1. PICK v \in BOOLEAN :
          /\ todo[t] = <<SetValue(Connection[p], v)>> \o e
          /\ value' = [value EXCEPT ![Connection[p]] = v]
          /\ Puts(t, IF p = robot /\ v # value[Connection[p]] THEN <<Attach>> \o e ELSE e)
    BY <1>11 DEF SetsConnection
  <2>2. \E x : Puts(t, x) /\ Elsewhere(p, x)
    <3>1. Puts(t, <<Attach>> \o e) \/ Puts(t, e)
      BY <2>1
    <3> QED
      BY <3>1, <1>4, <1>5
  <2>3. UNCHANGED <<air, tx_buffer>>
    BY <1>11 DEF SetsConnection, sspVars
  <2>4. \A q \in Peer : value'[Switch(q)] = value[Switch(q)]
    BY <2>1, <1>8, <1>9
  <2> QED
    BY <2>1, <2>2, <2>3, <2>4, <1>5, <1>7
<1>12. CASE SetsSwitch(p, t, e)
  <2>1. /\ e # <<RestartTimer>> /\ UNCHANGED <<air, tx_buffer>>
        /\ \E v \in BOOLEAN :
             /\ todo[t] = <<SetValue(Switch(p), v)>> \o e
             /\ value' = [value EXCEPT ![Switch(p)] = v]
             /\ Puts(t, IF v # value[Switch(p)]
                        THEN <<OnChanged(Switch(p))>> \o (Linked(p) \o e) ELSE e)
    BY <1>12 DEF SetsSwitch, sspVars
  <2>2. CASE t = main(p)
    <3>1. e = <<>>
      BY <1>1, <1>10, <2>2
    <3> QED
      BY <2>1, <2>2, <3>1, <1>1, MainSets
  <2>3. CASE t = rx(p)
    <3>1. e = <<Stop>>
      BY <1>1, <1>2, <2>1, <2>3 DEF Ending
    <3>2. todo[main(p)] = <<>>
      <4>1. todo[t] # <<>>
        BY BusyStep
      <4> QED
        BY <4>1, <2>3 DEF Alone
    <3> QED
      BY <2>1, <2>3, <3>1, <3>2, <1>1, RxSets
  <2> QED
    BY <2>2, <2>3
<1>13. CASE t = rx(p) /\ (Writes(p, t, e) \/ Sends(p, t, e))
  <2>1. todo[main(p)] = <<>>
    <3>1. todo[t] # <<>>
      BY BusyStep
    <3> QED
      BY <3>1, <1>13 DEF Alone
  <2>2. /\ e = <<Stop>> /\ receiving[p]["switch"]
    BY <1>1, <1>2, <1>13 DEF Writes, Sends, Ending
  <2>3. UNCHANGED <<value, air>> /\ \A q \in Peer : q # p => tx_buffer'[q] = tx_buffer[q]
    <3>1. tx_buffer \in [Peer -> SwitchFrames]
      BY DEF Orderly, Typed
    <3> QED
      BY <3>1, <1>13, <2>2 DEF Writes, Sends
  <2>4. \A v \in BOOLEAN : ~SetsIn(p, todo[t], v)
    <3>1. /\ OnChanged(Switch(p)) \in ACall /\ Send("switch") \in ACall
          /\ \A v \in BOOLEAN : SetValue(Switch(p), v) \notin {OnChanged(Switch(p)), Send("switch")}
      BY SwitchKinds
    <3>2. Head(todo[t]) \in {OnChanged(Switch(p)), Send("switch")}
      BY <3>1, <1>3, <1>13, First DEF Writes, Sends
    <3> QED
      BY <3>1, <3>2 DEF SetsIn
  <2>5. \E x : Puts(t, x) /\ \A v \in BOOLEAN : ~SetsIn(p, x, v)
    <3>1. CASE Writes(p, t, e)
      <4>1. Head(<<Send("switch")>> \o (Linked(p) \o e)) = Send("switch")
        BY <1>3, SwitchKinds, First
      <4>2. \A v \in BOOLEAN : ~SetsIn(p, <<Send("switch")>> \o (Linked(p) \o e), v)
        BY <4>1, SwitchKinds DEF SetsIn
      <4> QED
        BY <3>1, <4>2 DEF Writes
    <3>2. CASE Sends(p, t, e)
      BY <3>2, <1>4 DEF Sends, Elsewhere
    <3> QED
      BY <3>1, <3>2, <1>13
  <2>6. \A q \in Peer : /\ MainAsItWas(q) /\ RxAsItWas(q)
                        /\ SendsIn(todo'[main(q)]) => SendsIn(todo[main(q)])
    BY <2>4, <2>5, <1>1, <1>13, ListsOn
  <2>7. ~SendsIn(todo[main(p)])
    BY <2>1 DEF SendsIn
  <2>8. \A q \in Peer : /\ MainAsItWas(q) /\ RxAsItWas(q) /\ AirAsItWas(q)
                        /\ value'[Switch(q)] = value[Switch(q)]
                        /\ SendsIn(todo'[main(q)]) => SendsIn(todo[main(q)]) /\ tx_buffer'[q] = tx_buffer[q]
    BY <2>3, <2>6, <2>7, SameAir
  <2> QED
    BY <2>8, AgreeingOn
<1>14. CASE t = main(p) /\ Writes(p, t, e)
  BY <1>1, <1>10, <1>14, MainWrites DEF Writes
<1>15. CASE t = main(p) /\ Sends(p, t, e)
  <2>1. e = <<>> /\ todo[t] = <<Send("switch")>> \o (Linked(p) \o e)
    BY <1>1, <1>10, <1>15 DEF Sends
  <2>2. todo[t] # <<>> /\ Head(todo[t]) = Send("switch")
    BY <2>1, <1>3, SwitchKinds, First
  <2>3. Arrives(p)
    <3>1. Doing(t, "Send")
      BY <2>2, Kinds DEF Doing
    <3> QED
      BY <3>1
  <2>4. todo[rx(p)] = <<>>
    BY <2>2, <1>15 DEF Alone
  <2>5. receiving[p]["switch"] = FALSE
    BY <2>4, IdleRx
  <2>6. Transmit(p, tx_buffer[p]) /\ UNCHANGED <<value, tx_buffer>> /\ Puts(t, Linked(p) \o e)
    BY <2>5, <1>15 DEF Sends
  <2> QED
    BY <2>1, <2>3, <2>4, <2>6, <1>1, <1>15, MainSends
<1>16. CASE Stops(p, t, e) \/ Restarts(p, t, e)
  BY <1>4, <1>5, <1>7, <1>16 DEF Stops, Restarts
<1>17. CASE Checks(p, t, e)
  BY <1>4, <1>5, <1>7, <1>17 DEF Checks, sspVars
<1>18. ASSUME NEW n, NEW m \in {emc1, emc2}, FollowsLink(n, m, t, e), Link(n, m) \in {Attach, Relay}
       PROVE  Agreeing'
  <2>1. /\ todo[t] = <<Link(n, m)>> \o e /\ value' = [value EXCEPT ![m] = value[n]]
        /\ Puts(t, <<UpdateOutput>> \o e) \/ Puts(t, e)
        /\ UNCHANGED <<air, tx_buffer>>
    BY <1>18 DEF FollowsLink, sspVars
  <2>2. Elsewhere(p, <<Link(n, m)>> \o e)
    BY <1>18, <1>5
  <2>3. \A q \in Peer : value'[Switch(q)] = value[Switch(q)]
    BY <2>1, <1>8, <1>9
  <2> QED
    BY <2>1, <2>2, <2>3, <1>4, <1>5, <1>7
<1>19. CASE UpdatesOutput(t, e)
  <2>1. value[emc1] \in BOOLEAN /\ value[emc2] \in BOOLEAN
    BY <1>6, <1>9
  <2>2. Elsewhere(p, <<SetValue(Output, value[emc1] /\ value[emc2])>> \o e)
    <3>1. (value[emc1] /\ value[emc2]) \in BOOLEAN
      BY <2>1
    <3> QED
      BY <3>1, <1>5
  <2>3. /\ todo[t] = <<UpdateOutput>> \o e
        /\ Puts(t, <<SetValue(Output, value[emc1] /\ value[emc2])>> \o e)
        /\ UNCHANGED <<value, air, tx_buffer>>
    BY <1>19 DEF UpdatesOutput, sspVars
  <2> QED
    BY <2>2, <2>3, <1>5, <1>7
<1>20. CASE SetsOutput(t, e)
  <2>1. PICK v \in BOOLEAN : todo[t] = <<SetValue(Output, v)>> \o e /\ value' = [value EXCEPT ![Output] = v]
    BY <1>20 DEF SetsOutput
  <2>2. Puts(t, e) /\ UNCHANGED <<air, tx_buffer>>
    BY <1>20 DEF SetsOutput, sspVars
  <2>3. \A q \in Peer : value'[Switch(q)] = value[Switch(q)]
    BY <2>1, <1>8, <1>9
  <2> QED
    BY <2>1, <2>2, <2>3, <1>4, <1>5, <1>7
<1>21. CASE p = robot /\ RobotDoes(t, e)
  BY <1>18, <1>19, <1>20, <1>21 DEF RobotDoes, Attach, Relay
<1> QED
  BY <1>2, <1>11, <1>12, <1>13, <1>14, <1>15, <1>16, <1>17, <1>21 DEF Does

LEMMA AstrayStep == Orderly /\ Astray /\ [Next]_vars => Astray'
<1> SUFFICES ASSUME Orderly, Astray, [Next]_vars PROVE Astray'
  OBVIOUS
<1>1. overlapped \in BOOLEAN /\ astray \in BOOLEAN
  BY DEF Orderly, Typed
<1> USE <1>1 DEF Astray
<1>2. ASSUME NEW p \in Peer, NEW v \in BOOLEAN, Throw(p, v) PROVE Astray'
  BY <1>2 DEF Throw
<1>3. CASE CallUpdate \/ CallSendKeepAlive
  BY <1>3 DEF CallUpdate, CallSendKeepAlive
<1>4. ASSUME NEW p \in Peer, ReceiveFrame(p) \/ Lose(p) PROVE Astray'
  BY <1>4 DEF ReceiveFrame, Lose
<1>5. CASE SwitchOff
  BY <1>5 DEF SwitchOff, history
<1>6. ASSUME NEW p \in Peer, NEW t \in {rx(p), main(p)}, Step(p, t) PROVE Astray'
  BY <1>6 DEF Step
<1>7. CASE UNCHANGED vars
  BY <1>7 DEF vars, history
<1> QED
  BY <1>2, <1>3, <1>4, <1>5, <1>6, <1>7 DEF Next

LEMMA QuietStep == Orderly /\ Quiet /\ [Next]_vars => Quiet'
<1> SUFFICES ASSUME Orderly, Quiet, [Next]_vars PROVE Quiet'
  OBVIOUS
<1>1. CASE UNCHANGED value
  BY <1>1 DEF Quiet
<1>2. ASSUME NEW p \in Peer, NEW t \in {rx(p), main(p)}, Step(p, t) PROVE Quiet'
  <2>1. PICK e : Does(p, t, e)
    BY <1>2, StepDoes DEF Step
  <2> DEFINE own == {Connection[p], Switch(p), emc1, emc2, Output}
  <2>2. value \in [Node -> BOOLEAN]
    BY DEF Orderly, Typed
  <2>3. \A n \in Node \ own : value'[n] = value[n]
    BY <2>1, <2>2 DEF Does, SetsConnection, SetsSwitch, Writes, Sends, Stops, Checks, Restarts,
                      RobotDoes, FollowsLink, UpdatesOutput, SetsOutput
  <2>4. \A q \in Peer : \A id \in Id : id # "switch" => NodeOf[q][id] \in Node \ own
    <3>1. \A q \in Peer : \A id \in Id : NodeOf[q][id] \in Node
      BY SspAssumption
    <3>2. \A q \in Peer : \A id \in Id :
            id # "switch" => NodeOf[q][id] \in Shared /\ NodeOf[q][id] # Switch(p)
      BY Apart
    <3>3. Connection[p] \notin Shared /\ emc1 \notin Shared /\ emc2 \notin Shared /\ Output \notin Shared
      BY Apart
    <3> QED
      BY <3>1, <3>2, <3>3
  <2> QED
    BY <2>3, <2>4 DEF Quiet
<1>3. UNCHANGED value \/ \E p \in Peer : Step(p, rx(p)) \/ Step(p, main(p))
  <2>1. ASSUME NEW p \in Peer, NEW v \in BOOLEAN, Throw(p, v) PROVE UNCHANGED value
    BY <2>1 DEF Throw
  <2>2. ASSUME CallUpdate \/ CallSendKeepAlive PROVE UNCHANGED value
    BY <2>2 DEF CallUpdate, CallSendKeepAlive, Update, SendKeepAliveTo
  <2>3. ASSUME NEW p \in Peer, ReceiveFrame(p) \/ Lose(p) PROVE UNCHANGED value
    BY <2>3 DEF ReceiveFrame, Receive, Lose
  <2>4. ASSUME SwitchOff PROVE UNCHANGED value
    BY <2>4 DEF SwitchOff
  <2>5. ASSUME UNCHANGED vars PROVE UNCHANGED value
    BY <2>5 DEF vars
  <2> QED
    BY <2>1, <2>2, <2>3, <2>4, <2>5 DEF Next
<1> QED
  BY <1>1, <1>2, <1>3

LEMMA AgreeingStep == Orderly /\ Alone /\ Astray /\ Agreeing /\ [Next]_vars => Agreeing'
<1> SUFFICES ASSUME Orderly, Alone, Astray, Agreeing, [Next]_vars PROVE Agreeing'
  OBVIOUS
<1> DEFINE straight == astray' = FALSE /\ off' = {}
<1>1. /\ astray \in BOOLEAN /\ overlapped \in BOOLEAN
      /\ astray' \in BOOLEAN /\ overlapped' \in BOOLEAN
  <2>1. Orderly'
    BY OrderlyStep
  <2> QED
    BY <2>1 DEF Orderly, Typed
<1>2. \A p \in Peer : /\ rx(p) # main(p) /\ rx(p) \in Thread /\ main(p) \in Thread
                      /\ OtherEnd[p] \in Peer /\ OtherEnd[p] # p
                      /\ air[p] \in Seq(Frames) /\ Switch(p) \in Node
  BY Wires, WiringAssumption, SspAssumption DEF Orderly, Typed
<1>3. overlapped = TRUE => astray = TRUE
  BY <1>1 DEF Astray
<1>4. ASSUME UNCHANGED <<value, todo, tx_buffer>>, astray = FALSE, off = {},
             \A p \in Peer : AirAsItWas(p)
      PROVE  Agreeing'
  BY <1>4, AgreeingOn DEF MainAsItWas, RxAsItWas
<1>5. ASSUME NEW p, NEW u, Begins(p, u), astray' = (astray \/ overlapped'), straight
      PROVE  astray = FALSE /\ overlapped = FALSE /\ todo[u] = <<>>
  <2>1. overlapped' = (overlapped \/ todo[u] # <<>>)
    BY <1>5 DEF Begins
  <2>2. astray = FALSE /\ overlapped' = FALSE
    BY <1>1, <1>5
  <2> QED
    BY <1>1, <2>1, <2>2
<1>6. ASSUME NEW p \in Peer, NEW v \in BOOLEAN, Throw(p, v), straight PROVE Agreeing'
  <2> DEFINE o == OtherEnd[p]
  <2>1. /\ todo[main(p)] = <<>> /\ Puts(main(p), <<SetValue(Switch(p), v)>>)
        /\ UNCHANGED <<value, air, tx_buffer, off>> /\ Begins(p, rx(p))
    BY <1>6 DEF Throw, Puts, sspVars
  <2>2. astray' = (astray \/ overlapped' \/ SwitchOnItsWay(p) \/ todo[main(o)] # <<>>)
    BY <1>6 DEF Throw
  <2>3. astray = FALSE /\ overlapped' = FALSE /\ ~SwitchOnItsWay(p) /\ todo[main(o)] = <<>>
    BY <2>2, <1>1, <1>6
  <2>4. todo[rx(p)] = <<>>
    <3>1. overlapped' = (overlapped \/ todo[rx(p)] # <<>>)
      BY <2>1 DEF Begins
    <3> QED
      BY <3>1, <2>3
  <2>5. ~Carries(air[p]) /\ off = {}
    BY <2>1, <2>3, <1>2, <1>6, CarriesSwitch
  <2> QED
    BY <2>1, <2>3, <2>4, <2>5, <1>2, Thrown
<1>7. ASSUME CallUpdate, straight PROVE Agreeing'
  <2>1. /\ Update(robot, main(robot)) /\ Begins(robot, rx(robot))
        /\ astray' = (astray \/ overlapped')
    BY <1>7 DEF CallUpdate
  <2>2. /\ todo[main(robot)] = <<>> /\ Puts(main(robot), <<CheckTimer>>)
        /\ UNCHANGED <<value, air, tx_buffer, off>>
    BY <2>1 DEF Update, Puts
  <2>3. astray = FALSE /\ off = {} /\ robot \in Peer
    BY <2>1, <2>2, <1>5, <1>7, Wires
  <2>4. Elsewhere(robot, <<>>) /\ Elsewhere(robot, <<CheckTimer>>)
    <3>1. <<CheckTimer>> = <<CheckTimer>> \o <<>> /\ <<>> \in Seq(ACall)
      BY Kinds, Single
    <3> QED
      BY <2>3, <3>1, ElsewhereCalls
  <2>5. \A q \in Peer : AirAsItWas(q)
    BY <2>2, SameAir
  <2> QED
    BY <2>2, <2>3, <2>4, <2>5, NeutralStep
<1>8. ASSUME CallSendKeepAlive, straight PROVE Agreeing'
  <2>1. /\ SendKeepAliveTo(controller, main(controller)) /\ Begins(controller, rx(controller))
        /\ astray' = (astray \/ overlapped')
    BY <1>8 DEF CallSendKeepAlive
  <2>2. Transmit(controller, KeepAliveFrame) /\ UNCHANGED <<value, todo, tx_buffer, off>>
    BY <2>1 DEF SendKeepAliveTo
  <2>3. astray = FALSE /\ off = {}
    BY <2>1, <2>2, <1>5, <1>8
  <2>4. Typed /\ controller \in Peer /\ KeepAliveFrame \in Frames
    BY Wires, FrameKinds DEF Orderly
  <2>5. \A q \in Peer : air'[q] = air[q] \/ air'[q] = Append(air[q], KeepAliveFrame)
    BY <2>2, <2>4, Transmitting
  <2>6. ASSUME NEW q \in Peer PROVE AirAsItWas(q)
    <3>1. CASE air'[q] = air[q]
      BY <3>1, SameAir
    <3>2. CASE air'[q] = Append(air[q], KeepAliveFrame)
      <4>1. /\ Carries(Append(air[q], KeepAliveFrame)) <=> Carries(air[q])
            /\ \A v \in BOOLEAN : Says(air[q], v) => Says(Append(air[q], KeepAliveFrame), v)
        BY <1>2, AppendKeepAlive
      <4> QED
        BY <3>2, <4>1 DEF AirAsItWas
    <3> QED
      BY <2>5, <3>1, <3>2
  <2> QED
    BY <2>2, <2>3, <2>6, <1>4
<1>9. ASSUME NEW p \in Peer, ReceiveFrame(p), straight PROVE Agreeing'
  <2>1. /\ Receive(p, rx(p)) /\ Begins(p, main(p)) /\ astray' = (astray \/ overlapped')
    BY <1>9 DEF ReceiveFrame
  <2>2. /\ todo[rx(p)] = <<>> /\ air[p] # <<>> /\ air' = [air EXCEPT ![p] = Tail(@)]
        /\ UNCHANGED <<value, tx_buffer, off>>
    BY <2>1 DEF Receive
  <2>3. astray = FALSE /\ off = {} /\ todo[main(p)] = <<>>
    BY <2>1, <2>2, <1>5, <1>9
  <2>4. CASE /\ Head(air[p]) = KeepAliveFrame
             /\ Puts(rx(p), <<SetValue(Connection[p], TRUE)>> \o <<RestartTimer>>)
    <3>1. Elsewhere(p, <<>>) /\ Elsewhere(p, <<SetValue(Connection[p], TRUE)>> \o <<RestartTimer>>)
      <4>1. <<RestartTimer>> \in Seq(ACall)
        BY Kinds, Single
      <4> QED
        BY <4>1, ElsewhereCalls
    <3>2. air \in [Peer -> Seq(Frames)]
      BY DEF Orderly, Typed
    <3>3. \A q \in Peer : air'[q] = IF q = p THEN Tail(air[p]) ELSE air[q]
      BY <2>2, <3>2
    <3>4. AirAsItWas(p)
      BY <2>2, <2>4, <3>3, <1>2, TakeFirst DEF AirAsItWas
    <3>5. \A q \in Peer : AirAsItWas(q)
      BY <3>3, <3>4, SameAir
    <3> QED
      BY <2>2, <2>3, <2>4, <3>1, <3>5, NeutralStep
  <2>5. CASE \E v \in BOOLEAN :
               /\ Head(air[p]) = ValueFrame("switch", v)
               /\ Puts(rx(p), <<SetValue(Switch(p), v)>> \o <<Stop>>)
    BY <2>2, <2>3, <2>5, <1>2, SwitchReceived
  <2> QED
    BY <2>1, <2>4, <2>5, ReceiveLists
<1>10. ASSUME NEW p \in Peer, Lose(p) PROVE ~straight
  BY <1>10 DEF Lose
<1>11. ASSUME SwitchOff PROVE ~straight
  BY <1>11 DEF SwitchOff
<1>12. ASSUME NEW p \in Peer, NEW t \in {rx(p), main(p)}, Step(p, t), straight PROVE Agreeing'
  <2>1. /\ ServiceStep(p, t) /\ overlapped' = overlapped
        /\ astray' = (astray \/ (Doing(t, "Send") /\ ~Arrives(p)))
    BY <1>12 DEF Step
  <2>2. astray = FALSE /\ (Doing(t, "Send") => Arrives(p))
    BY <2>1, <1>1, <1>12
  <2>3. overlapped = FALSE
    BY <2>2, <1>1, <1>3
  <2>4. off = {}
    BY <2>1, <1>12, ServiceTyped
  <2> QED
    BY <2>1, <2>2, <2>3, <2>4, AgreeingService
<1>13. ASSUME UNCHANGED vars, straight PROVE Agreeing'
  BY <1>13 DEF vars, sspVars, history, Agreeing, Leads, Passive, Learns, Buffered
<1>14. straight => Agreeing'
  BY <1>6, <1>7, <1>8, <1>9, <1>10, <1>11, <1>12, <1>13 DEF Next
<1>15. ~straight => Agreeing'
  BY <1>1 DEF Agreeing
<1> QED
  BY <1>14, <1>15

(***************************************************************************)
(* Both ends of the value store agree when nothing is on its way, if both  *)
(* are on, no frame was lost, the switch was not thrown at both ends at    *)
(* once, and no thread ran into another one.                               *)
(***************************************************************************)
THEOREM EndsAgree == Spec => []StoresAgree
<1> DEFINE IInv == Orderly /\ Alone /\ Astray /\ Agreeing /\ Quiet
<1>1. Init => IInv
  <2> SUFFICES ASSUME Init PROVE IInv
    OBVIOUS
  <2>1. Orderly /\ Alone
    BY Begin
  <2>2. Astray
    BY DEF Init, Astray
  <2>3. Quiet
    <3>1. \A q \in Peer : \A id \in Id : NodeOf[q][id] \in Node
      BY SspAssumption
    <3> QED
      BY <3>1 DEF Init, Quiet
  <2>4. Agreeing
    <3>1. /\ robot \in Peer /\ controller \in Peer /\ Switch(robot) \in Node /\ Switch(controller) \in Node
          /\ rx(robot) \in Thread /\ rx(controller) \in Thread /\ main(controller) \in Thread
          /\ main(robot) \in Thread /\ main(robot) \notin {rx(robot), rx(controller), main(controller)}
      BY Wires
    <3>2. /\ todo[rx(robot)] = <<>> /\ todo[rx(controller)] = <<>> /\ todo[main(controller)] = <<>>
          /\ air[robot] = <<>> /\ air[controller] = <<>>
          /\ value[Switch(robot)] = FALSE /\ value[Switch(controller)] = FALSE
      BY <3>1 DEF Init
    <3>3. todo[main(robot)] = <<SetValue(Output, TRUE)>>
      BY <3>1 DEF Init
    <3>4. Elsewhere(robot, todo[main(robot)])
      <4>1. SetValue(Output, TRUE) \in ACall
        BY Places, Calls
      <4>2. <<SetValue(Output, TRUE)>> = <<SetValue(Output, TRUE)>> \o <<>> /\ <<>> \in Seq(ACall)
        BY <4>1, Single
      <4>3. Elsewhere(robot, <<SetValue(Output, TRUE)>> \o <<>>)
        BY <3>1, <4>2, ElsewhereCalls
      <4> QED
        BY <3>3, <4>2, <4>3
    <3>5. ~Carries(air[robot]) /\ ~Carries(air[controller])
      <4>1. Len(<<>>) = 0
        OBVIOUS
      <4> QED
        BY <3>2, <4>1 DEF Carries
    <3>6. Passive(robot, controller)
      BY <3>2, <3>4, <3>5 DEF Passive, Elsewhere, SetsIn
    <3>7. Learns(robot, value[Switch(controller)])
      BY <3>2, <3>5 DEF Learns, SetsIn
    <3>8. Buffered(robot) /\ Buffered(controller)
      BY <3>2, <3>4 DEF Buffered, Elsewhere, SendsIn
    <3> QED
      BY <3>6, <3>7, <3>8 DEF Leads, Agreeing
  <2> QED
    BY <2>1, <2>2, <2>3, <2>4
<1>2. IInv /\ [Next]_vars => IInv'
  BY OrderlyStep, AloneStep, AstrayStep, AgreeingStep, QuietStep
<1>3. IInv => StoresAgree
  <2> SUFFICES ASSUME IInv, \A p \in Peer : AtRest(p) /\ air[p] = <<>>, ~astray, off = {},
                      NEW id \in Id
               PROVE  value[NodeOf[robot][id]] = value[NodeOf[controller][id]]
    BY DEF StoresAgree
  <2>1. robot \in Peer /\ controller \in Peer
    BY Wires
  <2>2. CASE id # "switch"
    BY <2>1, <2>2 DEF Quiet
  <2>3. CASE id = "switch"
    <3>1. /\ \A p \in Peer : /\ value[Switch(p)] \in BOOLEAN /\ air[p] = <<>> /\ <<>> \in Seq(Frames)
                             /\ todo[main(p)] = <<>> /\ todo[rx(p)] = <<>>
      BY Wires DEF Orderly, Typed, AtRest
    <3>2. Leads(robot, controller) \/ Leads(controller, robot)
      BY DEF Agreeing
    <3>3. ASSUME NEW p \in Peer, NEW o \in Peer, Leads(p, o) PROVE value[Switch(o)] = value[Switch(p)]
      <4>1. Learns(o, value[Switch(p)])
        BY <3>1, <3>3 DEF Leads, TellsIn
      <4>2. ~Says(air[o], value[Switch(p)])
        <5>1. Len(<<>>) = 0
          OBVIOUS
        <5> QED
          BY <3>1, <5>1 DEF Says
      <4> QED
        BY <3>1, <4>1, <4>2 DEF Learns, SetsIn
    <3>4. value[Switch(robot)] = value[Switch(controller)]
      BY <2>1, <3>2, <3>3
    <3> QED
      BY <2>3, <3>4 DEF Switch
  <2> QED
    BY <2>2, <2>3
<1> QED
  BY <1>1, <1>2, <1>3, PTL DEF Spec
=============================================================================
