----------------------------- MODULE RemoteStop -----------------------------
(***************************************************************************)
(* A robot that stops when its controller says so or is gone: NodeGraph    *)
(* and SspServices put together the way the library means them to be used. *)
(*                                                                         *)
(* connection_available and a switch are linked to the two nodes of the    *)
(* robot's EMC.  The switch is kept in a value store at both ends, so that *)
(* either may throw it.  Each program has a receive thread and a main      *)
(* thread; the robot's calls KeepAliveService::Update at equal intervals.  *)
(***************************************************************************)
EXTENDS SspServices

CONSTANTS robot, controller,
          Preemptive,  \* bound: programs whose calls take time; the others finish
                       \* a call before anything else happens
          MaxWrites    \* bound: how often the two programs throw the switch

Switch(p) == NodeOf[p]["switch"]

(***************************************************************************)
(* The nodes are all different ones, and the robot's graph is              *)
(* connection >> emc1, switch >> emc2.                                     *)
(***************************************************************************)
ASSUME WiringAssumption ==
  /\ robot # controller /\ Peer = {robot, controller} /\ \A p \in Peer : OtherEnd[p] # p
  /\ Thread = Peer \X {"rx", "main"}
  /\ "switch" \in Id /\ Shared = {NodeOf[p][id] : p \in Peer, id \in Id}
  /\ \A p, q \in Peer : \A id, jd \in Id : NodeOf[p][id] = NodeOf[q][jd] => p = q /\ id = jd
  /\ \A p, q \in Peer : Connection[p] = Connection[q] => p = q
  /\ \A p \in Peer : Connection[p] \notin Shared \cup Place \cup {Output}
  /\ Output \notin Shared \cup Place /\ Place \cap Shared = {}
  /\ Len(EmcInputs) = 2 /\ EmcInputs[1] # EmcInputs[2]
  /\ Links = [n \in Node |-> CASE n = Connection[robot] -> <<EmcInputs[1]>>
                              [] n = Switch(robot)     -> <<EmcInputs[2]>>
                              [] OTHER                 -> <<>>]
  /\ MaxWrites \in Nat

VARIABLES
  writes,
  moved,       \* a node of the EMC has changed (history)
  overlapped,  \* both threads of a program were in the graph at once (history)
  astray       \* they were, or a frame was lost, or the switch was thrown at
               \* both ends at once (history)

history == <<writes, moved, overlapped, astray>>
vars == <<value, todo, sspVars, history>>

rx(p) == <<p, "rx">>
main(p) == <<p, "main">>

\* EMC::Init has been called, and output.SetValue(true) is about to be.
Init ==
  /\ value = [n \in Node |-> FALSE]
  /\ todo = [t \in Thread |-> IF t = main(robot) THEN <<SetValue(Output, TRUE)>> ELSE <<>>]
  /\ connection_lost_timer = [p \in Peer |-> 0]
  /\ receiving = [p \in Peer |-> [id \in Id |-> FALSE]]
  /\ tx_buffer = [p \in Peer |-> ValueFrame("switch", FALSE)]
  /\ air = [p \in Peer |-> <<>>] /\ off = {}
  /\ writes = 0 /\ moved = FALSE /\ overlapped = FALSE /\ astray = FALSE

AtRest(p) == todo[rx(p)] = <<>> /\ todo[main(p)] = <<>>

Calm == \A p \in Peer \ Preemptive : AtRest(p)

\* One of p's threads begins something, whatever the other one, u, is at.
Begins(p, u) ==
  /\ p \notin off /\ Calm
  /\ overlapped' = (overlapped \/ todo[u] # <<>>)
  /\ UNCHANGED moved

SwitchOnItsWay(p) == \E i \in DOMAIN air[p] : air[p][i].service = "value_store"

\* The main thread of p throws the switch.
Throw(p, v) ==
  /\ writes < MaxWrites /\ writes' = writes + 1
  /\ todo[main(p)] = <<>> /\ Begins(p, rx(p))
  /\ todo' = [todo EXCEPT ![main(p)] = <<SetValue(Switch(p), v)>>]
  /\ astray' = (astray \/ overlapped' \/ SwitchOnItsWay(p) \/ todo[main(OtherEnd[p])] # <<>>)
  /\ UNCHANGED <<value, sspVars>>

CallUpdate ==
  /\ Begins(robot, rx(robot)) /\ Update(robot, main(robot))
  /\ astray' = (astray \/ overlapped')
  /\ UNCHANGED writes

CallSendKeepAlive ==
  /\ Begins(controller, rx(controller))
  /\ SendKeepAliveTo(controller, main(controller))
  /\ astray' = (astray \/ overlapped')
  /\ UNCHANGED writes

ReceiveFrame(p) ==
  /\ Begins(p, main(p)) /\ Receive(p, rx(p))
  /\ astray' = (astray \/ overlapped')
  /\ UNCHANGED writes

Step(p, t) ==
  /\ p \notin off /\ (p \in Preemptive => Calm)
  /\ ServiceStep(p, t)
  /\ moved' = (moved \/ \E n \in Place : value'[n] # value[n])
  /\ astray' = (astray \/ (Doing(t, "Send") /\ ~Arrives(p)))
  /\ UNCHANGED <<writes, overlapped>>

-----------------------------------------------------------------------------
(* The radio, and the controller's main switch.                            *)

Lose(p) ==
  /\ Calm /\ air[p] # <<>> /\ astray' = TRUE
  /\ air' = [air EXCEPT ![p] = Tail(@)]
  /\ UNCHANGED <<value, todo, connection_lost_timer, receiving, tx_buffer, off,
                 writes, moved, overlapped>>

SwitchOff ==
  /\ Calm /\ off = {} /\ off' = {controller}
  /\ air' = [air EXCEPT ![controller] = <<>>]
  /\ UNCHANGED <<value, todo, connection_lost_timer, receiving, tx_buffer, history>>

Next ==
  \/ \E p \in Peer : \/ \E v \in BOOLEAN : Throw(p, v)
                     \/ ReceiveFrame(p) \/ Lose(p)
                     \/ Step(p, rx(p)) \/ Step(p, main(p))
  \/ CallUpdate \/ CallSendKeepAlive \/ SwitchOff

Spec == Init /\ [][Next]_vars

\* Threads run, Update is called again and again, and what arrives is received.
FairSpec ==
  /\ Spec
  /\ WF_vars(CallUpdate)
  /\ \A p \in Peer : /\ WF_vars(ReceiveFrame(p))
                     /\ WF_vars(Step(p, rx(p))) /\ WF_vars(Step(p, main(p)))

-----------------------------------------------------------------------------
ACall ==
  [do : {"SetValue"}, node : Node, v : BOOLEAN]
    \cup [do : {"Link"}, node : Node, input : Node]
    \cup [do : {"OnChanged"}, node : Node] \cup [do : {"Send", "EndOfReceive"}, id : Id]
    \cup [do : {"UpdateOutput", "CheckTimer", "RestartTimer"}]

\* Every variable has its type.
TypeOK ==
  /\ value \in [Node -> BOOLEAN]
  /\ \A t \in Thread : todo[t] \in Seq(ACall)
  /\ connection_lost_timer \in [Peer -> -1..LostTime]
  /\ receiving \in [Peer -> [Id -> BOOLEAN]] /\ tx_buffer \in [Peer -> Frame]
  /\ \A p \in Peer : air[p] \in Seq(Frame) /\ Len(air[p]) <= MaxInFlight
  /\ off \subseteq Peer /\ writes \in 0..MaxWrites
  /\ moved \in BOOLEAN /\ overlapped \in BOOLEAN /\ astray \in BOOLEAN

(***************************************************************************)
(* The robot's output is on exactly when the controller is connected and   *)
(* the switch allows it, once one of the places has changed and as long as *)
(* the two threads never were in the graph at the same time: an            *)
(* UpdateOutput that has read the places may otherwise write what they no  *)
(* longer say.                                                             *)
(***************************************************************************)
OutputFollows ==
  AtRest(robot) /\ ~overlapped /\ moved
    => value[Output] = (value[Connection[robot]] /\ value[Switch(robot)])

\* What thread t is about to tell a place of the EMC, through the node linked to it.
TellsToCut(t) ==
  /\ Doing(t, "SetValue") /\ ~Head(todo[t]).v
  /\ ToSet(Links[Head(todo[t]).node]) \cap Place # {}

(***************************************************************************)
(* The EMC can be cut from several places (libs/README.md:25): wherever it *)
(* is told to, the output goes off.                                        *)
(***************************************************************************)
CutsFromAnywhere == \A t \in Thread : TellsToCut(t) ~> ~value[Output]

(***************************************************************************)
(* Both ends of the value store agree when nothing is on its way, if both  *)
(* are on, no frame was lost, the switch was not thrown at both ends at    *)
(* once, and no thread ran into another one between receiving and its end. *)
(***************************************************************************)
StoresAgree ==
  (\A p \in Peer : AtRest(p) /\ air[p] = <<>>) /\ ~astray /\ off = {}
    => \A id \in Id : value[NodeOf[robot][id]] = value[NodeOf[controller][id]]

(***************************************************************************)
(* A controller that is switched off stops the robot for good, if it had   *)
(* been connected and the threads kept out of each other's way.            *)
(***************************************************************************)
GoneStops ==
  controller \in off /\ value[Connection[robot]] ~> [](~value[Output] \/ overlapped)

(***************************************************************************)
(* What is received is not sent back: when the switch is left alone the    *)
(* talk about it ends, whatever crossed on the way and whichever threads   *)
(* overlapped.                                                             *)
(***************************************************************************)
SwitchTalkEnds ==
  <>[](\A p \in Peer : \A i \in DOMAIN air[p] :
         air[p][i] = KeepAliveFrame \/ air[p][i].id # "switch")
=============================================================================
