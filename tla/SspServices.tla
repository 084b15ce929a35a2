---------------------------- MODULE SspServices ----------------------------
(***************************************************************************)
(* The serial service protocol (ssp.hpp) between two programs with the     *)
(* services that touch nodes: KeepAliveService, which turns the arrival of *)
(* frames into connection_available, and ValueStoreService, which keeps a  *)
(* node equal to the one with the same id at the other end.                *)
(*                                                                         *)
(* Frames are received on one thread and everything else is called from    *)
(* another.  The value store fills its tx_buffer before it knows whether   *)
(* it sends; SSP_Service::Send, which copies it into a static buffer, is   *)
(* one step.                                                               *)
(***************************************************************************)
EXTENDS NodeGraph

CONSTANTS Peer,
          OtherEnd,         \* the remote of each peer
          Connection,       \* connection_available of each peer
          Id,
          NodeOf,           \* nodes_: the node of each peer registered under each id
          LostTime,         \* 0.4 s, in calls of Update
          MaxInFlight       \* bound: frames on their way to one peer

ASSUME SspAssumption ==
  /\ OtherEnd \in [Peer -> Peer] /\ Connection \in [Peer -> Node]
  /\ NodeOf \in [Peer -> [Id -> Node]]
  /\ LostTime \in Nat \ {0} /\ MaxInFlight \in Nat \ {0}

VARIABLES
  connection_lost_timer,
  receiving,     \* of each peer and id
  tx_buffer,     \* of each peer's ValueStoreService
  air,           \* frames on their way to each peer
  off            \* peers that have been switched off

sspVars == <<connection_lost_timer, receiving, tx_buffer, air, off>>

KeepAliveFrame == [service |-> "keep_alive"]
ValueFrame(id, v) == [service |-> "value_store", id |-> id, v |-> v]

Frame == {KeepAliveFrame} \cup [service : {"value_store"}, id : Id, v : BOOLEAN]

IdOf(p, n) == CHOOSE id \in Id : NodeOf[p][id] = n

Send(id) == [do |-> "Send", id |-> id]
EndOfReceive(id) == [do |-> "EndOfReceive", id |-> id]
RestartTimer == [do |-> "RestartTimer"]
CheckTimer == [do |-> "CheckTimer"]

-----------------------------------------------------------------------------
\* stream_.Send.  A frame to one who is off, or of whom too much is on its way, is lost.
Arrives(p) == OtherEnd[p] \notin off /\ Len(air[OtherEnd[p]]) < MaxInFlight
Transmit(p, frame) ==
  air' = IF Arrives(p) THEN [air EXCEPT ![OtherEnd[p]] = Append(@, frame)] ELSE air

(* ValueStoreService: a node has changed.                                  *)

DoOnChanged(p, t) ==
  /\ Doing(t, "OnChanged")
  /\ LET n == Head(todo[t]).node
     IN  /\ tx_buffer' = [tx_buffer EXCEPT ![p] = ValueFrame(IdOf(p, n), value[n])]
         /\ Becomes(t, <<Send(IdOf(p, n))>>)
  /\ UNCHANGED <<value, connection_lost_timer, receiving, air, off>>

\* slip: what has just been received is sent back
SlipDoSend(p, t) ==
  /\ Doing(t, "Send")
  /\ Becomes(t, <<>>)
  /\ Transmit(p, tx_buffer[p])
  /\ UNCHANGED <<value, connection_lost_timer, receiving, tx_buffer, off>>

DoSend(p, t) ==
  /\ Doing(t, "Send")
  /\ Becomes(t, <<>>)
  /\ IF receiving[p][Head(todo[t]).id] THEN UNCHANGED air ELSE Transmit(p, tx_buffer[p])
  /\ UNCHANGED <<value, connection_lost_timer, receiving, tx_buffer, off>>

(* A frame arrives.                                                        *)

TreatKeepAlive(p) == <<SetValue(Connection[p], TRUE), RestartTimer>>

\* slip: receiving stays set
SlipLoad(p, id, v) == <<SetValue(NodeOf[p][id], v)>>

Load(p, id, v) == <<SetValue(NodeOf[p][id], v), EndOfReceive(id)>>

Receive(p, t) ==
  /\ todo[t] = <<>> /\ air[p] # <<>>
  /\ air' = [air EXCEPT ![p] = Tail(@)]
  /\ LET frame == Head(air[p])
     IN  IF frame = KeepAliveFrame
         THEN /\ todo' = [todo EXCEPT ![t] = TreatKeepAlive(p)]
              /\ UNCHANGED receiving
         ELSE /\ todo' = [todo EXCEPT ![t] = Load(p, frame.id, frame.v)]
              /\ receiving' = [receiving EXCEPT ![p][frame.id] = TRUE]
  /\ UNCHANGED <<value, connection_lost_timer, tx_buffer, off>>

DoEndOfReceive(p, t) ==
  /\ Doing(t, "EndOfReceive")
  /\ receiving' = [receiving EXCEPT ![p][Head(todo[t]).id] = FALSE]
  /\ Becomes(t, <<>>)
  /\ UNCHANGED <<value, connection_lost_timer, tx_buffer, air, off>>

-----------------------------------------------------------------------------
(* KeepAliveService.                                                       *)

\* slip: the timer stops at zero
SlipCountDown(timer) == IF timer > 0 THEN timer - 1 ELSE timer

\* What is below zero is all the same.
CountDown(timer) == IF timer < 0 THEN timer ELSE timer - 1

\* Update decrements the timer and then looks at it.
Update(p, t) ==
  /\ todo[t] = <<>>
  /\ connection_lost_timer' = [connection_lost_timer EXCEPT ![p] = CountDown(@)]
  /\ todo' = [todo EXCEPT ![t] = <<CheckTimer>>]
  /\ UNCHANGED <<value, receiving, tx_buffer, air, off>>

DoCheckTimer(p, t) ==
  /\ Doing(t, "CheckTimer")
  /\ Becomes(t, IF connection_lost_timer[p] < 0
                THEN <<SetValue(Connection[p], FALSE)>> ELSE <<>>)
  /\ UNCHANGED <<value, sspVars>>

\* slip: the time is added to what is left
SlipRestartTimer(p, t) ==
  /\ Doing(t, "RestartTimer")
  /\ connection_lost_timer' = [connection_lost_timer EXCEPT ![p] = @ + LostTime]
  /\ Becomes(t, <<>>)
  /\ UNCHANGED <<value, receiving, tx_buffer, air, off>>

DoRestartTimer(p, t) ==
  /\ Doing(t, "RestartTimer")
  /\ connection_lost_timer' = [connection_lost_timer EXCEPT ![p] = LostTime]
  /\ Becomes(t, <<>>)
  /\ UNCHANGED <<value, receiving, tx_buffer, air, off>>

SendKeepAliveTo(p, t) ==
  /\ todo[t] = <<>>
  /\ Transmit(p, KeepAliveFrame)
  /\ UNCHANGED <<value, todo, connection_lost_timer, receiving, tx_buffer, off>>

ServiceStep(p, t) ==
  \/ GraphStep(t) /\ UNCHANGED sspVars
  \/ DoOnChanged(p, t) \/ DoSend(p, t) \/ DoEndOfReceive(p, t)
  \/ DoCheckTimer(p, t) \/ DoRestartTimer(p, t)
=============================================================================
