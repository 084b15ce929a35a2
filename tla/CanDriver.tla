----------------------------- MODULE CanDriver -----------------------------
(***************************************************************************)
(* robotics::network::CANDriver (idf-can.hpp), the CAN port of an ESP32    *)
(* over the TWAI driver of ESP-IDF.                                        *)
(*                                                                         *)
(* bus_locked stops all sending after a failed transmission.  Two tasks    *)
(* write it without a lock: AlertLoop, which also recovers the controller  *)
(* from bus-off, and MessageWatcher, for which a received message means    *)
(* that the bus is back.  Applications read it twice on their way to       *)
(* twai_transmit.  (tx_queue_, which TxBufferSender empties, is filled by  *)
(* nobody and left out.)                                                   *)
(***************************************************************************)
EXTENDS Integers, Sequences, FiniteSets

CONSTANTS Senders,    \* application threads that call Send
          Ids,        \* identifiers they send
          TxSlots,    \* tx_queue_len of the TWAI driver, 50
          RxSlots,    \* rx_queue_len, 50
          MaxFaults   \* bound: transmissions that fail, and bus-offs

ASSUME CanAssumption ==
  /\ IsFiniteSet(Senders) /\ Ids \subseteq Nat
  /\ TxSlots \in Nat \ {0} /\ RxSlots \in Nat \ {0} /\ MaxFaults \in Nat

Alerts == {"TX_FAILED", "BUS_RECOVERED", "BUS_OFF"}

VARIABLES
  bus_locked,
  at,          \* where each sender is in Send and DoSend, and with which id
  todo,        \* alerts AlertLoop has read and not yet acted on
  lateSends,   \* frames transmitted since the bus was locked (history)
  controller,  \* the TWAI controller
  alerts,      \* raised and not yet read
  twaiTx, twaiRx,   \* queues of the TWAI driver
  faults

twaiVars == <<controller, alerts, twaiTx, twaiRx, faults>>
driverVars == <<bus_locked, at, todo, lateSends, twaiVars>>

Out == [pc |-> "out", id |-> 0]

DriverInit ==
  /\ bus_locked = FALSE
  /\ at = [t \in Senders |-> Out]
  /\ todo = {} /\ lateSends = 0
  /\ controller = "running" /\ alerts = {}
  /\ twaiTx = <<>> /\ twaiRx = <<>> /\ faults = 0

-----------------------------------------------------------------------------
(* Send and DoSend.  A locked bus refuses, at either look.                 *)

Send(t, id) ==
  /\ at[t] = Out /\ ~bus_locked
  /\ at' = [at EXCEPT ![t] = [pc |-> "DoSend", id |-> id]]
  /\ UNCHANGED <<bus_locked, todo, lateSends, twaiVars>>

DoSend(t) ==
  /\ at[t].pc = "DoSend"
  /\ at' = [at EXCEPT ![t] = IF bus_locked THEN Out ELSE [@ EXCEPT !.pc = "transmit"]]
  /\ UNCHANGED <<bus_locked, todo, lateSends, twaiVars>>

\* slip: the thread goes on sending without a look at bus_locked
SlipTransmit(t) ==
  /\ at[t].pc = "transmit"
  /\ IF controller = "running" /\ Len(twaiTx) < TxSlots
     THEN /\ twaiTx' = Append(twaiTx, at[t].id)
          /\ lateSends' = IF bus_locked THEN lateSends + 1 ELSE lateSends
     ELSE UNCHANGED <<twaiTx, lateSends>>
  /\ UNCHANGED <<bus_locked, at, todo, controller, alerts, twaiRx, faults>>

Transmit(t) ==
  /\ at[t].pc = "transmit"
  /\ at' = [at EXCEPT ![t] = Out]
  /\ IF controller = "running" /\ Len(twaiTx) < TxSlots
     THEN /\ twaiTx' = Append(twaiTx, at[t].id)
          /\ lateSends' = IF bus_locked THEN lateSends + 1 ELSE lateSends
     ELSE UNCHANGED <<twaiTx, lateSends>>
  /\ UNCHANGED <<bus_locked, todo, controller, alerts, twaiRx, faults>>

-----------------------------------------------------------------------------
(* AlertLoop reads all alerts at once and acts on them in its own order.   *)

AlertRead ==
  /\ todo = {} /\ alerts # {}
  /\ todo' = alerts /\ alerts' = {}
  /\ UNCHANGED <<bus_locked, at, lateSends, controller, twaiTx, twaiRx, faults>>

\* slip: else-if, the other alerts of the same read are forgotten
SlipTxFailed ==
  /\ "TX_FAILED" \in todo
  /\ todo' = {}
  /\ bus_locked' = TRUE
  /\ lateSends' = IF bus_locked THEN lateSends ELSE 0
  /\ UNCHANGED <<at, twaiVars>>

TxFailed ==
  /\ "TX_FAILED" \in todo
  /\ todo' = todo \ {"TX_FAILED"}
  /\ bus_locked' = TRUE
  /\ lateSends' = IF bus_locked THEN lateSends ELSE 0
  /\ UNCHANGED <<at, twaiVars>>

BusRecovered ==
  /\ "BUS_RECOVERED" \in todo /\ "TX_FAILED" \notin todo
  /\ todo' = todo \ {"BUS_RECOVERED"}
  /\ controller' = IF controller = "stopped" THEN "running" ELSE controller
  /\ bus_locked' = FALSE
  /\ UNCHANGED <<at, lateSends, alerts, twaiTx, twaiRx, faults>>

BusOff ==
  /\ todo = {"BUS_OFF"}
  /\ todo' = {}
  /\ IF controller = "off" THEN controller' = "recovering" /\ twaiTx' = <<>>
                           ELSE UNCHANGED <<controller, twaiTx>>
  /\ UNCHANGED <<bus_locked, at, lateSends, alerts, twaiRx, faults>>

AlertLoop == AlertRead \/ TxFailed \/ BusRecovered \/ BusOff

\* slip: a message does not unlock the bus
SlipMessageWatcher ==
  /\ twaiRx # <<>>
  /\ twaiRx' = Tail(twaiRx)
  /\ UNCHANGED <<bus_locked, at, todo, lateSends, controller, alerts, twaiTx, faults>>

MessageWatcher ==
  /\ twaiRx # <<>>
  /\ twaiRx' = Tail(twaiRx)
  /\ bus_locked' = FALSE
  /\ UNCHANGED <<at, todo, lateSends, controller, alerts, twaiTx, faults>>

-----------------------------------------------------------------------------
(* The TWAI driver and the bus.                                            *)

TransmissionFails ==
  /\ controller = "running" /\ twaiTx # <<>> /\ faults < MaxFaults
  /\ twaiTx' = Tail(twaiTx)
  /\ alerts' = alerts \cup {"TX_FAILED"} /\ faults' = faults + 1
  /\ UNCHANGED <<bus_locked, at, todo, lateSends, controller, twaiRx>>

\* Too many errors: the controller leaves the bus, perhaps failing what it sends.
GoesOff ==
  /\ controller = "running" /\ faults < MaxFaults
  /\ controller' = "off" /\ faults' = faults + 1
  /\ \E more \in SUBSET {"TX_FAILED"} : alerts' = alerts \cup {"BUS_OFF"} \cup more
  /\ UNCHANGED <<bus_locked, at, todo, lateSends, twaiTx, twaiRx>>

Recovers ==
  /\ controller = "recovering"
  /\ controller' = "stopped" /\ alerts' = alerts \cup {"BUS_RECOVERED"}
  /\ UNCHANGED <<bus_locked, at, todo, lateSends, twaiTx, twaiRx, faults>>

\* A frame another node sends is heard only by a controller that is on the bus.
Heard(id) ==
  twaiRx' = IF controller = "running" /\ Len(twaiRx) < RxSlots
            THEN Append(twaiRx, id) ELSE twaiRx

-----------------------------------------------------------------------------
(***************************************************************************)
(* bus_locked is read before twai_transmit and not held: after the bus is  *)
(* locked each thread may still hand one frame to twai_transmit, the one   *)
(* it was at, and never a second one.  What the TWAI driver had in its     *)
(* queue before still leaves, and is not counted.                          *)
(***************************************************************************)
OneLateFrameEach == bus_locked => lateSends <= Cardinality(Senders)

\* A controller that left the bus is started again, and sending is allowed then.
BackOnTheBus == controller = "off" ~> controller = "running" /\ ~bus_locked
=============================================================================
