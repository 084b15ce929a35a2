------------------------------ MODULE CanLink ------------------------------
(***************************************************************************)
(* An ESP32 (CanDriver) that sends keep-alives and pings to a robot (Dcan) *)
(* over one CAN bus; the robot answers pings and may send reports of its   *)
(* own, such as SendKeepAlive.                                             *)
(***************************************************************************)
EXTENDS CanDriver, Dcan

vars == <<driverVars, dcanVars>>

Init == DriverInit /\ DcanInit

\* The head of the ESP32's queue reaches the robot, which may answer at once.
FrameToRobot ==
  /\ controller = "running" /\ twaiTx # <<>>
  /\ twaiTx' = Tail(twaiTx)
  /\ OnRx(Head(twaiTx))
  /\ IF Answer(Head(twaiTx)) = <<>> THEN UNCHANGED twaiRx
                                    ELSE Heard(Answer(Head(twaiTx))[1])
  /\ UNCHANGED <<bus_locked, at, todo, lateSends, controller, alerts, faults>>

\* DistributedCAN::SendKeepAlive, 0xfc.
Report ==
  /\ Heard(252)
  /\ UNCHANGED <<bus_locked, at, todo, lateSends, controller, alerts, twaiTx, faults,
                 dcanVars>>

Driver ==
  /\ \/ \E t \in Senders : (\E id \in Ids : Send(t, id)) \/ DoSend(t) \/ Transmit(t)
     \/ AlertLoop \/ MessageWatcher
     \/ TransmissionFails \/ GoesOff \/ Recovers
  /\ UNCHANGED dcanVars

Robot ==
  /\ IdleRead \/ IdleCompare \/ TimePasses
  /\ UNCHANGED driverVars

Next == FrameToRobot \/ Report \/ Driver \/ Robot

Spec == Init /\ [][Next]_vars

(***************************************************************************)
(* The tasks run, the controller recovers, frames are delivered, and the   *)
(* robot's application reports again and again.  The ESP32's application   *)
(* need not send.                                                          *)
(***************************************************************************)
FairSpec ==
  /\ Spec
  /\ WF_vars(AlertLoop /\ UNCHANGED dcanVars)
  /\ WF_vars(MessageWatcher /\ UNCHANGED dcanVars)
  /\ WF_vars(Recovers /\ UNCHANGED dcanVars)
  /\ WF_vars(Robot) /\ WF_vars(Report)

-----------------------------------------------------------------------------
Frame == Ids \cup {129 + DeviceId, 252}

\* Every variable has its type.
TypeOK ==
  /\ bus_locked \in BOOLEAN
  /\ at \in [Senders -> [pc : {"out", "DoSend", "transmit"}, id : Ids \cup {0}]]
  /\ todo \in SUBSET Alerts /\ alerts \in SUBSET Alerts
  /\ lateSends \in Nat
  /\ controller \in {"running", "off", "recovering", "stopped"}
  /\ twaiTx \in Seq(Ids) /\ Len(twaiTx) <= TxSlots
  /\ twaiRx \in Seq(Frame) /\ Len(twaiRx) <= RxSlots
  /\ faults \in 0..MaxFaults
  /\ timer \in Timers /\ silence \in 0..Never
  /\ keep_alive_available \in BOOLEAN /\ idled \in BOOLEAN /\ fed \in BOOLEAN
  /\ idle \in [pc : {"sleep", "compare"}, read : 0..Never]
  /\ reported \in {"nothing", "lost", "recovered"}

(***************************************************************************)
(* Types, and that no loss is reported while the peer is heard: both hold  *)
(* whatever the bus does to the frames.                                    *)
(***************************************************************************)
NoFalseLoss == TypeOK /\ FedNeverLost

(***************************************************************************)
(* A bus that was locked by a failed transmission is unlocked for good     *)
(* once transmissions stop failing, as long as the other side sends of its *)
(* own accord: the ESP32 itself does not try again.                        *)
(***************************************************************************)
UnlockedInTheEnd == <>[]~bus_locked
=============================================================================
