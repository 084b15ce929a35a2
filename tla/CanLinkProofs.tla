--------------------------- MODULE CanLinkProofs ---------------------------
(***************************************************************************)
(* For every set of senders and every fault of the bus: how many frames    *)
(* may still go out on a locked bus (OneEach), and when the robot may      *)
(* report its peer lost (NeverFalselyLost).                                *)
(***************************************************************************)
EXTENDS CanLink, TLAPS, FiniteSetTheorems

\* The threads that have looked at bus_locked for the last time.
Past == {t \in Senders : at[t].pc = "transmit"}

(***************************************************************************)
(* OneLateFrameEach alone is not inductive: it does not say that a thread  *)
(* that may yet transmit has not done so.  What has been sent late and     *)
(* what may still be sent late together stay within the bound.             *)
(***************************************************************************)
LateOrPast == bus_locked => lateSends + Cardinality(Past) <= Cardinality(Senders)

IInv ==
  /\ bus_locked \in BOOLEAN /\ lateSends \in Nat
  /\ at \in [Senders -> [pc : {"out", "DoSend", "transmit"}, id : Nat]]
  /\ LateOrPast

LEMMA PastIsFinite ==
  ASSUME NEW S \in SUBSET Senders
  PROVE  IsFiniteSet(S) /\ Cardinality(S) \in Nat /\ Cardinality(S) <= Cardinality(Senders)
         /\ Cardinality(Senders) \in Nat
BY CanAssumption, FS_Subset, FS_CardinalityType

\* What a thread that is not past the last look does, leaves the sum alone.
LEMMA SamePast ==
  ASSUME IInv, Past' \subseteq Past, Past' \in SUBSET Senders,
         bus_locked' = bus_locked, lateSends' = lateSends
  PROVE  LateOrPast'
<1>1. Cardinality(Past') <= Cardinality(Past) /\ Cardinality(Past') \in Nat
  <2>1. IsFiniteSet(Past) BY PastIsFinite DEF Past
  <2>2. QED BY <2>1, FS_Subset, FS_CardinalityType
<1>2. Cardinality(Past) \in Nat BY PastIsFinite DEF Past
<1>3. Cardinality(Senders) \in Nat BY PastIsFinite
<1>4. CASE bus_locked
  <2>1. lateSends + Cardinality(Past) <= Cardinality(Senders)
    BY <1>4 DEF IInv, LateOrPast
  <2>2. lateSends \in Nat BY DEF IInv
  <2>3. lateSends' + Cardinality(Past') <= Cardinality(Senders)
    BY <1>1, <1>2, <1>3, <2>1, <2>2
  <2>4. QED BY <2>3 DEF LateOrPast
<1>5. CASE ~bus_locked BY <1>5 DEF LateOrPast
<1>6. QED BY <1>4, <1>5 DEF IInv

LEMMA InitLate == Init => IInv
<1>1. SUFFICES ASSUME Init PROVE IInv
  OBVIOUS
<1>2. at \in [Senders -> [pc : {"out", "DoSend", "transmit"}, id : Nat]]
  BY <1>1 DEF Init, DriverInit, Out
<1>3. QED BY <1>1, <1>2 DEF Init, DriverInit, IInv, LateOrPast

\* Send and the first look only: the thread is not past the second look yet.
LEMMA SendStep ==
  ASSUME IInv, NEW t \in Senders, NEW id \in Ids, Send(t, id)
  PROVE  IInv'
<1>1. at' \in [Senders -> [pc : {"out", "DoSend", "transmit"}, id : Nat]]
  BY CanAssumption DEF Send, IInv
<1>2. Past' \subseteq Past
  BY DEF Send, Past, IInv
<1>3. LateOrPast'
  BY <1>2, SamePast DEF Send, Past
<1>4. QED BY <1>1, <1>3 DEF Send, IInv

\* A thread gets past the second look only while the bus is not locked.
LEMMA DoSendStep ==
  ASSUME IInv, NEW t \in Senders, DoSend(t)
  PROVE  IInv'
<1>1. at' \in [Senders -> [pc : {"out", "DoSend", "transmit"}, id : Nat]]
  BY DEF DoSend, IInv, Out
<1>2. CASE bus_locked
  <2>1. Past' \subseteq Past
    BY <1>2 DEF DoSend, Past, IInv, Out
  <2>2. LateOrPast'
    BY <2>1, SamePast DEF DoSend, Past
  <2>3. QED BY <1>1, <2>2 DEF DoSend, IInv
<1>3. CASE ~bus_locked
  BY <1>1, <1>3 DEF DoSend, IInv, LateOrPast
<1>4. QED BY <1>2, <1>3 DEF IInv

\* A frame that is sent late is one less that may be.
LEMMA TransmitStep ==
  ASSUME IInv, NEW t \in Senders, Transmit(t)
  PROVE  IInv'
<1>1. at' \in [Senders -> [pc : {"out", "DoSend", "transmit"}, id : Nat]]
  BY DEF Transmit, IInv, Out
<1>2. Past' = Past \ {t} /\ t \in Past
  BY DEF Transmit, Past, IInv, Out
<1>3. IsFiniteSet(Past) /\ Cardinality(Past) \in Nat
  BY PastIsFinite DEF Past
<1>4. Cardinality(Past') = Cardinality(Past) - 1
  BY <1>2, <1>3, FS_RemoveElement
<1>5. Cardinality(Senders) \in Nat BY PastIsFinite
<1>6. lateSends \in Nat BY DEF IInv
<1>7. lateSends' \in Nat /\ lateSends' <= lateSends + 1
  BY <1>6 DEF Transmit
<1>8. bus_locked' = bus_locked BY DEF Transmit
<1>9. CASE bus_locked
  <2>1. lateSends + Cardinality(Past) <= Cardinality(Senders)
    BY <1>9 DEF IInv, LateOrPast
  <2>2. lateSends' + Cardinality(Past') <= Cardinality(Senders)
    BY <1>3, <1>4, <1>5, <1>6, <1>7, <2>1
  <2>3. LateOrPast' BY <2>2 DEF LateOrPast
  <2>4. QED BY <1>1, <1>7, <1>8, <2>3 DEF IInv
<1>10. CASE ~bus_locked
  BY <1>1, <1>7, <1>8, <1>10 DEF IInv, LateOrPast
<1>11. QED BY <1>9, <1>10 DEF IInv

\* Locking starts the count: each thread may be past the last look, once.
LEMMA TxFailedStep ==
  ASSUME IInv, TxFailed
  PROVE  IInv'
<1>1. Past' = Past BY DEF TxFailed, Past
<1>2. Cardinality(Past) \in Nat /\ Cardinality(Past) <= Cardinality(Senders)
  BY PastIsFinite DEF Past
<1>3. Cardinality(Senders) \in Nat BY PastIsFinite
<1>4. bus_locked' = TRUE /\ at' = at BY DEF TxFailed
<1>5. CASE bus_locked
  <2>1. lateSends' = lateSends BY <1>5 DEF TxFailed
  <2>2. QED BY <1>1, <1>4, <1>5, <2>1 DEF IInv, LateOrPast
<1>6. CASE ~bus_locked
  <2>1. lateSends' = 0 BY <1>6 DEF TxFailed
  <2>2. lateSends' + Cardinality(Past') <= Cardinality(Senders)
    BY <1>1, <1>2, <1>3, <2>1
  <2>3. LateOrPast' BY <2>2 DEF LateOrPast
  <2>4. QED BY <1>4, <2>1, <2>3 DEF IInv
<1>7. QED BY <1>5, <1>6 DEF IInv

\* Whatever leaves the lock, the senders and the count alone, or takes the lock away.
LEMMA OtherStep ==
  ASSUME IInv, UNCHANGED <<at, lateSends>>, bus_locked' = bus_locked \/ bus_locked' = FALSE
  PROVE  IInv'
<1>1. CASE bus_locked' = FALSE BY <1>1 DEF IInv, LateOrPast
<1>2. CASE bus_locked' = bus_locked
  <2>1. Past' = Past BY DEF Past
  <2>2. QED BY <1>2, <2>1 DEF IInv, LateOrPast
<1>3. QED BY <1>1, <1>2

LEMMA StepLate == IInv /\ [Next]_vars => IInv'
<1>1. SUFFICES ASSUME IInv, [Next]_vars PROVE IInv'
  OBVIOUS
<1>2. CASE FrameToRobot BY <1>1, <1>2, OtherStep DEF FrameToRobot
<1>3. CASE Report BY <1>1, <1>3, OtherStep DEF Report
<1>4. CASE Robot BY <1>1, <1>4, OtherStep DEF Robot, driverVars
<1>5. CASE Driver
  <2>1. ASSUME NEW t \in Senders, NEW id \in Ids, Send(t, id) PROVE IInv'
    BY <1>1, <2>1, SendStep
  <2>2. ASSUME NEW t \in Senders, DoSend(t) PROVE IInv'
    BY <1>1, <2>2, DoSendStep
  <2>3. ASSUME NEW t \in Senders, Transmit(t) PROVE IInv'
    BY <1>1, <2>3, TransmitStep
  <2>4. CASE AlertRead BY <1>1, <2>4, OtherStep DEF AlertRead
  <2>5. CASE TxFailed BY <1>1, <2>5, TxFailedStep
  <2>6. CASE BusRecovered BY <1>1, <2>6, OtherStep DEF BusRecovered
  <2>7. CASE BusOff BY <1>1, <2>7, OtherStep DEF BusOff
  <2>8. CASE MessageWatcher BY <1>1, <2>8, OtherStep DEF MessageWatcher
  <2>9. CASE TransmissionFails BY <1>1, <2>9, OtherStep DEF TransmissionFails
  <2>10. CASE GoesOff BY <1>1, <2>10, OtherStep DEF GoesOff
  <2>11. CASE Recovers BY <1>1, <2>11, OtherStep DEF Recovers
  <2>12. QED
    BY <1>5, <2>1, <2>2, <2>3, <2>4, <2>5, <2>6, <2>7, <2>8, <2>9, <2>10, <2>11
    DEF Driver, AlertLoop
<1>6. CASE UNCHANGED vars BY <1>1, <1>6, OtherStep DEF vars, driverVars
<1>7. QED BY <1>1, <1>2, <1>3, <1>4, <1>5, <1>6 DEF Next

(***************************************************************************)
(* After the bus is locked each thread may get one frame out, the one it   *)
(* was at, and never a second one: for any number of threads, any queue    *)
(* and any faults.                                                         *)
(***************************************************************************)
THEOREM OneEach == Spec => []OneLateFrameEach
<1>1. IInv => OneLateFrameEach
  <2>1. SUFFICES ASSUME IInv, bus_locked PROVE lateSends <= Cardinality(Senders)
    BY DEF OneLateFrameEach
  <2>2. lateSends + Cardinality(Past) <= Cardinality(Senders) BY <2>1 DEF IInv, LateOrPast
  <2>3. Cardinality(Past) \in Nat /\ Cardinality(Senders) \in Nat
    BY PastIsFinite DEF Past
  <2>4. lateSends \in Nat BY <2>1 DEF IInv
  <2>5. QED BY <2>2, <2>3, <2>4
<1>2. QED BY InitLate, StepLate, <1>1, PTL DEF Spec

-----------------------------------------------------------------------------
(***************************************************************************)
(* A thread that is in Send carries an identifier it was given.            *)
(***************************************************************************)
Carries == \A t \in Senders : at[t].pc # "out" => at[t].id \in Ids

(***************************************************************************)
(* FedNeverLost alone is not inductive: it does not say what the idle      *)
(* thread has read.  Between the read and the comparison no time passes,   *)
(* so what was read is at least the time on the timer; and while a fed     *)
(* keep-alive counts as available, both stay below the limit.              *)
(***************************************************************************)
ReadIsRecent ==
  idle.pc = "compare" =>
    /\ ~idled
    /\ ElapsedTime <= idle.read
    /\ fed /\ keep_alive_available => idle.read < Limit

FedIsBelowLimit == fed /\ keep_alive_available => ElapsedTime < Limit

DriverTypes ==
  /\ bus_locked \in BOOLEAN
  /\ at \in [Senders -> [pc : {"out", "DoSend", "transmit"}, id : Ids \cup {0}]]
  /\ todo \in SUBSET Alerts /\ alerts \in SUBSET Alerts
  /\ lateSends \in Nat
  /\ controller \in {"running", "off", "recovering", "stopped"}
  /\ twaiTx \in Seq(Ids) /\ Len(twaiTx) <= TxSlots
  /\ twaiRx \in Seq(Frame) /\ Len(twaiRx) <= RxSlots
  /\ faults \in 0..MaxFaults

DcanTypes ==
  /\ timer \in Timers /\ silence \in 0..Never
  /\ keep_alive_available \in BOOLEAN /\ idled \in BOOLEAN /\ fed \in BOOLEAN
  /\ idle \in [pc : {"sleep", "compare"}, read : 0..Never]
  /\ reported \in {"nothing", "lost", "recovered"}

DriverInv == DriverTypes /\ Carries
DcanInv == DcanTypes /\ ReadIsRecent /\ FedIsBelowLimit /\ FedNeverLost

LinkInv == DriverInv /\ DcanInv

LEMMA OutIsTyped == Out \in [pc : {"out", "DoSend", "transmit"}, id : Ids \cup {0}]
BY DEF Out

LEMMA AsleepIsTyped ==
  [pc |-> "sleep", read |-> 0] \in [pc : {"sleep", "compare"}, read : 0..Never]
<1> DEFINE zero == 0
<1>1. zero \in 0..Never BY DEF Never, Limit
<1> HIDE DEF zero
<1>2. [pc |-> "sleep", read |-> zero] \in [pc : {"sleep", "compare"}, read : 0..Never]
  BY <1>1
<1>3. QED BY <1>2 DEF zero

LEMMA InitLink == Init => LinkInv
<1>1. SUFFICES ASSUME Init PROVE LinkInv
  OBVIOUS
<1>2. DriverInv
  <2>1. DriverInit BY <1>1 DEF Init
  <2>2. at \in [Senders -> [pc : {"out", "DoSend", "transmit"}, id : Ids \cup {0}]]
    BY <2>1, OutIsTyped DEF DriverInit
  <2>3. Carries BY <2>1 DEF DriverInit, Carries, Out
  <2>4. /\ todo \in SUBSET Alerts /\ alerts \in SUBSET Alerts
        /\ bus_locked \in BOOLEAN /\ controller \in {"running", "off", "recovering", "stopped"}
    BY <2>1 DEF DriverInit
  <2>5. /\ lateSends \in Nat /\ faults \in 0..MaxFaults
        /\ twaiTx \in Seq(Ids) /\ Len(twaiTx) <= TxSlots
        /\ twaiRx \in Seq(Frame) /\ Len(twaiRx) <= RxSlots
    BY <2>1, CanAssumption DEF DriverInit
  <2>6. QED BY <2>2, <2>3, <2>4, <2>5 DEF DriverInv, DriverTypes
<1>3. DcanTypes
  <2>1. DcanInit BY <1>1 DEF Init
  <2>2. silence \in 0..Never BY <2>1 DEF DcanInit, Never, Limit
  <2>3. idle \in [pc : {"sleep", "compare"}, read : 0..Never]
    BY <2>1, AsleepIsTyped DEF DcanInit
  <2>4. QED BY <2>1, <2>2, <2>3 DEF DcanInit, DcanTypes
<1>4. DcanInv
  BY <1>1, <1>3 DEF Init, DcanInit, DcanInv, ReadIsRecent, FedIsBelowLimit, FedNeverLost
<1>5. QED BY <1>2, <1>4 DEF LinkInv

-----------------------------------------------------------------------------
(* The robot.                                                              *)

\* Only time makes the timer go on: until then it stands still or starts anew.
LEMMA ElapsedShrinks ==
  ASSUME DcanTypes, timer' = timer, silence' = silence \/ silence' = 0
  PROVE  ElapsedTime' <= ElapsedTime /\ ElapsedTime' \in 0..Never /\ ElapsedTime \in 0..Never
BY DEF DcanTypes, ElapsedTime, Never, Limit

LEMMA OnRxStep ==
  ASSUME DcanInv, NEW cid, OnRx(cid)
  PROVE  DcanInv'
<1>1. silence' = silence \/ silence' = 0
  BY DEF OnRx
<1>2. UNCHANGED <<timer, keep_alive_available, idle, idled, reported, fed>>
  BY DEF OnRx
<1>3. DcanTypes /\ DcanTypes'
  BY <1>1, <1>2 DEF DcanInv, DcanTypes, Never, Limit
<1>4. ElapsedTime' <= ElapsedTime /\ ElapsedTime' \in 0..Never /\ ElapsedTime \in 0..Never
  BY <1>1, <1>2, <1>3, ElapsedShrinks
<1>5. idle.read \in 0..Never BY <1>3 DEF DcanTypes
<1>6. ReadIsRecent'
  <2>1. SUFFICES ASSUME idle.pc = "compare"
                 PROVE ~idled /\ ElapsedTime' <= idle.read
                       /\ (fed /\ keep_alive_available => idle.read < Limit)
    BY <1>2 DEF ReadIsRecent, Limit
  <2>2. ElapsedTime <= idle.read BY <2>1 DEF DcanInv, ReadIsRecent
  <2>3. ElapsedTime' <= idle.read BY <1>4, <1>5, <2>2 DEF Never, Limit
  <2>4. QED BY <2>1, <2>3 DEF DcanInv, ReadIsRecent
<1>7. FedIsBelowLimit'
  <2>1. SUFFICES ASSUME fed, keep_alive_available PROVE ElapsedTime' < Limit
    BY <1>2 DEF FedIsBelowLimit, Limit
  <2>2. ElapsedTime < Limit BY <2>1 DEF DcanInv, FedIsBelowLimit
  <2>3. QED BY <1>4, <2>2 DEF Limit, Never
<1>8. FedNeverLost' BY <1>2 DEF DcanInv, FedNeverLost
<1>9. QED BY <1>3, <1>6, <1>7, <1>8 DEF DcanInv

LEMMA IdleReadStep ==
  ASSUME DcanInv, IdleRead
  PROVE  DcanInv'
<1>1. DcanTypes BY DEF DcanInv
<1>2. UNCHANGED <<timer, silence, keep_alive_available, idled, reported, fed>> /\ ~idled
  BY DEF IdleRead
<1>3. idle'.pc = "compare" /\ idle'.read = ElapsedTime
  BY DEF IdleRead
<1>4. ElapsedTime' = ElapsedTime /\ ElapsedTime \in 0..Never
  BY <1>1, <1>2 DEF DcanTypes, ElapsedTime, Never, Limit
<1>5. DcanTypes'
  BY <1>1, <1>2, <1>4 DEF IdleRead, DcanTypes
<1>6. FedIsBelowLimit'
  BY <1>2, <1>4 DEF DcanInv, FedIsBelowLimit, Limit
<1>7. ReadIsRecent'
  <2>1. ElapsedTime' <= idle'.read BY <1>3, <1>4 DEF Never, Limit
  <2>2. fed /\ keep_alive_available => idle'.read < Limit
    BY <1>3 DEF DcanInv, FedIsBelowLimit
  <2>3. QED BY <1>2, <2>1, <2>2 DEF ReadIsRecent, Limit
<1>8. FedNeverLost' BY <1>2 DEF DcanInv, FedNeverLost
<1>9. QED BY <1>5, <1>6, <1>7, <1>8 DEF DcanInv

\* A report of loss needs a read above the limit, which a fed peer never gives.
LEMMA IdleCompareStep ==
  ASSUME DcanInv, IdleCompare
  PROVE  DcanInv'
<1>1. DcanTypes BY DEF DcanInv
<1>2. UNCHANGED <<timer, silence, fed>> /\ idle.pc = "compare" /\ idle'.pc = "sleep"
  BY DEF IdleCompare
<1>3. DcanTypes'
  <2>1. idle' \in [pc : {"sleep", "compare"}, read : 0..Never]
    BY AsleepIsTyped DEF IdleCompare
  <2>2. /\ keep_alive_available' \in BOOLEAN /\ idled' \in BOOLEAN
        /\ reported' \in {"nothing", "lost", "recovered"}
    BY <1>1 DEF IdleCompare, DcanTypes
  <2>3. QED BY <1>1, <1>2, <2>1, <2>2 DEF DcanTypes
<1>4. ElapsedTime' = ElapsedTime /\ ElapsedTime \in 0..Never
  BY <1>1, <1>2 DEF DcanTypes, ElapsedTime, Never, Limit
<1>5. idle.read \in 0..Never /\ ElapsedTime <= idle.read
  BY <1>1, <1>2 DEF DcanInv, DcanTypes, ReadIsRecent
<1>6. fed /\ keep_alive_available => idle.read < Limit
  BY <1>2 DEF DcanInv, ReadIsRecent
<1>7. ReadIsRecent' BY <1>2 DEF ReadIsRecent
<1>8. FedIsBelowLimit'
  <2>1. SUFFICES ASSUME fed', keep_alive_available' PROVE ElapsedTime' < Limit
    BY DEF FedIsBelowLimit, Limit
  <2>2. idle.read < Limit
    <3>1. CASE keep_alive_available BY <1>2, <1>6, <2>1, <3>1
    <3>2. CASE ~keep_alive_available
      <4>1. Recovered BY <2>1, <3>2 DEF IdleCompare
      <4>2. QED BY <4>1 DEF Recovered
    <3>3. QED BY <3>1, <3>2
  <2>3. QED BY <1>4, <1>5, <2>2 DEF Never, Limit
<1>9. FedNeverLost'
  <2>1. SUFFICES ASSUME fed', reported' = "lost" PROVE FALSE
    BY DEF FedNeverLost
  <2>2. fed BY <1>2, <2>1
  <2>3. reported # "lost" BY <2>2 DEF DcanInv, FedNeverLost
  <2>4. Lost BY <2>1, <2>3 DEF IdleCompare
  <2>5. keep_alive_available /\ Limit < idle.read BY <2>4 DEF Lost
  <2>6. idle.read < Limit BY <1>6, <2>2, <2>5
  <2>7. QED BY <1>5, <2>5, <2>6 DEF Limit, Never
<1>10. QED BY <1>3, <1>7, <1>8, <1>9 DEF DcanInv

\* A peer whose time runs out is not fed any more.
LEMMA TimePassesStep ==
  ASSUME DcanInv, TimePasses
  PROVE  DcanInv'
<1>1. DcanTypes BY DEF DcanInv
<1>2. UNCHANGED <<timer, keep_alive_available, idle, reported>> /\ idled
  BY DEF TimePasses
<1>3. silence \in 0..Never /\ silence' \in 0..Never
  BY <1>1 DEF TimePasses, DcanTypes, Never, Limit
<1>4. fed' \in BOOLEAN /\ (fed' => fed)
  <2>1. fed' = (fed /\ (silence = Never \/ silence' < Limit)) BY DEF TimePasses
  <2>2. QED BY <1>1, <2>1 DEF DcanTypes
<1>5. DcanTypes'
  <2>1. idled' \in BOOLEAN BY DEF TimePasses
  <2>2. QED BY <1>1, <1>2, <1>3, <1>4, <2>1 DEF DcanTypes
<1>6. ReadIsRecent' BY <1>2 DEF DcanInv, ReadIsRecent
<1>7. FedIsBelowLimit'
  <2>1. SUFFICES ASSUME fed', keep_alive_available PROVE ElapsedTime' < Limit
    BY <1>2 DEF FedIsBelowLimit, Limit
  <2>2. ElapsedTime < Limit BY <1>4, <2>1 DEF DcanInv, FedIsBelowLimit
  <2>3. silence = Never \/ silence' < Limit BY <2>1 DEF TimePasses
  <2>4. CASE timer = "mbed" BY <1>2, <2>4 DEF ElapsedTime, Limit
  <2>5. CASE timer # "mbed"
    <3>1. ElapsedTime = silence /\ ElapsedTime' = silence' BY <1>2, <2>5 DEF ElapsedTime
    <3>2. QED BY <1>3, <2>2, <2>3, <3>1 DEF Never, Limit
  <2>6. QED BY <2>4, <2>5
<1>8. FedNeverLost' BY <1>2, <1>4 DEF DcanInv, FedNeverLost
<1>9. QED BY <1>5, <1>6, <1>7, <1>8 DEF DcanInv

LEMMA SameDcan ==
  ASSUME DcanInv, UNCHANGED dcanVars
  PROVE  DcanInv'
BY DEF DcanInv, DcanTypes, ReadIsRecent, FedIsBelowLimit, FedNeverLost, ElapsedTime,
       dcanVars, Never, Limit

-----------------------------------------------------------------------------
(* The driver.                                                             *)

\* The head of a bounded queue goes.
LEMMA TakenFromQueue ==
  ASSUME NEW S, NEW q \in Seq(S), q # <<>>
  PROVE  Tail(q) \in Seq(S) /\ Len(Tail(q)) = Len(q) - 1 /\ Head(q) \in S
OBVIOUS

\* A receive queue that is full, or a controller that is off the bus, hears nothing.
LEMMA HeardIsQueued ==
  ASSUME twaiRx \in Seq(Frame), Len(twaiRx) <= RxSlots, NEW id \in Frame, Heard(id)
  PROVE  twaiRx' \in Seq(Frame) /\ Len(twaiRx') <= RxSlots
<1>1. CASE controller = "running" /\ Len(twaiRx) < RxSlots
  <2>1. twaiRx' = Append(twaiRx, id) BY <1>1 DEF Heard
  <2>2. twaiRx' \in Seq(Frame) BY <2>1
  <2>3. Len(twaiRx') = Len(twaiRx) + 1 BY <2>1
  <2>4. QED BY <1>1, <2>2, <2>3, CanAssumption
<1>2. CASE ~(controller = "running" /\ Len(twaiRx) < RxSlots)
  BY <1>2 DEF Heard
<1>3. QED BY <1>1, <1>2

LEMMA SendTypes ==
  ASSUME DriverInv, NEW t \in Senders, NEW id \in Ids, Send(t, id)
  PROVE  DriverInv'
<1>1. UNCHANGED <<bus_locked, todo, lateSends, twaiVars>> BY DEF Send
<1>2. at' = [at EXCEPT ![t] = [pc |-> "DoSend", id |-> id]] BY DEF Send
<1>3. at' \in [Senders -> [pc : {"out", "DoSend", "transmit"}, id : Ids \cup {0}]]
  BY <1>2 DEF DriverInv, DriverTypes
<1>4. Carries' BY <1>2 DEF DriverInv, DriverTypes, Carries
<1>5. QED BY <1>1, <1>3, <1>4 DEF DriverInv, DriverTypes, twaiVars, Frame

LEMMA DoSendTypes ==
  ASSUME DriverInv, NEW t \in Senders, DoSend(t)
  PROVE  DriverInv'
<1>1. UNCHANGED <<bus_locked, todo, lateSends, twaiVars>> BY DEF DoSend
<1>2. PICK to : at' = [at EXCEPT ![t] = to] /\ (to = Out \/ to = [at[t] EXCEPT !.pc = "transmit"])
  BY DEF DoSend
<1>3. to \in [pc : {"out", "DoSend", "transmit"}, id : Ids \cup {0}]
  BY <1>2, OutIsTyped DEF DriverInv, DriverTypes
<1>4. at' \in [Senders -> [pc : {"out", "DoSend", "transmit"}, id : Ids \cup {0}]]
  BY <1>2, <1>3 DEF DriverInv, DriverTypes
<1>5. to.pc # "out" => to.id \in Ids
  BY <1>2 DEF DriverInv, DriverTypes, Carries, Out, DoSend
<1>6. Carries' BY <1>2, <1>5 DEF DriverInv, DriverTypes, Carries
<1>7. QED BY <1>1, <1>4, <1>6 DEF DriverInv, DriverTypes, twaiVars, Frame

LEMMA TransmitTypes ==
  ASSUME DriverInv, NEW t \in Senders, Transmit(t)
  PROVE  DriverInv'
<1>1. UNCHANGED <<bus_locked, todo, controller, alerts, twaiRx, faults>> BY DEF Transmit
<1>2. at' = [at EXCEPT ![t] = Out] BY DEF Transmit
<1>3. at' \in [Senders -> [pc : {"out", "DoSend", "transmit"}, id : Ids \cup {0}]]
  BY <1>2, OutIsTyped DEF DriverInv, DriverTypes
<1>4. Carries' BY <1>2 DEF DriverInv, DriverTypes, Carries, Out
<1>5. lateSends' \in Nat BY DEF Transmit, DriverInv, DriverTypes
<1>6. at[t].id \in Ids BY DEF Transmit, DriverInv, Carries
<1>7. twaiTx' \in Seq(Ids) /\ Len(twaiTx') <= TxSlots
  <2>1. twaiTx \in Seq(Ids) /\ Len(twaiTx) <= TxSlots BY DEF DriverInv, DriverTypes
  <2>2. CASE controller = "running" /\ Len(twaiTx) < TxSlots
    <3>1. twaiTx' = Append(twaiTx, at[t].id) BY <2>2 DEF Transmit
    <3>2. twaiTx' \in Seq(Ids) /\ Len(twaiTx') = Len(twaiTx) + 1 BY <1>6, <2>1, <3>1
    <3>3. QED BY <2>1, <2>2, <3>2, CanAssumption
  <2>3. CASE ~(controller = "running" /\ Len(twaiTx) < TxSlots)
    BY <2>1, <2>3 DEF Transmit
  <2>4. QED BY <2>2, <2>3
<1>8. QED BY <1>1, <1>3, <1>4, <1>5, <1>7 DEF DriverInv, DriverTypes, Frame

LEMMA AlertLoopTypes ==
  ASSUME DriverInv, AlertLoop
  PROVE  DriverInv'
<1>1. CASE AlertRead
  BY <1>1 DEF AlertRead, DriverInv, DriverTypes, Carries, Alerts, Frame
<1>2. CASE TxFailed
  BY <1>2 DEF TxFailed, DriverInv, DriverTypes, Carries, twaiVars, Frame
<1>3. CASE BusRecovered
  BY <1>3 DEF BusRecovered, DriverInv, DriverTypes, Carries, Frame
<1>4. CASE BusOff
  <2>1. twaiTx' \in Seq(Ids) /\ Len(twaiTx') <= TxSlots
    <3>1. twaiTx \in Seq(Ids) /\ Len(twaiTx) <= TxSlots BY DEF DriverInv, DriverTypes
    <3>2. twaiTx' = twaiTx \/ twaiTx' = <<>> BY <1>4 DEF BusOff
    <3>3. <<>> \in Seq(Ids) /\ Len(<<>>) = 0 /\ 0 <= TxSlots BY CanAssumption
    <3>4. QED BY <3>1, <3>2, <3>3
  <2>2. QED BY <1>4, <2>1 DEF BusOff, DriverInv, DriverTypes, Carries, Frame
<1>5. QED BY <1>1, <1>2, <1>3, <1>4 DEF AlertLoop

LEMMA MessageWatcherTypes ==
  ASSUME DriverInv, MessageWatcher
  PROVE  DriverInv'
<1>1. twaiRx' \in Seq(Frame) /\ Len(twaiRx') <= RxSlots
  <2>1. twaiRx \in Seq(Frame) /\ Len(twaiRx) <= RxSlots BY DEF DriverInv, DriverTypes
  <2>2. twaiRx # <<>> /\ twaiRx' = Tail(twaiRx) BY DEF MessageWatcher
  <2>3. twaiRx' \in Seq(Frame) /\ Len(twaiRx') = Len(twaiRx) - 1
    BY <2>1, <2>2, TakenFromQueue
  <2>4. QED BY <2>1, <2>3, CanAssumption
<1>2. QED BY <1>1 DEF MessageWatcher, DriverInv, DriverTypes, Carries, Frame

LEMMA BusTypes ==
  ASSUME DriverInv, TransmissionFails \/ GoesOff \/ Recovers
  PROVE  DriverInv'
<1>1. CASE TransmissionFails
  <2>1. twaiTx \in Seq(Ids) /\ Len(twaiTx) <= TxSlots BY DEF DriverInv, DriverTypes
  <2>2. twaiTx' \in Seq(Ids) /\ Len(twaiTx') = Len(twaiTx) - 1
    BY <1>1, <2>1, TakenFromQueue DEF TransmissionFails
  <2>3. Len(twaiTx') <= TxSlots BY <2>1, <2>2, CanAssumption
  <2>4. faults' \in 0..MaxFaults
    BY <1>1, CanAssumption DEF TransmissionFails, DriverInv, DriverTypes
  <2>5. QED
    BY <1>1, <2>2, <2>3, <2>4
    DEF TransmissionFails, DriverInv, DriverTypes, Carries, Alerts, Frame
<1>2. CASE GoesOff
  <2>1. faults' \in 0..MaxFaults
    BY <1>2, CanAssumption DEF GoesOff, DriverInv, DriverTypes
  <2>2. alerts' \in SUBSET Alerts
    BY <1>2 DEF GoesOff, DriverInv, DriverTypes, Alerts
  <2>3. QED
    BY <1>2, <2>1, <2>2 DEF GoesOff, DriverInv, DriverTypes, Carries, Frame
<1>3. CASE Recovers
  BY <1>3 DEF Recovers, DriverInv, DriverTypes, Carries, Alerts, Frame
<1>4. QED BY <1>1, <1>2, <1>3

LEMMA SameDriver ==
  ASSUME DriverInv, UNCHANGED driverVars
  PROVE  DriverInv'
BY DEF DriverInv, DriverTypes, Carries, driverVars, twaiVars, Frame

-----------------------------------------------------------------------------
(* Both, over the bus.                                                     *)

LEMMA FrameToRobotStep ==
  ASSUME LinkInv, FrameToRobot
  PROVE  LinkInv'
<1>1. DriverInv /\ DcanInv BY DEF LinkInv
<1>2. DcanInv' BY <1>1, OnRxStep DEF FrameToRobot
<1>3. twaiTx \in Seq(Ids) /\ Len(twaiTx) <= TxSlots BY <1>1 DEF DriverInv, DriverTypes
<1>4. twaiTx' \in Seq(Ids) /\ Len(twaiTx') = Len(twaiTx) - 1
  BY <1>3, TakenFromQueue DEF FrameToRobot
<1>5. Len(twaiTx') <= TxSlots BY <1>3, <1>4, CanAssumption
<1>6. twaiRx \in Seq(Frame) /\ Len(twaiRx) <= RxSlots BY <1>1 DEF DriverInv, DriverTypes
<1>7. twaiRx' \in Seq(Frame) /\ Len(twaiRx') <= RxSlots
  <2>1. CASE Answer(Head(twaiTx)) = <<>> BY <1>6, <2>1 DEF FrameToRobot
  <2>2. CASE Answer(Head(twaiTx)) # <<>>
    <3>1. Answer(Head(twaiTx))[1] \in Frame BY <2>2 DEF Answer, Frame
    <3>2. QED BY <1>6, <2>2, <3>1, HeardIsQueued DEF FrameToRobot
  <2>3. QED BY <2>1, <2>2
<1>8. DriverInv'
  BY <1>1, <1>4, <1>5, <1>7 DEF FrameToRobot, DriverInv, DriverTypes, Carries, Frame
<1>9. QED BY <1>2, <1>8 DEF LinkInv

LEMMA ReportStep ==
  ASSUME LinkInv, Report
  PROVE  LinkInv'
<1>1. DriverInv /\ DcanInv BY DEF LinkInv
<1>2. DcanInv' BY <1>1, SameDcan DEF Report
<1>3. 252 \in Frame BY DEF Frame
<1>4. twaiRx' \in Seq(Frame) /\ Len(twaiRx') <= RxSlots
  BY <1>1, <1>3, HeardIsQueued DEF Report, DriverInv, DriverTypes
<1>5. DriverInv' BY <1>1, <1>4 DEF Report, DriverInv, DriverTypes, Carries, Frame
<1>6. QED BY <1>2, <1>5 DEF LinkInv

LEMMA StepLink == LinkInv /\ [Next]_vars => LinkInv'
<1>1. SUFFICES ASSUME LinkInv, [Next]_vars PROVE LinkInv'
  OBVIOUS
<1>2. DriverInv /\ DcanInv BY <1>1 DEF LinkInv
<1>3. CASE FrameToRobot BY <1>1, <1>3, FrameToRobotStep
<1>4. CASE Report BY <1>1, <1>4, ReportStep
<1>5. CASE Driver
  <2>1. DcanInv' BY <1>2, <1>5, SameDcan DEF Driver
  <2>2. DriverInv'
    BY <1>2, <1>5, SendTypes, DoSendTypes, TransmitTypes, AlertLoopTypes,
       MessageWatcherTypes, BusTypes DEF Driver
  <2>3. QED BY <2>1, <2>2 DEF LinkInv
<1>6. CASE Robot
  <2>1. DriverInv' BY <1>2, <1>6, SameDriver DEF Robot
  <2>2. DcanInv' BY <1>2, <1>6, IdleReadStep, IdleCompareStep, TimePassesStep DEF Robot
  <2>3. QED BY <2>1, <2>2 DEF LinkInv
<1>7. CASE UNCHANGED vars BY <1>2, <1>7, SameDriver, SameDcan DEF vars, LinkInv
<1>8. QED BY <1>1, <1>3, <1>4, <1>5, <1>6, <1>7 DEF Next

(***************************************************************************)
(* Every variable of the driver and of the robot has its type, and a peer  *)
(* that has been heard in time ever since is never reported lost, whatever *)
(* thread sends what, whatever the bus does to the frames, and on whatever *)
(* timer the robot runs.                                                   *)
(***************************************************************************)
THEOREM NeverFalselyLost == Spec => []NoFalseLoss
<1>1. LinkInv => NoFalseLoss
  BY DEF LinkInv, DriverInv, DcanInv, DriverTypes, DcanTypes, NoFalseLoss, TypeOK
<1>2. QED BY InitLink, StepLink, <1>1, PTL DEF Spec
=============================================================================
