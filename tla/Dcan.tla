-------------------------------- MODULE Dcan --------------------------------
(***************************************************************************)
(* DistributedCAN with its modules (dcan.cpp, can_module.hpp) on a robot   *)
(* whose CANBase calls its idle callbacks: SimpleCAN (simple_can.hpp) is   *)
(* the one in the library, and is built for mbed.                          *)
(*                                                                         *)
(* The receive interrupt resets the keep-alive timer and answers pings;    *)
(* the idle thread reads the timer every 10 ms and then reports the keep-  *)
(* alive lost or recovered.  Time goes in steps of 100 ms.                 *)
(***************************************************************************)
EXTENDS Integers, Sequences

CONSTANTS DeviceId,
          Timers      \* the Timer::Impl the robot may be linked with

ASSUME DcanAssumption == DeviceId \in 0..15 /\ Timers \subseteq {"mbed", "idf", "mock"}

Limit == 3        \* 300ms
Never == Limit + 1

VARIABLES
  timer,                 \* in Timers
  silence,               \* steps since the timer's last Reset, up to Never (history)
  keep_alive_available,
  idle,                  \* what the idle thread does, and the time it read
  idled,                 \* it ran since time went on
  reported,              \* the last report to the application
  fed                    \* since the first Reset or boot, all came in time (history)

dcanVars == <<timer, silence, keep_alive_available, idle, idled, reported, fed>>

DcanInit ==
  /\ timer \in Timers
  /\ silence \in IF timer = "idf" THEN {0, Never} ELSE {Never}   \* idf: since boot, just
                                       \* now or long ago
  /\ keep_alive_available = FALSE
  /\ idle = [pc |-> "sleep", read |-> 0] /\ idled = FALSE
  /\ reported = "nothing" /\ fed = TRUE

-----------------------------------------------------------------------------
\* cid & mask, for the two masks in use.
Masked(cid, mask) == IF mask = 2047 THEN cid % 2048 ELSE (cid % 2048) - (cid % 16)

Acceptable(mask, id, cid) == Masked(cid, mask) = id

KeepAliveId == 1344    \* 0x540
PingId == 1328         \* 0x530

\* The answers sent while a frame is received: the pong, 0x81 + device id.
Answer(cid) == IF Acceptable(2032, PingId, cid) THEN <<129 + DeviceId>> ELSE <<>>

OnRx(cid) ==
  /\ silence' = IF Acceptable(2047, KeepAliveId, cid) THEN 0 ELSE silence
  /\ UNCHANGED <<timer, keep_alive_available, idle, idled, reported, fed>>

\* slip: the timer is never started, on no platform
SlipElapsedTime == 0

\* The mbed timer stands still until Start, which nobody calls; the others
\* count from the last Reset.
ElapsedTime == IF timer = "mbed" THEN 0 ELSE silence

IdleRead ==
  /\ idle.pc = "sleep" /\ ~idled
  /\ idle' = [pc |-> "compare", read |-> ElapsedTime]
  /\ UNCHANGED <<timer, silence, keep_alive_available, idled, reported, fed>>

\* slip: a keep-alive that never was is lost, too
SlipLost == Limit < idle.read

Lost == keep_alive_available /\ Limit < idle.read
Recovered == ~keep_alive_available /\ idle.read < Limit

IdleCompare ==
  /\ idle.pc = "compare"
  /\ idle' = [pc |-> "sleep", read |-> 0] /\ idled' = TRUE
  /\ \/ /\ Lost
        /\ keep_alive_available' = FALSE /\ reported' = "lost"
     \/ /\ ~Lost /\ Recovered
        /\ keep_alive_available' = TRUE /\ reported' = "recovered"
     \/ ~Lost /\ ~Recovered /\ UNCHANGED <<keep_alive_available, reported>>
  /\ UNCHANGED <<timer, silence, fed>>

\* 100 ms, in which the idle thread has run.
TimePasses ==
  /\ idled
  /\ idled' = FALSE
  /\ silence' = IF silence < Never THEN silence + 1 ELSE Never
  /\ fed' = (fed /\ (silence = Never \/ silence' < Limit))
  /\ UNCHANGED <<timer, keep_alive_available, idle, reported>>

-----------------------------------------------------------------------------
(***************************************************************************)
(* A peer that sends its keep-alives less than 300 ms apart is never       *)
(* reported lost (libs/README.md), though the idle thread compares a time  *)
(* that the receive interrupt may have reset since it was read.            *)
(***************************************************************************)
FedNeverLost == fed => reported # "lost"

(***************************************************************************)
(* With this packet at intervals below 300 ms a lost connection can be     *)
(* detected (libs/README.md:51-52): a peer that was there and falls silent *)
(* is reported lost, unless it comes back in time.                         *)
(***************************************************************************)
LossDetected ==
  keep_alive_available /\ silence = Never ~> reported = "lost" \/ silence < Never
=============================================================================
