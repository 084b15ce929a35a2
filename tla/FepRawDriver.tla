---------------------------- MODULE FepRawDriver ----------------------------
(***************************************************************************)
(* FEP_RawDriver (fep_raw_driver.cpp): commands to the radio modem and the *)
(* packets that come back, over one serial line.                           *)
(*                                                                         *)
(* Three kinds of thread share the driver's state: the callers of its      *)
(* methods, the thread that runs the receive callback of the serial port   *)
(* (RxProcessor and the dispatch switch of the constructor), and           *)
(* fep_thread_, which hands queued packets to the layer above.  state_ is  *)
(* a plain variable all of them write.  A result carries no command        *)
(* number; the field cmd below is history the code cannot see.             *)
(***************************************************************************)
EXTENDS Integers, Sequences, FiniteSets

CONSTANTS Caller,       \* threads that call the driver
          Op,           \* the commands they issue
          MaxCmds,      \* bound: commands written in a behaviour
          MaxData,      \* bound: data packets made in a behaviour
          ErrorCodes,   \* bound: the values an error result carries
          MaxDamage,    \* bound: packets the line drops or tears
          ResultSlots, LineSlots, RxSlots,   \* capacities of the three queues
          Links         \* what the link may be: subset of {"reliable", "lossy"}

Ops == {"Send", "SetRegister", "GetRegister", "Reset", "ResetNoResult",
        "InitAllRegister", "Version"}

ASSUME ConstantsAssumption ==
  /\ MaxCmds \in Nat /\ MaxData \in Nat /\ MaxDamage \in Nat
  /\ ResultSlots \in Nat \ {0} /\ LineSlots \in Nat \ {0} /\ RxSlots \in Nat \ {0}
  /\ ErrorCodes \subseteq 0..2
  /\ Links \subseteq {"reliable", "lossy"}
  /\ Op \subseteq Ops

VARIABLES
  serial,        \* "reliable": no byte is lost, no answer late
  state_,        \* kIdle or kProcessing
  rx_enabled,    \* dispatch radio packets at once, or queue them
  result_queue_, line_queue_, rx_queue_,
  call,          \* each caller's current or last call
  issued,        \* commands written so far (history)
  modem,         \* commands the modem has not answered completely
  radio,         \* data packets so far, made-up ones included (history)
  inbound,       \* packets on their way from the modem
  damaged,       \* packets the line has dropped or torn
  uart,          \* progress of the receive thread in the packet at hand
  drain, hand,   \* progress of fep_thread_, the packet it popped
  held,          \* history: packets that have been in rx_queue_
  delivered,     \* packets dispatched to the layer above, in order
  repeated,      \* what was dispatched out of a stale slot, in order
  lost,          \* packets dropped by the line, a full queue or a flush
  flushes,       \* history: how often ResetNoResult has cleared the queues
  underflow      \* history: Pop was called on an empty queue

queues == <<result_queue_, line_queue_, rx_queue_>>
link == <<modem, radio, inbound, damaged, uart>>
upper == <<drain, hand, held, delivered, repeated, lost, flushes>>
vars == <<serial, state_, rx_enabled, queues, call, issued, link, upper, underflow>>

(***************************************************************************)
(* A call: where the caller is, what it executes, under which number it    *)
(* was written, what it read for it, and what it returned.  "ResetInSend"  *)
(* is the reset Send does after an unexpected failure.                     *)
(***************************************************************************)
PC == {"out", "wait", "acquire", "release", "result", "popResult", "line",
       "popLine", "flush"}
Outcome == {"none", "kNoError", "kTimeout", "kInvalidResponse", "kRxOverflow",
            "kInvalidCommand", "value", "error", "void"}

TheResult(r, n) == [type |-> "kResult", cmd |-> n, ok |-> r.ok, value |-> r.value]
TheLine(n) == [type |-> "kLine", cmd |-> n]
TheData(d) == [type |-> "kData", id |-> d]
P0 == [ok |-> TRUE, value |-> 0]
Err(v) == [ok |-> FALSE, value |-> v]
AnyResult == {P0} \cup {Err(v) : v \in ErrorCodes}

Init ==
  /\ serial \in Links
  /\ state_ = "kIdle"
  /\ rx_enabled = TRUE
  /\ result_queue_ = <<>> /\ line_queue_ = <<>> /\ rx_queue_ = <<>>
  /\ call = [c \in Caller |-> [pc |-> "out", op |-> "none", cmd |-> 0,
                               heard |-> <<>>, out |-> "none"]]
  /\ issued = 0
  /\ modem = <<>> /\ radio = 0 /\ inbound = <<>> /\ damaged = 0 /\ uart = "none"
  /\ drain = "idle" /\ hand = 0
  /\ held = {} /\ delivered = <<>> /\ repeated = <<>>
  /\ lost = {} /\ flushes = 0
  /\ underflow = FALSE

-----------------------------------------------------------------------------
(***************************************************************************)
(* The caller's side.  On a reliable link a wait runs out only when        *)
(* nothing is on its way any more.                                         *)
(***************************************************************************)
At(c, where) == call[c].pc = where
Go(c, where) == call' = [call EXCEPT ![c].pc = where]
Return(c, out) == call' = [call EXCEPT ![c].pc = "out", ![c].out = out]
\* slip: a Send that gives up does not free the driver
SlipSendStaysBusy(c) == UNCHANGED state_

OnlySendIdles(c) == state_' = IF call[c].op = "Send" THEN "kIdle" ELSE state_

TimeoutMayFire == serial = "lossy" \/ (modem = <<>> /\ inbound = <<>> /\ uart = "none")

Call(c, o) ==
  /\ At(c, "out") /\ issued < MaxCmds
  /\ call' = [call EXCEPT ![c] = [pc |-> "wait", op |-> o, cmd |-> 0,
                                  heard |-> <<>>, out |-> "none"]]
  /\ UNCHANGED <<state_, rx_enabled, queues, issued, link, upper, underflow>>

(***************************************************************************)
(* WaitForState(kIdle), ReadResult and ReadLine wait for different things  *)
(* in the same way: look until it is there, or until the time is up.  What *)
(* was seen is acted upon (state_ assigned, the queue popped) in a later   *)
(* step.                                                                   *)
(***************************************************************************)
Waits == {"wait", "result", "line"}

WaitedFor(c) ==
  CASE At(c, "wait")   -> state_ = "kIdle"
    [] At(c, "result") -> result_queue_ # <<>>
    [] At(c, "line")   -> line_queue_ # <<>>

See(c) ==
  /\ call[c].pc \in Waits /\ WaitedFor(c)
  /\ Go(c, CASE At(c, "wait")   -> "acquire"
             [] At(c, "result") -> "popResult"
             [] At(c, "line")   -> "popLine")
  /\ UNCHANGED <<state_, rx_enabled, queues, issued, link, upper, underflow>>

\* slip: the second of Send's two reads has no timeout
SlipSecondReadWaits(c) ==
  /\ call[c].pc \in Waits /\ ~WaitedFor(c) /\ TimeoutMayFire
  /\ call[c].heard = <<>>
  /\ OnlySendIdles(c)
  /\ Return(c, "error")
  /\ UNCHANGED <<rx_enabled, queues, issued, link, upper, underflow>>

\* Only Send resets state_ when a wait runs out: GetRegister, for one,
\* returns with state_ still kProcessing.
TimeOut(c) ==
  /\ call[c].pc \in Waits /\ ~WaitedFor(c) /\ TimeoutMayFire
  /\ OnlySendIdles(c)
  /\ Return(c, CASE call[c].op = "Send" -> IF At(c, "wait") THEN "kTimeout"
                                           ELSE "kInvalidResponse"
                 [] call[c].op = "ResetInSend" -> "kInvalidResponse"
                 [] call[c].op = "ResetNoResult" -> "void"
                 [] OTHER -> "error")
  /\ UNCHANGED <<rx_enabled, queues, issued, link, upper, underflow>>

\* state_ = kProcessing, then the command is written.
Acquire(c) ==
  /\ At(c, "acquire")
  /\ state_' = "kProcessing"
  /\ issued' = issued + 1
  /\ modem' = Append(modem, [cmd |-> issued', op |-> call[c].op, stage |-> 1])
  /\ call' = [call EXCEPT ![c].cmd = issued',
                          ![c].pc = CASE call[c].op = "Send" -> "result"
                                      [] call[c].op = "GetRegister" -> "line"
                                      [] OTHER -> "release"]
  /\ UNCHANGED <<rx_enabled, queues, radio, inbound, damaged, uart, upper, underflow>>

\* Every command but Send and GetRegister frees the driver before it reads
\* its answer.
Release(c) ==
  /\ At(c, "release")
  /\ state_' = "kIdle"
  /\ Go(c, CASE call[c].op = "Version" -> "line"
             [] call[c].op = "ResetNoResult" -> "flush"
             [] OTHER -> "result")
  /\ UNCHANGED <<rx_enabled, queues, issued, link, upper, underflow>>

\* slip: the confirmation of the command is taken for that of the transmission
SlipFirstOkIsNoError(c, r) ==
  CASE call[c].op = "ResetInSend"             -> "kInvalidCommand"
    [] call[c].op \notin {"Send", "ResetInSend"} -> "value"
    [] call[c].op = "Send" /\ r.ok            -> "kNoError"
    [] OTHER                                  -> "kInvalidResponse"

\* Send's second result; an unexpected one makes it reset the modem.
Transmitted(r) ==
  CASE r.ok                    -> "kNoError"
    [] ~r.ok /\ r.value = 1    -> "kTimeout"
    [] ~r.ok /\ r.value = 2    -> "kRxOverflow"
    [] OTHER                   -> "reset"

(***************************************************************************)
(* What a result means to the call that reads it.  Send reads two, unless  *)
(* the first says the command was refused.                                 *)
(***************************************************************************)
Interpret(c, r) ==
  CASE call[c].op = "ResetInSend"             -> "kInvalidCommand"
    [] call[c].op \notin {"Send", "ResetInSend"} -> "value"
    [] OTHER -> IF call[c].heard = <<>>
                THEN IF r.ok THEN "more" ELSE "kInvalidResponse"
                ELSE Transmitted(r)

\* The queue may be empty by now: another caller took the result after
\* See.  Pop then returns what the slot holds.
PopResult(c) ==
  /\ At(c, "popResult")
  /\ \E r \in IF result_queue_ = <<>>
              THEN {TheResult(x, 0) : x \in AnyResult}
              ELSE {Head(result_queue_)} :
       LET what == Interpret(c, r)
           read == [call[c] EXCEPT !.heard = Append(@, r)]
       IN  /\ call' = [call EXCEPT ![c] =
                CASE what = "more"  -> [read EXCEPT !.pc = "result"]
                  [] what = "reset" -> [read EXCEPT !.pc = "wait", !.heard = <<>>,
                                                    !.op = "ResetInSend"]
                  [] OTHER          -> [read EXCEPT !.pc = "out", !.out = what]]
           /\ IF what = "more" THEN UNCHANGED state_ ELSE OnlySendIdles(c)
  /\ result_queue_' = IF result_queue_ = <<>> THEN <<>> ELSE Tail(result_queue_)
  /\ underflow' = (underflow \/ result_queue_ = <<>>)
  /\ UNCHANGED <<rx_enabled, line_queue_, rx_queue_, issued, link, upper>>

PopLine(c) ==
  /\ At(c, "popLine")
  /\ LET l == IF line_queue_ = <<>> THEN TheLine(0) ELSE Head(line_queue_)
     IN  call' = [call EXCEPT ![c].pc = "out", ![c].out = "value",
                              ![c].heard = <<l>>]
  /\ state_' = IF call[c].op = "GetRegister" THEN "kIdle" ELSE state_
  /\ line_queue_' = IF line_queue_ = <<>> THEN <<>> ELSE Tail(line_queue_)
  /\ underflow' = (underflow \/ line_queue_ = <<>>)
  /\ UNCHANGED <<rx_enabled, result_queue_, rx_queue_, issued, link, upper>>

\* FlushQueue, 500 ms after the reset, whatever has come back by then.
FlushQueue(c) ==
  /\ At(c, "flush") /\ TimeoutMayFire
  /\ Return(c, "void")
  /\ result_queue_' = <<>> /\ line_queue_' = <<>> /\ rx_queue_' = <<>>
  /\ lost' = lost \cup {rx_queue_[i] : i \in DOMAIN rx_queue_}
  /\ flushes' = flushes + 1
  /\ UNCHANGED <<state_, rx_enabled, issued, link, drain, hand, held, delivered,
                 repeated, underflow>>

\* A caller between two commands turns dispatching off or on.  (Without
\* radio packets in the instance it would change nothing.)
SetDispatchRX(c) ==
  /\ At(c, "out") /\ MaxData > 0
  /\ rx_enabled' = ~rx_enabled
  /\ UNCHANGED <<state_, queues, call, issued, link, upper, underflow>>

CallerStep(c) ==
  \/ See(c) \/ TimeOut(c) \/ Acquire(c) \/ Release(c)
  \/ PopResult(c) \/ PopLine(c) \/ FlushQueue(c)

-----------------------------------------------------------------------------
(***************************************************************************)
(* The modem takes commands in order.  It answers @TBN twice, for the      *)
(* command and for the transmission, @REG and @VER with a line, the others *)
(* with one result.                                                        *)
(***************************************************************************)
Answers(m) ==
  CASE m.op \in {"GetRegister", "Version"} -> {TheLine(m.cmd)}
    [] m.op = "Send" /\ m.stage = 2 ->
         {TheResult(r, m.cmd) : r \in AnyResult}
    [] OTHER -> {TheResult(r, m.cmd) : r \in {P0, Err(0)}}

ModemAnswers ==
  /\ modem # <<>>
  /\ \E a \in Answers(Head(modem)) :
       /\ inbound' = Append(inbound, a)
       /\ modem' = IF Head(modem).op = "Send" /\ Head(modem).stage = 1 /\ a.ok
                   THEN [modem EXCEPT ![1].stage = 2] ELSE Tail(modem)
  /\ UNCHANGED <<state_, rx_enabled, queues, call, issued, radio, damaged, uart,
                 upper, underflow>>

RadioPacket ==
  /\ radio < MaxData
  /\ radio' = radio + 1
  /\ inbound' = Append(inbound, TheData(radio'))
  /\ UNCHANGED <<state_, rx_enabled, queues, call, issued, modem, damaged, uart,
                 upper, underflow>>

DataIn(p) == IF p.type = "kData" THEN {p.id} ELSE {}

(***************************************************************************)
(* The serial line loses bytes.  Of a packet the parser has not begun it   *)
(* loses all, or the parser begins with what is left; of one it has begun, *)
(* a part: the parser stays inside it, and takes what follows for its      *)
(* rest.                                                                   *)
(***************************************************************************)
LineLoses ==
  /\ serial = "lossy" /\ uart # "dispatched" /\ inbound # <<>>
  /\ \/ uart = "torn" /\ UNCHANGED damaged
     \/ uart # "torn" /\ damaged < MaxDamage /\ damaged' = damaged + 1
  /\ inbound' = Tail(inbound)
  /\ uart' = IF uart = "none" THEN "none" ELSE "torn"
  /\ lost' = lost \cup DataIn(Head(inbound))
  /\ UNCHANGED <<state_, rx_enabled, queues, call, issued, modem, radio, drain, hand,
                 held, delivered, repeated, flushes, underflow>>

-----------------------------------------------------------------------------
(***************************************************************************)
(* The receive thread: EnterProcessing, the packet, ExitProcessing.        *)
(***************************************************************************)
RxEnter ==
  /\ uart = "none" /\ inbound # <<>>
  /\ uart' = "entered"
  /\ state_' = "kProcessing"
  /\ UNCHANGED <<rx_enabled, queues, call, issued, modem, radio, inbound, damaged,
                 upper, underflow>>

Push(q, slots, x) == IF Len(q) < slots THEN Append(q, x) ELSE q

\* slip: what arrives while dispatching is off is thrown away
SlipDataNotQueued(d) ==
  IF rx_enabled
  THEN delivered' = Append(delivered, d) /\ UNCHANGED <<rx_queue_, held, lost>>
  ELSE UNCHANGED <<rx_queue_, held, delivered, lost>>

DispatchData(d) ==
  \/ /\ rx_enabled
     /\ delivered' = Append(delivered, d)
     /\ UNCHANGED <<rx_queue_, held, lost>>
  \/ /\ ~rx_enabled /\ Len(rx_queue_) < RxSlots
     /\ rx_queue_' = Append(rx_queue_, d)
     /\ held' = held \cup {d}
     /\ UNCHANGED <<delivered, lost>>
  \/ /\ ~rx_enabled /\ Len(rx_queue_) >= RxSlots
     /\ lost' = lost \cup {d}
     /\ UNCHANGED <<rx_queue_, held, delivered>>

Dispatch(p) ==
  /\ \/ /\ p.type = "kData"
        /\ DispatchData(p.id)
        /\ UNCHANGED <<result_queue_, line_queue_>>
     \/ /\ p.type = "kResult"
        /\ result_queue_' = Push(result_queue_, ResultSlots, p)
        /\ UNCHANGED <<line_queue_, rx_queue_, held, delivered, lost>>
     \/ /\ p.type = "kLine"
        /\ line_queue_' = Push(line_queue_, LineSlots, p)
        /\ UNCHANGED <<result_queue_, rx_queue_, held, delivered, lost>>
  /\ UNCHANGED <<state_, rx_enabled, call, issued, modem, damaged, drain, hand,
                 repeated, flushes, underflow>>

RxDispatch ==
  /\ uart = "entered"
  /\ uart' = "dispatched"
  /\ inbound' = Tail(inbound)
  /\ Dispatch(Head(inbound))
  /\ UNCHANGED radio

(***************************************************************************)
(* What is left of a torn packet, and of those that followed it, may look  *)
(* like a packet the modem never sent.                                     *)
(***************************************************************************)
MadeUp == {TheResult(x, 0) : x \in AnyResult} \cup {TheLine(0)}
            \cup (IF radio < MaxData THEN {TheData(radio + 1)} ELSE {})

MakeUp ==
  /\ uart = "torn"
  /\ uart' = "dispatched"
  /\ \E p \in MadeUp :
       /\ Dispatch(p)
       /\ radio' = IF p.type = "kData" THEN p.id ELSE radio
  /\ UNCHANGED inbound

RxExit ==
  /\ uart = "dispatched"
  /\ uart' = "none"
  /\ state_' = "kIdle"
  /\ UNCHANGED <<rx_enabled, queues, call, issued, modem, radio, inbound, damaged,
                 upper, underflow>>

RxStep == RxEnter \/ RxDispatch \/ RxExit

(***************************************************************************)
(* fep_thread_: the tests, Pop and the dispatch are three steps.           *)
(***************************************************************************)
\* slip: fep_thread_ pops without looking whether there is a packet
SlipDrainUnchecked ==
  /\ drain = "idle" /\ rx_enabled
  /\ drain' = "popping"
  /\ UNCHANGED <<state_, rx_enabled, queues, call, issued, link, hand, held,
                 delivered, repeated, lost, flushes, underflow>>

DrainCheck ==
  /\ drain = "idle" /\ rx_enabled /\ rx_queue_ # <<>>
  /\ drain' = "popping"
  /\ UNCHANGED <<state_, rx_enabled, queues, call, issued, link, hand, held,
                 delivered, repeated, lost, flushes, underflow>>

(***************************************************************************)
(* A flush may have emptied the queue in between.  Pop then returns what   *)
(* its slot holds: a packet that was in the queue before, or none.         *)
(***************************************************************************)
DrainPop ==
  /\ drain = "popping"
  /\ \/ /\ rx_queue_ # <<>>
        /\ drain' = "holding" /\ hand' = Head(rx_queue_)
        /\ rx_queue_' = Tail(rx_queue_)
        /\ UNCHANGED underflow
     \/ /\ rx_queue_ = <<>>
        /\ drain' = "holdingStale" /\ hand' \in held \cup {0}
        /\ underflow' = TRUE
        /\ UNCHANGED rx_queue_
  /\ UNCHANGED <<state_, rx_enabled, result_queue_, line_queue_, call, issued, link,
                 held, delivered, repeated, lost, flushes>>

DrainDispatch ==
  /\ \/ /\ drain = "holding"
        /\ delivered' = Append(delivered, hand)
        /\ UNCHANGED repeated
     \/ /\ drain = "holdingStale"
        /\ repeated' = Append(repeated, hand)
        /\ UNCHANGED delivered
  /\ drain' = "idle"
  /\ UNCHANGED <<state_, rx_enabled, queues, call, issued, link, hand, held, lost,
                 flushes, underflow>>

DrainStep == DrainCheck \/ DrainPop \/ DrainDispatch

-----------------------------------------------------------------------------
Next ==
  /\ \/ \E c \in Caller : CallerStep(c) \/ SetDispatchRX(c) \/ \E o \in Op : Call(c, o)
     \/ ModemAnswers \/ RadioPacket \/ LineLoses
     \/ RxStep \/ MakeUp \/ DrainStep
  /\ UNCHANGED serial

Spec == Init /\ [][Next]_vars

(***************************************************************************)
(* Callers and the receive thread are scheduled; a wait that can run out   *)
(* does.  The modem owes nothing, and a torn packet may stay torn.         *)
(***************************************************************************)
FairSpec == /\ Spec
            /\ WF_vars(RxStep /\ UNCHANGED serial)
            /\ \A c \in Caller : WF_vars(CallerStep(c) /\ UNCHANGED serial)

-----------------------------------------------------------------------------
Result == [type : {"kResult"}, cmd : Nat, ok : BOOLEAN, value : 0..2]
TextLine == [type : {"kLine"}, cmd : Nat]
RadioData == [type : {"kData"}, id : Nat]

\* Every variable has its type and the three queues keep their capacities.
TypeOK ==
  /\ serial \in Links
  /\ state_ \in {"kIdle", "kProcessing"}
  /\ rx_enabled \in BOOLEAN
  /\ result_queue_ \in Seq(Result) /\ Len(result_queue_) <= ResultSlots
  /\ line_queue_ \in Seq(TextLine) /\ Len(line_queue_) <= LineSlots
  /\ rx_queue_ \in Seq(Nat) /\ Len(rx_queue_) <= RxSlots
  /\ call \in [Caller -> [pc : PC, op : Ops \cup {"none", "ResetInSend"}, cmd : Nat,
                         heard : Seq(Result \cup TextLine), out : Outcome]]
  /\ issued \in Nat
  /\ modem \in Seq([cmd : Nat, op : Ops \cup {"ResetInSend"}, stage : 1..2])
  /\ radio \in Nat
  /\ inbound \in Seq(Result \cup TextLine \cup RadioData)
  /\ damaged \in Nat
  /\ uart \in {"none", "entered", "torn", "dispatched"}
  /\ drain \in {"idle", "popping", "holding", "holdingStale"}
  /\ hand \in Nat
  /\ held \subseteq Nat
  /\ delivered \in Seq(Nat) /\ repeated \in Seq(Nat)
  /\ lost \subseteq Nat
  /\ flushes \in Nat /\ underflow \in BOOLEAN

SoleCaller == \A c, d \in Caller : c = d

(***************************************************************************)
(* With one caller and answers within their timeouts, a call that has      *)
(* returned read nothing but the answers to its own command, and Send says *)
(* kNoError exactly when the modem confirmed command and transmission:     *)
(* no result is left behind for the next call to mistake for its own.      *)
(***************************************************************************)
OutcomeIsOwn ==
  SoleCaller /\ serial = "reliable" => \A c \in Caller :
    At(c, "out") =>
      LET k == call[c]
      IN  /\ \A i \in DOMAIN k.heard : k.heard[i].cmd = k.cmd
          /\ k.out # "error"
          /\ k.op = "Send" =>
               (k.out = "kNoError" <=> /\ Len(k.heard) = 2
                                       /\ \A i \in 1..2 : k.heard[i].ok)

Elements(q) == {q[i] : i \in DOMAIN q}
OnTheWire == {p.id : p \in {x \in Elements(inbound) : x.type = "kData"}}
InHand == IF drain = "holding" THEN {hand} ELSE {}

(***************************************************************************)
(* A data packet is in exactly one place: on the wire, queued, held by     *)
(* fep_thread_, delivered once, or given up by the line, a full queue or a *)
(* flush; whatever callers, timeouts and SetDispatchRX do meanwhile.       *)
(***************************************************************************)
OnePlaceEach ==
  /\ 1..radio = UNION {OnTheWire, Elements(rx_queue_), InHand,
                       Elements(delivered), lost}
  /\ radio = Cardinality(OnTheWire) + Len(rx_queue_) + Cardinality(InHand)
              + Len(delivered) + Cardinality(lost)

(***************************************************************************)
(* What fep_thread_ dispatches a second time it owes to a flush under its  *)
(* feet: at most one packet for each, and one that was delivered or given  *)
(* up before, or that never was.                                           *)
(***************************************************************************)
StaleInHand == IF drain = "holdingStale" THEN {hand} ELSE {}

RepeatsAreFlushed ==
  /\ Len(repeated) + Cardinality(StaleInHand) <= flushes
  /\ Elements(repeated) \cup StaleInHand \subseteq Elements(delivered) \cup lost \cup {0}

\* No packet vanishes, and none is doubled but by a flush.
DataConserved == OnePlaceEach /\ RepeatsAreFlushed

(***************************************************************************)
(* Pop is called on an empty queue only if two callers race for a result,  *)
(* or ResetNoResult flushes under fep_thread_'s feet.                      *)
(***************************************************************************)
NoEmptyPop == SoleCaller /\ flushes = 0 => ~underflow

(***************************************************************************)
(* The queues are used as they are meant to be: never above their          *)
(* capacity, with what belongs in them, never popped when empty.           *)
(***************************************************************************)
QueuesSound == TypeOK /\ NoEmptyPop

(***************************************************************************)
(* Every call returns, whatever the other callers do and whatever answers  *)
(* are lost: each of its waits ends by itself.                             *)
(***************************************************************************)
EveryCallReturns == \A c \in Caller : ~At(c, "out") ~> At(c, "out")

(***************************************************************************)
(* A busy driver becomes idle again, or every caller has left it alone and *)
(* it is busy for one of two reasons: the parser is inside a packet of     *)
(* which bytes were lost, or GetRegister has given up on a line, which is  *)
(* the one command that returns with state_ still kProcessing.  Either way *)
(* the next Send frees it.                                                 *)
(***************************************************************************)
Abandoned ==
  /\ \A c \in Caller : At(c, "out")
  /\ \/ uart = "torn"
     \/ \E c \in Caller : call[c].op = "GetRegister" /\ call[c].out = "error"

BusyEnds == state_ = "kProcessing" ~> state_ = "kIdle" \/ Abandoned
=============================================================================
