------------------------------- MODULE FepRx -------------------------------
(***************************************************************************)
(* RxProcessor of the FEP radio modem driver (rx_processor.hpp): the state *)
(* machine that cuts the modem's byte stream into packets.                 *)
(*                                                                         *)
(* The upper stream hands over the bytes of the wire in chunks of its own  *)
(* choosing: UARTStream (uart_stream.cpp) collects bytes in a queue of 32  *)
(* and hands over every 100 ms what it has, a port that interrupts per     *)
(* byte hands them over one by one.  Every chunk is queued whole or        *)
(* dropped whole, and moves the machine by at most one parse step: what is *)
(* left in the queue is looked at when the next chunk arrives.             *)
(***************************************************************************)
EXTENDS Integers, Sequences, SequencesExt

CONSTANTS Capacity,  \* slots of rx_queue_, and characters of the array a line is copied to
          LineSize,  \* characters FEPRawLine keeps of a line
          Feeds      \* what may be sent and how it may be handed over

Byte == 0..255
Letter == [R |-> 82, B |-> 66, N |-> 78, P |-> 80]
Cr == 13
Lf == 10
Zero == 48

(***************************************************************************)
(* RxProcessorPacket: what is dispatched to FEP_RawDriver.  The packets    *)
(* EnterProcessing and ExitProcessing carry nothing and only set the       *)
(* driver's state_; they appear below as driver_state_.                    *)
(***************************************************************************)
Data(from, data)  == [type |-> "kData", from |-> from, data |-> data]
Result(ok, value) == [type |-> "kResult", ok |-> ok, value |-> value]
Line(text)        == [type |-> "kLine",
                      line |-> SubSeq(text, 1, IF Len(text) < LineSize
                                               THEN Len(text) ELSE LineSize)]
Packet == [type : {"kData"}, from : Byte, data : Seq(Byte)]
            \cup [type : {"kResult"}, ok : BOOLEAN, value : Int]
            \cup [type : {"kLine"}, line : Seq(Byte)]

(***************************************************************************)
(* The modem's side of the wire: three decimal digits for the address and  *)
(* the length, the payload as it is, CR LF after every packet.             *)
(***************************************************************************)
Digits(n) == <<Zero + (n \div 100), Zero + ((n \div 10) % 10), Zero + (n % 10)>>

Encode(p) ==
  CASE p.type = "kData"   -> <<Letter.R, Letter.B, Letter.N>> \o Digits(p.from)
                               \o Digits(Len(p.data)) \o p.data \o <<Cr, Lf>>
    [] p.type = "kResult" -> <<IF p.ok THEN Letter.P ELSE Letter.N,
                               Zero + p.value, Cr, Lf>>
    [] p.type = "kLine"   -> p.line

Wire(script) == FlattenSeq([i \in DOMAIN script |-> Encode(script[i])])

ASSUME SizeAssumption ==
  Capacity \in Nat \ {0} /\ LineSize \in Nat /\ LineSize < Capacity

(***************************************************************************)
(* A feed: the packets the modem sends (script), the longest chunk the     *)
(* upper stream hands over, and how many bytes it may lose.                *)
(***************************************************************************)
ASSUME FeedAssumption ==
  \A f \in Feeds :
    /\ f.chunk \in Nat /\ f.losses \in Nat
    /\ f.script \in Seq(Packet) /\ Wire(f.script) \in Seq(Byte)

VARIABLES
  feed,             \* the feed of this behaviour
  pos,              \* bytes of Wire(script) handed over so far
  rx_queue_,        \* bytes accepted and not yet consumed
  rx_data_address_, \* sender announced by the header being received
  rx_data_length_,  \* payload length announced by it
  state_,           \* RxState
  dispatched,       \* the packets dispatched so far, in order
  driver_state_,    \* FEP_RawDriver::state_ as the dispatches set it
  overrun,          \* history: what came of a write behind the line's array
  lost,             \* bytes the upper stream has lost
  dropped           \* history: bytes were lost, here or in the upper stream

rxVars == <<rx_queue_, rx_data_address_, rx_data_length_, state_,
            dispatched, driver_state_, overrun>>
vars == <<feed, pos, rxVars, lost, dropped>>

script == feed.script

RxState == {"kNone", "kDetecting", "kDataHeader", "kDataContent",
            "kRawLine", "kResult"}

(***************************************************************************)
(* need_to_dispatch_, which UpdateState derives from the state.            *)
(***************************************************************************)
NeedToDispatch ==
  CASE state_ = "kDataHeader"  -> 6
    [] state_ = "kDataContent" -> rx_data_length_ + 2
    [] state_ = "kResult"      -> 4
    [] OTHER                   -> 0

Init ==
  /\ feed \in Feeds
  /\ pos = 0 /\ lost = 0
  /\ rx_queue_ = <<>>
  /\ rx_data_address_ = 0
  /\ rx_data_length_ = 0
  /\ state_ = "kNone"
  /\ dispatched = <<>>
  /\ driver_state_ = "kIdle"
  /\ overrun = "none"
  /\ dropped = FALSE

Consume(q, n) == SubSeq(q, n + 1, Len(q))

(***************************************************************************)
(* Wait for more bytes in state st.  EnterProcessing, sent when the        *)
(* machine leaves kNone, marks the driver busy.                            *)
(***************************************************************************)
Wait(st, q) ==
  /\ state_' = st
  /\ rx_queue_' = q
  /\ driver_state_' = IF state_ = "kNone" THEN "kProcessing" ELSE driver_state_
  /\ UNCHANGED <<dispatched, overrun>>

(***************************************************************************)
(* Dispatch a packet, then ExitProcessing: back to kNone, driver idle.     *)
(* Whatever is left in the queue stays there.                              *)
(***************************************************************************)
DispatchAndExit(p, rest) ==
  /\ dispatched' = Append(dispatched, p)
  /\ state_' = "kNone"
  /\ rx_queue_' = rest
  /\ driver_state_' = "kIdle"
  /\ UNCHANGED <<rx_data_address_, rx_data_length_>>

Number(q, i) ==
  (q[i] - Zero) * 100 + (q[i + 1] - Zero) * 10 + (q[i + 2] - Zero)

\* slip: one byte too many consumed
SlipHeaderOffByOne(q) ==
  /\ rx_data_address_' = Number(q, 1) % 256
  /\ rx_data_length_' = Number(q, 4) % 256
  /\ Wait("kDataContent", Consume(q, 7))

ISR_ParseBinaryHeader(q) ==
  /\ rx_data_address_' = Number(q, 1) % 256
  /\ rx_data_length_' = Number(q, 4) % 256
  /\ Wait("kDataContent", Consume(q, 6))

\* slip: the CR LF behind the payload is left in the queue
SlipTrailerKept(q) ==
  /\ DispatchAndExit(Data(rx_data_address_, SubSeq(q, 1, rx_data_length_)),
                     Consume(q, rx_data_length_))
  /\ UNCHANGED overrun

ISR_ParseBinaryData(q) ==
  /\ DispatchAndExit(Data(rx_data_address_, SubSeq(q, 1, rx_data_length_)),
                     Consume(q, rx_data_length_ + 2))
  /\ UNCHANGED overrun

\* slip: the line is dispatched, ExitProcessing is not sent
SlipLineWithoutExit(q) ==
  /\ dispatched' = Append(dispatched, Line(q))
  /\ state_' = "kNone"
  /\ rx_queue_' = <<>>
  /\ UNCHANGED <<rx_data_address_, rx_data_length_, driver_state_, overrun>>

(***************************************************************************)
(* The whole queue is the line.  Its NUL goes behind its last character:   *)
(* outside the array when the queue is full.  What that byte belongs to is *)
(* up to the build: the receiver goes on, or nothing more is said of it.   *)
(***************************************************************************)
ISR_ParseRawLine(q) ==
  \/ /\ DispatchAndExit(Line(q), <<>>)
     /\ overrun' = IF Len(q) < Capacity THEN overrun ELSE "survived"
  \/ /\ Len(q) = Capacity
     /\ overrun' = "fatal"
     /\ UNCHANGED <<rx_queue_, rx_data_address_, rx_data_length_, state_,
                    dispatched, driver_state_>>

ISR_ParseResult(q) ==
  /\ DispatchAndExit(Result(q[1] = Letter.P, q[2] - Zero), Consume(q, 4))
  /\ UNCHANGED overrun

EndsResult(q) == Len(q) >= 4 /\ q[3] = Cr /\ q[4] = Lf

KeepHeader == UNCHANGED <<rx_data_address_, rx_data_length_>>

(***************************************************************************)
(* One disjunct per state.  A result whose third and fourth bytes are not  *)
(* CR LF is left in the queue, in state kResult.                           *)
(***************************************************************************)
OnDataHeader(q) ==
  \/ Len(q) >= 6 /\ ISR_ParseBinaryHeader(q)
  \/ Len(q) < 6 /\ Wait("kDataHeader", q) /\ KeepHeader

OnDataContent(q) ==
  \/ Len(q) >= rx_data_length_ + 2 /\ ISR_ParseBinaryData(q)
  \/ Len(q) < rx_data_length_ + 2 /\ Wait("kDataContent", q) /\ KeepHeader

OnResult(q) ==
  \/ EndsResult(q) /\ ISR_ParseResult(q)
  \/ ~EndsResult(q) /\ Wait("kResult", q) /\ KeepHeader

OnRawLine(chunk, q) ==
  \/ chunk[1] = Lf /\ ISR_ParseRawLine(q)
  \/ chunk[1] # Lf /\ Wait("kRawLine", q) /\ KeepHeader

StartsData(q) ==
  Len(q) >= 3 /\ q[1] = Letter.R /\ q[2] = Letter.B /\ q[3] = Letter.N
StartsResult(q) == Len(q) >= 2 /\ q[1] \in {Letter.N, Letter.P}

OnDetecting(q) ==
  \/ StartsData(q) /\ OnDataHeader(Consume(q, 3))
  \/ StartsResult(q) /\ OnResult(q)
  \/ /\ ~StartsData(q) /\ ~StartsResult(q)
     /\ Wait(IF Len(q) >= 3 THEN "kRawLine" ELSE "kDetecting", q)
     /\ KeepHeader

\* PushN accepts a chunk only when all of it fits
Fits(q) == Len(q) <= Capacity

\* slip: the queue is cleared on overflow
SlipOverflowClears == /\ dropped' = TRUE
                      /\ rx_queue_' = <<>>
                      /\ UNCHANGED <<rx_data_address_, rx_data_length_, state_,
                                    dispatched, driver_state_, overrun>>

Overflow == dropped' = TRUE /\ UNCHANGED rxVars

ISR_OnUARTData(chunk) ==
  LET q == rx_queue_ \o chunk
  IN  \/ ~Fits(q) /\ Overflow
      \/ /\ Fits(q)
         /\ UNCHANGED dropped
         /\ \/ state_ \in {"kNone", "kDetecting"} /\ OnDetecting(q)
            \/ state_ = "kDataHeader" /\ OnDataHeader(q)
            \/ state_ = "kDataContent" /\ OnDataContent(q)
            \/ state_ = "kResult" /\ OnResult(q)
            \/ state_ = "kRawLine" /\ OnRawLine(chunk, q)

(***************************************************************************)
(* The upper stream hands over the next n bytes of the wire.               *)
(***************************************************************************)
Receive(n) ==
  /\ overrun # "fatal"
  /\ pos + n <= Len(Wire(script))
  /\ pos' = pos + n
  /\ ISR_OnUARTData(SubSeq(Wire(script), pos + 1, pos + n))
  /\ UNCHANGED <<feed, lost>>

\* It loses the next byte instead: its own queue is full.
LoseByte ==
  /\ overrun # "fatal"
  /\ lost < feed.losses
  /\ pos < Len(Wire(script))
  /\ pos' = pos + 1
  /\ lost' = lost + 1
  /\ dropped' = TRUE
  /\ UNCHANGED <<feed, rxVars>>

Next == \/ \E n \in 1..feed.chunk : Receive(n)
        \/ LoseByte

Spec == Init /\ [][Next]_vars

\* The port goes on as long as there are bytes.
FairSpec == Spec /\ WF_vars(Next)

-----------------------------------------------------------------------------
\* Every variable of the receiver has its type; rx_queue_ keeps its capacity.
TypeOK ==
  /\ feed \in Feeds
  /\ pos \in Nat
  /\ rx_queue_ \in Seq(Byte)
  /\ Len(rx_queue_) <= Capacity
  /\ rx_data_address_ \in Byte
  /\ rx_data_length_ \in Byte
  /\ state_ \in RxState
  /\ dispatched \in Seq(Packet)
  /\ driver_state_ \in {"kIdle", "kProcessing"}
  /\ overrun \in {"none", "survived", "fatal"}
  /\ lost \in Nat
  /\ dropped \in BOOLEAN

(***************************************************************************)
(* The driver is told to be idle exactly while the machine is between      *)
(* packets: every EnterProcessing is closed by one ExitProcessing, on      *)
(* every way out of the parser.  WaitForState relies on it.                *)
(***************************************************************************)
BusyExactlyWhileParsing == driver_state_ = "kIdle" <=> state_ = "kNone"

(***************************************************************************)
(* Whatever the wire carries, also after bytes were dropped and lengths    *)
(* are read out of garbage, no dispatched payload is longer than the queue *)
(* less its CR LF: the copies into the 64-byte FEPPacket stay inside it.   *)
(***************************************************************************)
PayloadFitsPacket ==
  \A i \in DOMAIN dispatched :
    dispatched[i].type = "kData" => Len(dispatched[i].data) <= Capacity - 2

\* The packets of the script whose last byte has been handed over.
Complete ==
  LET done == {k \in 0..Len(script) : Len(Wire(SubSeq(script, 1, k))) <= pos}
  IN  CHOOSE k \in done : \A j \in done : j <= k

(***************************************************************************)
(* A packet that survives its encoding: its numbers have as many digits as *)
(* the header has room for, and a line ends with its only LF, fits         *)
(* FEPRawLine, and begins neither like data nor like a result.  A line of  *)
(* three characters ends before the machine looks for its end.             *)
(***************************************************************************)
Sendable(p) ==
  /\ p.type = "kData" => Len(p.data) \in Byte
  /\ p.type = "kResult" => Zero + p.value \in Byte
  /\ p.type = "kLine" =>
       /\ Len(p.line) >= 4 /\ Len(p.line) <= LineSize
       /\ \A i \in DOMAIN p.line : p.line[i] = Lf <=> i = Len(p.line)
       /\ ~StartsData(p.line) /\ ~StartsResult(p.line)

\* A port that interrupts for every byte, and packets that fit the queue.
Bytewise ==
  /\ feed.chunk = 1 /\ feed.losses = 0
  /\ \A i \in DOMAIN script :
       Sendable(script[i]) /\ Len(Encode(script[i])) <= Capacity

(***************************************************************************)
(* The NUL behind a line goes into its array, if the port interrupts for   *)
(* every byte, loses none, and the modem sends what survives its encoding. *)
(* Of any other feed nothing of the kind holds: the ends of lines are      *)
(* looked for at the first byte of a chunk only, a lost line end joins two *)
(* packets, and a line may be as long as the modem likes.                  *)
(***************************************************************************)
LineFitsArray == Bytewise => overrun = "none"

(***************************************************************************)
(* In every state: types and capacity, the driver's state_ paired with the *)
(* parser's, payloads inside the packet; and fed byte by byte, lines       *)
(* inside their array.                                                     *)
(***************************************************************************)
ReceiverSound ==
  /\ TypeOK
  /\ BusyExactlyWhileParsing
  /\ PayloadFitsPacket
  /\ LineFitsArray

(***************************************************************************)
(* Data packets and results are self-delimiting: as long as nothing was    *)
(* dropped, any chunking of a wire without text lines is cut into exactly  *)
(* the packets the modem sent, in order, payloads that look like headers   *)
(* or line ends included.  With one byte per chunk every packet, lines     *)
(* included, is dispatched with its last byte.                             *)
(***************************************************************************)
CutsAtPacketBoundaries ==
  /\ ~dropped /\ (\A i \in DOMAIN script :
                     Sendable(script[i]) /\ script[i].type # "kLine")
       => IsPrefix(dispatched, script)
  /\ Bytewise => Len(dispatched) = Complete

(***************************************************************************)
(* A full queue is final: nothing is consumed without a chunk being        *)
(* accepted, and no chunk is accepted.  The same holds for a header that   *)
(* announces more than the queue can ever hold.  The receiver has no way   *)
(* back other than a restart; no command of FEP_RawDriver clears it.       *)
(***************************************************************************)
FullQueueIsFinal ==
  [][/\ Len(rx_queue_) = Capacity => UNCHANGED rxVars
     /\ state_ = "kDataContent" /\ NeedToDispatch > Capacity
          => UNCHANGED <<state_, dispatched>>]_vars

\* Only what is fed byte by byte is claimed to go over a link.
Link == INSTANCE InOrderLink
          WITH sent <- IF Bytewise THEN script ELSE <<>>,
               delivered <- IF Bytewise THEN dispatched ELSE <<>>

(***************************************************************************)
(* With one byte per chunk the parser implements an in-order lossless      *)
(* link: every packet of the modem, lines included, is dispatched, once    *)
(* and in order.  (With larger chunks the end of a line may not be seen,   *)
(* and a packet may stay in the queue until the next chunk.)               *)
(***************************************************************************)
IsLink == Link!Spec

\* The safety half of it: nothing skipped, doubled, changed or out of order.
LinkInOrder == Link!InOrder
=============================================================================
