------------------------- MODULE FepRawDriverProofs -------------------------
(***************************************************************************)
(* For any number of callers, commands and packets, and any capacity of    *)
(* the queues: the types, the queues, where a radio packet is, and whose   *)
(* answers a call has read.                                                *)
(***************************************************************************)
EXTENDS FepRawDriver, TLAPS, FiniteSetTheorems

Answer == Result \cup TextLine
OpOfCall == Ops \cup {"none", "ResetInSend"}
CallRecord == [pc : PC, op : OpOfCall, cmd : Nat, heard : Seq(Answer), out : Outcome]
Command == [cmd : Nat, op : Ops \cup {"ResetInSend"}, stage : 1..2]

CallTypes == call \in [Caller -> CallRecord]

QueueTypes ==
  /\ result_queue_ \in Seq(Result) /\ Len(result_queue_) <= ResultSlots
  /\ line_queue_ \in Seq(TextLine) /\ Len(line_queue_) <= LineSlots
  /\ rx_queue_ \in Seq(Nat) /\ Len(rx_queue_) <= RxSlots

LinkTypes ==
  /\ issued \in Nat /\ modem \in Seq(Command) /\ radio \in Nat
  /\ inbound \in Seq(Answer \cup RadioData)
  /\ damaged \in Nat
  /\ uart \in {"none", "entered", "torn", "dispatched"}

UpperTypes ==
  /\ drain \in {"idle", "popping", "holding", "holdingStale"}
  /\ hand \in Nat /\ held \subseteq Nat
  /\ delivered \in Seq(Nat) /\ repeated \in Seq(Nat) /\ lost \subseteq Nat
  /\ flushes \in Nat /\ underflow \in BOOLEAN

StateTypes ==
  serial \in Links /\ state_ \in {"kIdle", "kProcessing"} /\ rx_enabled \in BOOLEAN

Types == CallTypes /\ QueueTypes /\ LinkTypes /\ UpperTypes /\ StateTypes

LEMMA TypesAreTypeOK == Types <=> TypeOK
BY DEF Types, TypeOK, CallTypes, QueueTypes, LinkTypes, UpperTypes, StateTypes,
       CallRecord, OpOfCall, Answer, Command

LEMMA SomePoints ==
  /\ "out" \in PC /\ "wait" \in PC /\ "acquire" \in PC /\ "release" \in PC
  /\ "result" \in PC /\ "popResult" \in PC /\ "line" \in PC /\ "popLine" \in PC
  /\ "flush" \in PC
BY DEF PC

LEMMA SomeOutcomes ==
  /\ "none" \in Outcome /\ "kNoError" \in Outcome /\ "kTimeout" \in Outcome
  /\ "kInvalidResponse" \in Outcome /\ "kRxOverflow" \in Outcome
  /\ "kInvalidCommand" \in Outcome /\ "value" \in Outcome /\ "error" \in Outcome
  /\ "void" \in Outcome
BY DEF Outcome

LEMMA AnswerTypes ==
  ASSUME NEW n \in Nat
  PROVE  /\ TheLine(n) \in TextLine
         /\ \A x \in AnyResult \cup {P0, Err(0)} : TheResult(x, n) \in Result
<1>1. TheLine(n) \in TextLine BY DEF TheLine, TextLine
<1>2. ASSUME NEW b \in BOOLEAN, NEW v \in 0..2
      PROVE  TheResult([ok |-> b, value |-> v], n) \in Result
  BY DEF TheResult, Result
<1>3. TheResult(P0, n) \in Result
  <2> DEFINE zero == 0
  <2>1. zero \in 0..2 OBVIOUS
  <2>2. P0 = [ok |-> TRUE, value |-> zero] BY DEF P0
  <2> HIDE DEF zero
  <2>3. QED BY <1>2, <2>1, <2>2
<1>4. \A v \in 0..2 : TheResult(Err(v), n) \in Result BY <1>2 DEF Err
<1>5. 0 \in 0..2 /\ ErrorCodes \subseteq 0..2 BY ConstantsAssumption
<1>6. \A v \in ErrorCodes \cup {0} : TheResult(Err(v), n) \in Result
  BY <1>4, <1>5
<1>7. QED BY <1>1, <1>3, <1>6 DEF AnyResult

\* Taking the head and adding to the end keep a sequence's type.
LEMMA QueueOps ==
  ASSUME NEW S, NEW q \in Seq(S)
  PROVE  /\ q # <<>> => Head(q) \in S /\ Tail(q) \in Seq(S) /\ Len(Tail(q)) = Len(q) - 1
         /\ \A x \in S : Append(q, x) \in Seq(S) /\ Len(Append(q, x)) = Len(q) + 1
         /\ <<>> \in Seq(S) /\ Len(<<>>) = 0 /\ Len(q) \in Nat
OBVIOUS

LEMMA RestOfQueue ==
  ASSUME NEW S, NEW q \in Seq(S), NEW slots \in Nat, Len(q) <= slots,
         NEW r, r = IF q = <<>> THEN <<>> ELSE Tail(q)
  PROVE  r \in Seq(S) /\ Len(r) <= slots
<1>1. CASE q = <<>> BY <1>1
<1>2. CASE q # <<>>
  <2>1. Tail(q) \in Seq(S) /\ Len(Tail(q)) = Len(q) - 1 /\ Len(q) \in Nat
    BY <1>2, QueueOps
  <2>2. QED BY <1>2, <2>1
<1>3. QED BY <1>1, <1>2

LEMMA PushTypes ==
  ASSUME NEW S, NEW q \in Seq(S), NEW slots \in Nat, Len(q) <= slots, NEW x \in S
  PROVE  Push(q, slots, x) \in Seq(S) /\ Len(Push(q, slots, x)) <= slots
<1>1. CASE Len(q) < slots
  <2>1. Append(q, x) \in Seq(S) /\ Len(Append(q, x)) = Len(q) + 1 /\ Len(q) \in Nat
    BY QueueOps
  <2>2. QED BY <1>1, <2>1 DEF Push
<1>2. CASE ~(Len(q) < slots) BY <1>2 DEF Push
<1>3. QED BY <1>1, <1>2

\* What a call record becomes.
LEMMA CallUpdated ==
  ASSUME CallTypes, NEW c \in Caller, NEW k \in CallRecord, call' = [call EXCEPT ![c] = k]
  PROVE  CallTypes'
BY DEF CallTypes

LEMMA GoTypes ==
  ASSUME CallTypes, NEW c \in Caller, NEW w \in PC, Go(c, w)
  PROVE  CallTypes'
<1>1. [call[c] EXCEPT !.pc = w] \in CallRecord BY DEF CallTypes, CallRecord
<1>2. call' = [call EXCEPT ![c] = [call[c] EXCEPT !.pc = w]] BY DEF Go
<1>3. QED BY <1>1, <1>2, CallUpdated

LEMMA ReturnTypes ==
  ASSUME CallTypes, NEW c \in Caller, NEW out \in Outcome, Return(c, out)
  PROVE  CallTypes'
<1>1. [call[c] EXCEPT !.pc = "out", !.out = out] \in CallRecord
  BY SomePoints DEF CallTypes, CallRecord
<1>2. call' = [call EXCEPT ![c] = [call[c] EXCEPT !.pc = "out", !.out = out]] BY DEF Return, CallTypes
<1>3. QED BY <1>1, <1>2, CallUpdated

LEMMA OnlySendIdlesTypes ==
  ASSUME StateTypes, NEW c, OnlySendIdles(c)
  PROVE  state_' \in {"kIdle", "kProcessing"}
BY DEF OnlySendIdles, StateTypes

LEMMA SameQueues == ASSUME QueueTypes, UNCHANGED queues PROVE QueueTypes'
BY DEF QueueTypes, queues, Result, TextLine

LEMMA SameUpper == ASSUME UpperTypes, UNCHANGED <<upper, underflow>> PROVE UpperTypes'
BY DEF UpperTypes, upper

LEMMA SameLink == ASSUME LinkTypes, UNCHANGED <<issued, link>> PROVE LinkTypes'
BY DEF LinkTypes, link, Command, Answer, RadioData

-----------------------------------------------------------------------------
(* Types: the callers.                                                     *)

LEMMA CallTypesStep ==
  ASSUME Types, NEW c \in Caller, NEW o \in Op, Call(c, o), UNCHANGED serial
  PROVE  Types'
<1>1. o \in OpOfCall BY ConstantsAssumption DEF OpOfCall
<1>2. CallTypes'
  <2> DEFINE zero == 0
  <2>1. zero \in Nat OBVIOUS
  <2>2. call' = [call EXCEPT ![c] = [pc |-> "wait", op |-> o, cmd |-> zero,
                                     heard |-> <<>>, out |-> "none"]]
    BY DEF Call
  <2> HIDE DEF zero
  <2>3. [pc |-> "wait", op |-> o, cmd |-> zero, heard |-> <<>>, out |-> "none"] \in CallRecord
    BY <1>1, <2>1, SomePoints, SomeOutcomes DEF CallRecord
  <2>4. QED BY <2>2, <2>3, CallUpdated DEF Types
<1>3. QED BY <1>2, SameQueues, SameUpper, SameLink DEF Call, Types, StateTypes

LEMMA SeeTypes ==
  ASSUME Types, NEW c \in Caller, See(c), UNCHANGED serial
  PROVE  Types'
<1>1. \/ At(c, "wait") /\ Go(c, "acquire")
      \/ At(c, "result") /\ Go(c, "popResult")
      \/ At(c, "line") /\ Go(c, "popLine")
  BY DEF See, Waits, At
<1>2. CallTypes' BY <1>1, GoTypes, SomePoints DEF Types
<1>3. QED BY <1>2, SameQueues, SameUpper, SameLink DEF See, Types, StateTypes

LEMMA TimeOutTypes ==
  ASSUME Types, NEW c \in Caller, TimeOut(c), UNCHANGED serial
  PROVE  Types'
<1>1. \E out \in Outcome : Return(c, out)
  BY SomeOutcomes DEF TimeOut
<1>2. CallTypes' BY <1>1, ReturnTypes DEF Types
<1>3. StateTypes' BY OnlySendIdlesTypes DEF TimeOut, Types, StateTypes
<1>4. QED BY <1>2, <1>3, SameQueues, SameUpper, SameLink DEF TimeOut, Types

\* The command a caller writes, and the call record it leaves.
LEMMA AcquireTypes ==
  ASSUME Types, NEW c \in Caller, Acquire(c), call[c].op # "none", UNCHANGED serial
  PROVE  Types'
<1>1. issued' \in Nat BY DEF Acquire, Types, LinkTypes
<1>2. [cmd |-> issued', op |-> call[c].op, stage |-> 1] \in Command
  <2> DEFINE one == 1
  <2>1. one \in 1..2 OBVIOUS
  <2>2. call[c].op \in Ops \cup {"ResetInSend"}
    BY DEF Types, CallTypes, CallRecord, OpOfCall
  <2> HIDE DEF one
  <2>3. [cmd |-> issued', op |-> call[c].op, stage |-> one] \in Command
    BY <1>1, <2>1, <2>2 DEF Command
  <2>4. QED BY <2>3 DEF one
<1>3. modem' \in Seq(Command)
  BY <1>2, QueueOps DEF Acquire, Types, LinkTypes
<1>4. PICK w \in PC : call' = [call EXCEPT ![c].cmd = issued', ![c].pc = w]
  BY SomePoints DEF Acquire
<1>5. CallTypes'
  <2>1. [call[c] EXCEPT !.cmd = issued', !.pc = w] \in CallRecord
    BY <1>1 DEF Types, CallTypes, CallRecord
  <2>2. call' = [call EXCEPT ![c] = [call[c] EXCEPT !.cmd = issued', !.pc = w]]
    BY <1>4 DEF Types, CallTypes
  <2>3. QED BY <2>1, <2>2, CallUpdated DEF Types
<1>6. LinkTypes'
  BY <1>1, <1>3 DEF Acquire, Types, LinkTypes, Command, Answer, RadioData
<1>7. QED BY <1>5, <1>6, SameQueues, SameUpper DEF Acquire, Types, StateTypes

LEMMA ReleaseTypes ==
  ASSUME Types, NEW c \in Caller, Release(c), UNCHANGED serial
  PROVE  Types'
<1>1. \E w \in PC : Go(c, w) BY SomePoints DEF Release
<1>2. CallTypes' BY <1>1, GoTypes DEF Types
<1>3. QED BY <1>2, SameQueues, SameUpper, SameLink DEF Release, Types, StateTypes

LEMMA InterpretTypes ==
  ASSUME NEW c, NEW r
  PROVE  Interpret(c, r) \in Outcome \cup {"more", "reset"}
<1>1. Transmitted(r) \in Outcome \cup {"reset"}
  BY SomeOutcomes DEF Transmitted
<1>2. QED BY <1>1, SomeOutcomes DEF Interpret

\* The result PopResult takes, the head of the queue or a stale slot.
LEMMA PoppedResult ==
  ASSUME Types
  PROVE  (IF result_queue_ = <<>>
          THEN {TheResult(x, 0) : x \in AnyResult}
          ELSE {Head(result_queue_)}) \subseteq Result
<1>1. CASE result_queue_ = <<>> BY <1>1, AnswerTypes
<1>2. CASE result_queue_ # <<>> BY <1>2 DEF Types, QueueTypes
<1>3. QED BY <1>1, <1>2

PopResultBy(c, r) ==
  LET what == Interpret(c, r)
      read == [call[c] EXCEPT !.heard = Append(@, r)]
  IN  /\ call' = [call EXCEPT ![c] =
           CASE what = "more"  -> [read EXCEPT !.pc = "result"]
             [] what = "reset" -> [read EXCEPT !.pc = "wait", !.heard = <<>>,
                                               !.op = "ResetInSend"]
             [] OTHER          -> [read EXCEPT !.pc = "out", !.out = what]]
      /\ IF what = "more" THEN UNCHANGED state_ ELSE OnlySendIdles(c)

LEMMA PopResultTypes ==
  ASSUME Types, NEW c \in Caller, PopResult(c), UNCHANGED serial
  PROVE  Types'
<1>1. PICK r \in Result : PopResultBy(c, r)
  BY PoppedResult DEF PopResult, PopResultBy
<1> DEFINE read == [call[c] EXCEPT !.heard = Append(@, r)]
           what == Interpret(c, r)
<1>2. call[c] \in CallRecord BY DEF Types, CallTypes
<1>3. Append(call[c].heard, r) \in Seq(Answer)
  BY <1>2, QueueOps DEF CallRecord, Answer
<1>4. read \in CallRecord BY <1>2, <1>3 DEF CallRecord
<1>5. what \in Outcome \cup {"more", "reset"} BY InterpretTypes
<1>6. [read EXCEPT !.pc = "result"] \in CallRecord BY <1>4, SomePoints DEF CallRecord
<1>7. [read EXCEPT !.pc = "wait", !.heard = <<>>, !.op = "ResetInSend"] \in CallRecord
  <2>1. ASSUME NEW h \in Seq(Answer), NEW o \in OpOfCall
        PROVE  [read EXCEPT !.pc = "wait", !.heard = h, !.op = o] \in CallRecord
    <3> HIDE DEF read
    <3>1. QED BY <1>4, SomePoints DEF CallRecord
  <2>2. <<>> \in Seq(Answer) /\ "ResetInSend" \in OpOfCall BY DEF OpOfCall
  <2>3. QED BY <2>1, <2>2
<1>8. what \in Outcome => [read EXCEPT !.pc = "out", !.out = what] \in CallRecord
  BY <1>4, SomePoints DEF CallRecord
<1>9. CallTypes'
  <2>1. PICK k \in CallRecord : call' = [call EXCEPT ![c] = k]
    <3>1. CASE what = "more" BY <1>1, <1>6, <3>1 DEF PopResultBy
    <3>2. CASE what = "reset" BY <1>1, <1>7, <3>2 DEF PopResultBy
    <3>3. CASE what \notin {"more", "reset"} BY <1>1, <1>5, <1>8, <3>3 DEF PopResultBy
    <3>4. QED BY <3>1, <3>2, <3>3
  <2>2. QED BY <2>1, CallUpdated DEF Types
<1>10. state_' \in {"kIdle", "kProcessing"}
  BY <1>1, OnlySendIdlesTypes DEF PopResultBy, Types, StateTypes
<1>11. result_queue_' \in Seq(Result) /\ Len(result_queue_') <= ResultSlots
  <2>1. result_queue_ \in Seq(Result) /\ Len(result_queue_) <= ResultSlots
    BY DEF Types, QueueTypes
  <2>2. result_queue_' = IF result_queue_ = <<>> THEN <<>> ELSE Tail(result_queue_)
    BY DEF PopResult
  <2>3. QED BY <2>1, <2>2, RestOfQueue, ConstantsAssumption
<1>12. QueueTypes'
  BY <1>11 DEF PopResult, Types, QueueTypes, Result, TextLine
<1>13. underflow' \in BOOLEAN
  BY DEF PopResult
<1>14. UpperTypes' BY <1>13 DEF PopResult, Types, UpperTypes, upper
<1>15. QED BY <1>9, <1>10, <1>12, <1>14, SameLink DEF PopResult, Types, StateTypes

LEMMA PopLineTypes ==
  ASSUME Types, NEW c \in Caller, PopLine(c), UNCHANGED serial
  PROVE  Types'
<1> DEFINE l == IF line_queue_ = <<>> THEN TheLine(0) ELSE Head(line_queue_)
<1>1. l \in TextLine BY AnswerTypes, QueueOps DEF Types, QueueTypes
<1>2. call' = [call EXCEPT ![c].pc = "out", ![c].out = "value", ![c].heard = <<l>>]
  BY DEF PopLine
<1> HIDE DEF l
<1>3. [call[c] EXCEPT !.pc = "out", !.out = "value", !.heard = <<l>>] \in CallRecord
  <2>1. ASSUME NEW h \in Seq(Answer)
        PROVE  [call[c] EXCEPT !.pc = "out", !.out = "value", !.heard = h] \in CallRecord
    BY SomePoints, SomeOutcomes DEF Types, CallTypes, CallRecord
  <2>2. <<l>> \in Seq(Answer) BY <1>1 DEF Answer
  <2>3. QED BY <2>1, <2>2
<1>4. CallTypes'
  <2>1. call' = [call EXCEPT ![c] = [call[c] EXCEPT !.pc = "out", !.out = "value",
                                                    !.heard = <<l>>]]
    BY <1>2 DEF Types, CallTypes
  <2>2. QED BY <1>3, <2>1, CallUpdated DEF Types
<1>5. state_' \in {"kIdle", "kProcessing"} BY DEF PopLine, Types, StateTypes
<1>6. line_queue_' \in Seq(TextLine) /\ Len(line_queue_') <= LineSlots
  <2>1. line_queue_ \in Seq(TextLine) /\ Len(line_queue_) <= LineSlots
    BY DEF Types, QueueTypes
  <2>2. line_queue_' = IF line_queue_ = <<>> THEN <<>> ELSE Tail(line_queue_)
    BY DEF PopLine
  <2>3. QED BY <2>1, <2>2, RestOfQueue, ConstantsAssumption
<1>7. QueueTypes' BY <1>6 DEF PopLine, Types, QueueTypes, Result, TextLine
<1>8. underflow' \in BOOLEAN BY DEF PopLine
<1>9. UpperTypes' BY <1>8 DEF PopLine, Types, UpperTypes, upper
<1>10. QED BY <1>4, <1>5, <1>7, <1>9, SameLink DEF PopLine, Types, StateTypes

LEMMA FlushQueueTypes ==
  ASSUME Types, NEW c \in Caller, FlushQueue(c), UNCHANGED serial
  PROVE  Types'
<1>1. CallTypes' BY ReturnTypes, SomeOutcomes DEF FlushQueue, Types
<1>2. QueueTypes'
  <2>1. <<>> \in Seq(Result) /\ <<>> \in Seq(TextLine) /\ <<>> \in Seq(Nat) /\ Len(<<>>) = 0
    OBVIOUS
  <2>2. QED BY <2>1, ConstantsAssumption DEF FlushQueue, QueueTypes, Result, TextLine
<1>3. lost' \subseteq Nat
  <2>1. \A i \in DOMAIN rx_queue_ : rx_queue_[i] \in Nat BY DEF Types, QueueTypes
  <2>2. lost' = lost \cup {rx_queue_[i] : i \in DOMAIN rx_queue_} BY DEF FlushQueue
  <2>3. lost \subseteq Nat BY DEF Types, UpperTypes
  <2>4. QED BY <2>1, <2>2, <2>3
<1>4. UpperTypes' BY <1>3 DEF FlushQueue, Types, UpperTypes
<1>5. QED BY <1>1, <1>2, <1>4, SameLink DEF FlushQueue, Types, StateTypes

LEMMA SetDispatchRXTypes ==
  ASSUME Types, NEW c \in Caller, SetDispatchRX(c), UNCHANGED serial
  PROVE  Types'
<1>1. rx_enabled' \in BOOLEAN BY DEF SetDispatchRX
<1>2. QED
  BY <1>1, SameQueues, SameUpper, SameLink DEF SetDispatchRX, Types, StateTypes, CallTypes

-----------------------------------------------------------------------------
(* Types: the modem, the receive thread and fep_thread_.                   *)

LEMMA AnswersTypes ==
  ASSUME NEW m \in Command
  PROVE  Answers(m) \subseteq Answer
<1>1. m.cmd \in Nat BY DEF Command
<1>2. TheLine(m.cmd) \in TextLine
      /\ \A x \in AnyResult \cup {P0, Err(0)} : TheResult(x, m.cmd) \in Result
  BY <1>1, AnswerTypes
<1>3. QED BY <1>2 DEF Answers, Answer

\* The command at the head is answered for good, or its first stage is.
LEMMA ModemRest ==
  ASSUME modem \in Seq(Command), modem # <<>>,
         modem' = [modem EXCEPT ![1].stage = 2] \/ modem' = Tail(modem)
  PROVE  modem' \in Seq(Command)
<1>1. CASE modem' = Tail(modem) BY <1>1
<1>2. CASE modem' = [modem EXCEPT ![1].stage = 2]
  <2>1. 1 \in DOMAIN modem /\ modem[1] \in Command OBVIOUS
  <2>2. [modem[1] EXCEPT !.stage = 2] \in Command
    <3> DEFINE two == 2
    <3>1. two \in 1..2 OBVIOUS
    <3> HIDE DEF two
    <3>2. [modem[1] EXCEPT !.stage = two] \in Command BY <2>1, <3>1 DEF Command
    <3>3. QED BY <3>2 DEF two
  <2>3. modem' = [modem EXCEPT ![1] = [modem[1] EXCEPT !.stage = 2]] BY <1>2
  <2>4. QED BY <2>1, <2>2, <2>3
<1>3. QED BY <1>1, <1>2

LEMMA ModemAnswersTypes ==
  ASSUME Types, ModemAnswers, UNCHANGED serial
  PROVE  Types'
<1>1. modem \in Seq(Command) /\ modem # <<>> /\ inbound \in Seq(Answer \cup RadioData)
  BY DEF ModemAnswers, Types, LinkTypes
<1>2. PICK a \in Answers(Head(modem)) :
        /\ inbound' = Append(inbound, a)
        /\ modem' = [modem EXCEPT ![1].stage = 2] \/ modem' = Tail(modem)
  BY DEF ModemAnswers
<1>3. a \in Answer BY <1>1, <1>2, AnswersTypes
<1>4. inbound' \in Seq(Answer \cup RadioData) BY <1>1, <1>2, <1>3, QueueOps
<1>5. modem' \in Seq(Command) BY <1>1, <1>2, ModemRest
<1>6. LinkTypes'
  BY <1>4, <1>5 DEF ModemAnswers, Types, LinkTypes, Command, Answer, RadioData
<1>7. QED
  BY <1>6, SameQueues, SameUpper
  DEF ModemAnswers, Types, StateTypes, CallTypes, CallRecord, Answer

LEMMA SameCall == ASSUME CallTypes, call' = call PROVE CallTypes'
BY DEF CallTypes

LEMMA RadioPacketTypes ==
  ASSUME Types, RadioPacket, UNCHANGED serial
  PROVE  Types'
<1>1. radio' \in Nat BY DEF RadioPacket, Types, LinkTypes
<1>2. TheData(radio') \in RadioData BY <1>1 DEF TheData, RadioData
<1>3. inbound' \in Seq(Answer \cup RadioData)
  BY <1>2, QueueOps DEF RadioPacket, Types, LinkTypes
<1>4. LinkTypes'
  BY <1>1, <1>3 DEF RadioPacket, Types, LinkTypes, Command, Answer, RadioData
<1>5. QED BY <1>4, SameQueues, SameUpper, SameCall DEF RadioPacket, Types, StateTypes

LEMMA DataInTypes ==
  ASSUME NEW p \in Answer \cup RadioData
  PROVE  DataIn(p) \subseteq Nat
BY DEF DataIn, Answer, RadioData, Result, TextLine

LEMMA LineLosesTypes ==
  ASSUME Types, LineLoses, UNCHANGED serial
  PROVE  Types'
<1>1. inbound' \in Seq(Answer \cup RadioData) /\ Head(inbound) \in Answer \cup RadioData
  BY QueueOps DEF LineLoses, Types, LinkTypes
<1>2. damaged' \in Nat
  BY DEF LineLoses, Types, LinkTypes
<1>3. LinkTypes'
  BY <1>1, <1>2 DEF LineLoses, Types, LinkTypes, Command, Answer, RadioData
<1>4. lost' \subseteq Nat
  BY <1>1, DataInTypes DEF LineLoses, Types, UpperTypes
<1>5. UpperTypes'
  BY <1>4 DEF LineLoses, Types, UpperTypes
<1>6. QED BY <1>3, <1>5, SameQueues, SameCall DEF LineLoses, Types, StateTypes

\* The receive thread is in a packet, and then there is one.
InPacket ==
  /\ uart = "entered" => inbound # <<>>
  /\ uart = "torn" => serial # "reliable"

LEMMA RxEnterTypes ==
  ASSUME Types, RxEnter \/ RxExit, UNCHANGED serial
  PROVE  Types'
<1>1. LinkTypes'
  BY DEF RxEnter, RxExit, Types, LinkTypes, Command, Answer, RadioData
<1>2. QED
  BY <1>1, SameQueues, SameUpper, SameCall DEF RxEnter, RxExit, Types, StateTypes

LEMMA PacketKinds ==
  ASSUME NEW p \in Answer \cup RadioData
  PROVE  /\ p.type = "kData" => p \in RadioData /\ p.id \in Nat
         /\ p.type = "kResult" => p \in Result
         /\ p.type = "kLine" => p \in TextLine
BY DEF Answer, RadioData, Result, TextLine

LEMMA DispatchTypes ==
  ASSUME Types, NEW p \in Answer \cup RadioData, Dispatch(p)
  PROVE  QueueTypes' /\ UpperTypes'
<1>1. QueueTypes /\ UpperTypes BY DEF Types
<1>2. UNCHANGED <<drain, hand, repeated, flushes, underflow>> BY DEF Dispatch
<1>3. CASE p.type = "kData" /\ DispatchData(p.id) /\ UNCHANGED <<result_queue_, line_queue_>>
  <2>1. p.id \in Nat BY <1>3, PacketKinds
  <2>2. CASE delivered' = Append(delivered, p.id) /\ UNCHANGED <<rx_queue_, held, lost>>
    <3>1. delivered' \in Seq(Nat) BY <1>1, <2>1, <2>2, QueueOps DEF UpperTypes
    <3>2. QueueTypes' BY <1>1, <1>3, <2>2, SameQueues DEF queues
    <3>3. UpperTypes' BY <1>1, <1>2, <2>2, <3>1 DEF UpperTypes
    <3>4. QED BY <3>2, <3>3
  <2>3. CASE /\ Len(rx_queue_) < RxSlots
             /\ rx_queue_' = Append(rx_queue_, p.id)
             /\ held' = held \cup {p.id} /\ UNCHANGED <<delivered, lost>>
    <3>1. rx_queue_' \in Seq(Nat) /\ Len(rx_queue_') <= RxSlots
      <4>1. rx_queue_ \in Seq(Nat) BY <1>1 DEF QueueTypes
      <4>2. /\ rx_queue_' \in Seq(Nat) /\ Len(rx_queue_') = Len(rx_queue_) + 1
            /\ Len(rx_queue_) \in Nat
        BY <2>1, <2>3, <4>1, QueueOps
      <4>3. QED BY <2>3, <4>2, ConstantsAssumption
    <3>2. held' \subseteq Nat BY <1>1, <2>1, <2>3 DEF UpperTypes
    <3>3. QueueTypes' BY <1>1, <1>3, <3>1 DEF QueueTypes, Result, TextLine
    <3>4. UpperTypes' BY <1>1, <1>2, <2>3, <3>2 DEF UpperTypes
    <3>5. QED BY <3>3, <3>4
  <2>4. CASE lost' = lost \cup {p.id} /\ UNCHANGED <<rx_queue_, held, delivered>>
    <3>1. lost' \subseteq Nat BY <1>1, <2>1, <2>4 DEF UpperTypes
    <3>2. QueueTypes' BY <1>1, <1>3, <2>4, SameQueues DEF queues
    <3>3. UpperTypes' BY <1>1, <1>2, <2>4, <3>1 DEF UpperTypes
    <3>4. QED BY <3>2, <3>3
  <2>5. QED BY <1>3, <2>2, <2>3, <2>4 DEF DispatchData
<1>4. CASE /\ p.type = "kResult"
           /\ result_queue_' = Push(result_queue_, ResultSlots, p)
           /\ UNCHANGED <<line_queue_, rx_queue_, held, delivered, lost>>
  <2>1. p \in Result BY <1>4, PacketKinds
  <2>2. result_queue_' \in Seq(Result) /\ Len(result_queue_') <= ResultSlots
    BY <1>1, <1>4, <2>1, PushTypes, ConstantsAssumption DEF QueueTypes
  <2>3. QueueTypes' BY <1>1, <1>4, <2>2 DEF QueueTypes, Result, TextLine
  <2>4. UpperTypes' BY <1>1, <1>2, <1>4 DEF UpperTypes
  <2>5. QED BY <2>3, <2>4
<1>5. CASE /\ p.type = "kLine"
           /\ line_queue_' = Push(line_queue_, LineSlots, p)
           /\ UNCHANGED <<result_queue_, rx_queue_, held, delivered, lost>>
  <2>1. p \in TextLine BY <1>5, PacketKinds
  <2>2. line_queue_' \in Seq(TextLine) /\ Len(line_queue_') <= LineSlots
    BY <1>1, <1>5, <2>1, PushTypes, ConstantsAssumption DEF QueueTypes
  <2>3. QueueTypes' BY <1>1, <1>5, <2>2 DEF QueueTypes, Result, TextLine
  <2>4. UpperTypes' BY <1>1, <1>2, <1>5 DEF UpperTypes
  <2>5. QED BY <2>3, <2>4
<1>6. QED BY <1>3, <1>4, <1>5 DEF Dispatch

LEMMA RxDispatchTypes ==
  ASSUME Types, InPacket, RxDispatch, UNCHANGED serial
  PROVE  Types'
<1>1. inbound \in Seq(Answer \cup RadioData) /\ inbound # <<>>
  BY DEF RxDispatch, InPacket, Types, LinkTypes
<1>2. Head(inbound) \in Answer \cup RadioData /\ inbound' \in Seq(Answer \cup RadioData)
  BY <1>1, QueueOps DEF RxDispatch
<1>3. Dispatch(Head(inbound)) /\ uart' = "dispatched" /\ radio' = radio
  BY DEF RxDispatch
<1>4. QueueTypes' /\ UpperTypes' BY <1>2, <1>3, DispatchTypes
<1>5. UNCHANGED <<state_, rx_enabled, call, issued, modem, damaged>>
  BY <1>3 DEF Dispatch
<1>6. LinkTypes'
  BY <1>2, <1>3, <1>5 DEF Types, LinkTypes, Command, Answer, RadioData
<1>7. QED BY <1>4, <1>5, <1>6, SameCall DEF Types, StateTypes

\* A packet that was never sent looks like one that was.
LEMMA MadeUpTypes ==
  ASSUME Types, NEW p \in MadeUp
  PROVE  /\ p \in Answer \cup RadioData
         /\ p.type = "kData" => p.id = radio + 1 /\ p.id \in Nat
<1>1. radio \in Nat /\ 0 \in Nat /\ radio + 1 \in Nat BY DEF Types, LinkTypes
<1>2. \A x \in AnyResult : TheResult(x, 0) \in Answer BY <1>1, AnswerTypes DEF Answer
<1>3. TheLine(0) \in Answer BY <1>1, AnswerTypes DEF Answer
<1>4. TheData(radio + 1) \in RadioData BY <1>1 DEF TheData, RadioData
<1>5. \A x : TheResult(x, 0).type = "kResult" BY DEF TheResult
<1>6. TheLine(0).type = "kLine" /\ TheData(radio + 1).id = radio + 1
  BY DEF TheLine, TheData
<1>7. \/ \E x \in AnyResult : p = TheResult(x, 0)
      \/ p = TheLine(0)
      \/ p = TheData(radio + 1)
  BY DEF MadeUp
<1>8. QED BY <1>1, <1>2, <1>3, <1>4, <1>5, <1>6, <1>7

LEMMA MakeUpTypes ==
  ASSUME Types, MakeUp, UNCHANGED serial
  PROVE  Types'
<1>1. PICK p \in MadeUp : Dispatch(p) /\ radio' = IF p.type = "kData" THEN p.id ELSE radio
  BY DEF MakeUp
<1>2. p \in Answer \cup RadioData /\ (p.type = "kData" => p.id \in Nat) BY MadeUpTypes
<1>3. QueueTypes' /\ UpperTypes' BY <1>1, <1>2, DispatchTypes
<1>4. UNCHANGED <<state_, rx_enabled, call, issued, modem, damaged, inbound>>
  BY <1>1 DEF Dispatch, MakeUp
<1>5. radio' \in Nat BY <1>1, <1>2 DEF Types, LinkTypes
<1>6. uart' = "dispatched" BY DEF MakeUp
<1>7. LinkTypes'
  BY <1>4, <1>5, <1>6 DEF Types, LinkTypes, Command, Answer, RadioData
<1>8. QED BY <1>3, <1>4, <1>7, SameCall DEF Types, StateTypes

LEMMA DrainTypes ==
  ASSUME Types, DrainStep, UNCHANGED serial
  PROVE  Types'
<1>1. CASE DrainCheck
  <2>1. UpperTypes' BY <1>1 DEF DrainCheck, Types, UpperTypes
  <2>2. QED BY <1>1, <2>1, SameQueues, SameLink, SameCall DEF DrainCheck, Types, StateTypes
<1>2. CASE DrainPop
  <2>1. rx_queue_ \in Seq(Nat) /\ Len(rx_queue_) <= RxSlots BY DEF Types, QueueTypes
  <2>2. rx_queue_' = IF rx_queue_ = <<>> THEN <<>> ELSE Tail(rx_queue_) BY <1>2 DEF DrainPop
  <2>3. rx_queue_' \in Seq(Nat) /\ Len(rx_queue_') <= RxSlots
    BY <2>1, <2>2, RestOfQueue, ConstantsAssumption
  <2>4. QueueTypes' BY <1>2, <2>3 DEF DrainPop, Types, QueueTypes, Result, TextLine
  <2>7. hand' \in Nat
    <3>1. CASE rx_queue_ # <<>>
      <4>1. hand' = Head(rx_queue_) BY <1>2, <3>1 DEF DrainPop
      <4>2. QED BY <2>1, <3>1, <4>1, QueueOps
    <3>2. CASE rx_queue_ = <<>>
      <4>1. hand' \in held \cup {0} BY <1>2, <3>2 DEF DrainPop
      <4>2. QED BY <4>1 DEF Types, UpperTypes
    <3>3. QED BY <3>1, <3>2
  <2>8. underflow' \in BOOLEAN
    <3>1. underflow \in BOOLEAN BY DEF Types, UpperTypes
    <3>2. QED BY <1>2, <3>1 DEF DrainPop
  <2>5. drain' \in {"holding", "holdingStale"} /\ hand' \in Nat /\ underflow' \in BOOLEAN
    BY <1>2, <2>7, <2>8 DEF DrainPop
  <2>6. UpperTypes' BY <1>2, <2>5 DEF DrainPop, Types, UpperTypes
  <2>9. QED BY <1>2, <2>4, <2>6, SameLink, SameCall DEF DrainPop, Types, StateTypes
<1>3. CASE DrainDispatch
  <2>1. hand \in Nat /\ delivered \in Seq(Nat) /\ repeated \in Seq(Nat)
    BY DEF Types, UpperTypes
  <2>5. Append(delivered, hand) \in Seq(Nat) /\ Append(repeated, hand) \in Seq(Nat)
    BY <2>1
  <2>2. delivered' \in Seq(Nat) /\ repeated' \in Seq(Nat)
    BY <1>3, <2>1, <2>5, Zenon DEF DrainDispatch
  <2>3. UpperTypes' BY <1>3, <2>2 DEF DrainDispatch, Types, UpperTypes
  <2>4. QED BY <1>3, <2>3, SameQueues, SameLink, SameCall DEF DrainDispatch, Types, StateTypes
<1>4. QED BY <1>1, <1>2, <1>3 DEF DrainStep

-----------------------------------------------------------------------------
(***************************************************************************)
(* What a call record looks like at each point: which commands get there,  *)
(* what they have read, and what a Send that has returned says of it.      *)
(***************************************************************************)
Both(h) == Len(h) = 2 /\ \A i \in 1..2 : h[i].ok

FirstOk(h) == h = <<>> \/ \E r \in Result : h = <<r>> /\ r.ok

ShapeOf(k) ==
  /\ k.pc # "out" => k.op # "none"
  /\ k.pc \in {"wait", "acquire", "release", "line", "popLine", "flush"} => k.heard = <<>>
  /\ k.pc = "release" => k.op \notin {"Send", "GetRegister"}
  /\ k.pc \in {"result", "popResult"} =>
       /\ k.op \notin {"GetRegister", "Version", "ResetNoResult"}
       /\ IF k.op = "Send" THEN FirstOk(k.heard) ELSE k.heard = <<>>
  /\ k.pc \in {"line", "popLine"} => k.op \in {"GetRegister", "Version"}
  /\ k.pc = "flush" => k.op = "ResetNoResult"
  /\ k.pc = "out" /\ k.op = "Send" => (k.out = "kNoError" <=> Both(k.heard))

Shape == \A c \in Caller : ShapeOf(call[c])

(***************************************************************************)
(* NoEmptyPop alone is not inductive: it does not say that what a look at  *)
(* a queue has found is still there.                                       *)
(***************************************************************************)
Seen ==
  SoleCaller => \A c \in Caller :
    /\ At(c, "popResult") => result_queue_ # <<>>
    /\ At(c, "popLine") => line_queue_ # <<>>

DrainSeen == drain = "popping" => rx_queue_ # <<>> \/ flushes # 0

Sound == Types /\ InPacket /\ Shape /\ Seen /\ DrainSeen /\ NoEmptyPop

LEMMA ShapeUpdated ==
  ASSUME CallTypes, Shape, NEW c \in Caller, NEW k, ShapeOf(k), call' = [call EXCEPT ![c] = k]
  PROVE  Shape'
<1>1. ASSUME NEW d \in Caller PROVE ShapeOf(call'[d])
  <2>1. CASE d = c BY <2>1 DEF CallTypes
  <2>2. CASE d # c BY <2>2 DEF CallTypes, Shape
  <2>3. QED BY <2>1, <2>2
<1>2. QED BY <1>1 DEF Shape

LEMMA CallShape ==
  ASSUME Types, Shape, NEW c \in Caller, NEW o \in Op, Call(c, o)
  PROVE  Shape'
<1> DEFINE k == [pc |-> "wait", op |-> o, cmd |-> 0, heard |-> <<>>, out |-> "none"]
<1>1. o # "none" BY ConstantsAssumption DEF Ops
<1>2. ShapeOf(k) BY <1>1 DEF ShapeOf
<1>3. call' = [call EXCEPT ![c] = k] BY DEF Call
<1> HIDE DEF k
<1>4. QED BY <1>2, <1>3, ShapeUpdated DEF Types

\* A caller that only moves on, keeps the rest of its record.
LEMMA GoShape ==
  ASSUME Types, Shape, NEW c \in Caller, NEW w \in PC, Go(c, w),
         \A k \in CallRecord : k = [call[c] EXCEPT !.pc = w] => ShapeOf(k)
  PROVE  Shape'
<1>1. [call[c] EXCEPT !.pc = w] \in CallRecord BY DEF Types, CallTypes, CallRecord
<1>2. call' = [call EXCEPT ![c] = [call[c] EXCEPT !.pc = w]] BY DEF Go
<1>3. QED BY <1>1, <1>2, ShapeUpdated DEF Types

LEMMA SeeShape ==
  ASSUME Types, Shape, NEW c \in Caller, See(c)
  PROVE  Shape'
<1>1. call[c] \in CallRecord /\ ShapeOf(call[c]) BY DEF Types, CallTypes, Shape
<1>2. PICK w \in {"acquire", "popResult", "popLine"} :
        /\ Go(c, w)
        /\ w = "acquire" => call[c].pc = "wait"
        /\ w = "popResult" => call[c].pc = "result"
        /\ w = "popLine" => call[c].pc = "line"
  BY DEF See, Waits, At
<1>3. ASSUME NEW k \in CallRecord, k = [call[c] EXCEPT !.pc = w] PROVE ShapeOf(k)
  <2>1. /\ k.pc = w /\ k.op = call[c].op /\ k.heard = call[c].heard
    BY <1>1, <1>3 DEF CallRecord
  <2>2. QED BY <1>1, <1>2, <2>1 DEF ShapeOf
<1>4. w \in PC BY <1>2, SomePoints
<1>5. QED BY <1>2, <1>3, <1>4, GoShape

LEMMA ReleaseShape ==
  ASSUME Types, Shape, NEW c \in Caller, Release(c)
  PROVE  Shape'
<1>1. call[c] \in CallRecord /\ ShapeOf(call[c]) BY DEF Types, CallTypes, Shape
<1>2. PICK w \in {"line", "flush", "result"} :
        /\ Go(c, w) /\ call[c].pc = "release"
        /\ w = "line" <=> call[c].op = "Version"
        /\ w = "flush" <=> call[c].op = "ResetNoResult"
  BY DEF Release, At
<1>3. ASSUME NEW k \in CallRecord, k = [call[c] EXCEPT !.pc = w] PROVE ShapeOf(k)
  <2>1. /\ k.pc = w /\ k.op = call[c].op /\ k.heard = call[c].heard
    BY <1>1, <1>3 DEF CallRecord
  <2>2. QED BY <1>1, <1>2, <2>1 DEF ShapeOf
<1>4. w \in PC BY <1>2, SomePoints
<1>5. QED BY <1>2, <1>3, <1>4, GoShape

\* A call that is given up has not read two results.
LEMMA NotBoth ==
  ASSUME NEW h, h = <<>> \/ \E r \in Result : h = <<r>>
  PROVE  ~Both(h)
BY DEF Both

LEMMA GiveUpShape ==
  ASSUME Types, Shape, NEW c \in Caller, NEW out \in Outcome, Return(c, out),
         call[c].pc # "out", call[c].pc # "popResult", out # "kNoError"
  PROVE  Shape'
<1> DEFINE k == [call[c] EXCEPT !.pc = "out", !.out = out]
<1>1. call[c] \in CallRecord /\ ShapeOf(call[c]) BY DEF Types, CallTypes, Shape
<1>2. call' = [call EXCEPT ![c] = k] BY DEF Return, Types, CallTypes
<1>3. k.pc = "out" /\ k.out = out /\ k.op = call[c].op /\ k.heard = call[c].heard
  BY <1>1 DEF CallRecord
<1> HIDE DEF k
<1>4. call[c].op = "Send" => call[c].heard = <<>> \/ \E r \in Result : call[c].heard = <<r>>
  <2>1. SUFFICES ASSUME call[c].op = "Send"
                 PROVE  call[c].heard = <<>> \/ \E r \in Result : call[c].heard = <<r>>
    OBVIOUS
  <2>2. CASE call[c].pc = "result" BY <1>1, <2>1, <2>2 DEF ShapeOf, FirstOk
  <2>3. CASE call[c].pc # "result"
    <3>1. call[c].pc \in PC BY <1>1 DEF CallRecord
    <3>2. QED BY <1>1, <2>3, <3>1 DEF ShapeOf, PC
  <2>4. QED BY <2>2, <2>3
<1>5. k.op = "Send" => ~Both(k.heard) BY <1>3, <1>4, NotBoth
<1>6. ShapeOf(k) BY <1>3, <1>5 DEF ShapeOf
<1>7. QED BY <1>2, <1>6, ShapeUpdated DEF Types

LEMMA TimeOutShape ==
  ASSUME Types, Shape, NEW c \in Caller, TimeOut(c)
  PROVE  Shape'
<1>1. PICK out \in {"kTimeout", "kInvalidResponse", "void", "error"} : Return(c, out)
  BY DEF TimeOut
<1>2. out \in Outcome /\ out # "kNoError" BY <1>1, SomeOutcomes
<1>3. call[c].pc # "out" /\ call[c].pc # "popResult" BY DEF TimeOut, Waits
<1>4. QED BY <1>1, <1>2, <1>3, GiveUpShape

LEMMA FlushShape ==
  ASSUME Types, Shape, NEW c \in Caller, FlushQueue(c)
  PROVE  Shape'
<1>1. Return(c, "void") /\ call[c].pc = "flush" BY DEF FlushQueue, At
<1>2. "void" \in Outcome BY SomeOutcomes
<1>3. QED BY <1>1, <1>2, GiveUpShape

LEMMA AcquireShape ==
  ASSUME Types, Shape, NEW c \in Caller, Acquire(c)
  PROVE  Shape'
<1>1. call[c] \in CallRecord /\ ShapeOf(call[c]) BY DEF Types, CallTypes, Shape
<1>2. PICK w \in {"result", "line", "release"} :
        /\ call' = [call EXCEPT ![c].cmd = issued', ![c].pc = w]
        /\ w = "result" <=> call[c].op = "Send"
        /\ w = "line" <=> call[c].op = "GetRegister"
  BY DEF Acquire
<1> DEFINE k == [call[c] EXCEPT !.cmd = issued', !.pc = w]
<1>3. call' = [call EXCEPT ![c] = k] BY <1>2 DEF Types, CallTypes
<1>4. k.pc = w /\ k.op = call[c].op /\ k.heard = call[c].heard BY <1>1 DEF CallRecord
<1>5. call[c].pc = "acquire" BY DEF Acquire, At
<1> HIDE DEF k
<1>6. ShapeOf(k) BY <1>1, <1>2, <1>4, <1>5 DEF ShapeOf, FirstOk
<1>7. QED BY <1>3, <1>6, ShapeUpdated DEF Types

LEMMA PopLineShape ==
  ASSUME Types, Shape, NEW c \in Caller, PopLine(c)
  PROVE  Shape'
<1> DEFINE l == IF line_queue_ = <<>> THEN TheLine(0) ELSE Head(line_queue_)
<1>1. call[c] \in CallRecord /\ ShapeOf(call[c]) BY DEF Types, CallTypes, Shape
<1>2. call' = [call EXCEPT ![c].pc = "out", ![c].out = "value", ![c].heard = <<l>>]
  BY DEF PopLine
<1> HIDE DEF l
<1> DEFINE k == [call[c] EXCEPT !.pc = "out", !.out = "value", !.heard = <<l>>]
<1>3. call' = [call EXCEPT ![c] = k] BY <1>2 DEF Types, CallTypes
<1>4. k.pc = "out" /\ k.op = call[c].op BY <1>1 DEF CallRecord
<1>5. call[c].pc = "popLine" BY DEF PopLine, At
<1> HIDE DEF k
<1>6. k.op # "Send" BY <1>1, <1>4, <1>5 DEF ShapeOf
<1>7. ShapeOf(k) BY <1>4, <1>6 DEF ShapeOf
<1>8. QED BY <1>3, <1>7, ShapeUpdated DEF Types

\* Send says kNoError exactly when the second of two results is good, too.
LEMMA InterpretSend ==
  ASSUME NEW c, call[c].op = "Send", NEW r \in Result
  PROVE  /\ call[c].heard = <<>> => Interpret(c, r) = IF r.ok THEN "more" ELSE "kInvalidResponse"
         /\ call[c].heard # <<>> => /\ Interpret(c, r) = "kNoError" <=> r.ok
                                    /\ Interpret(c, r) # "more"
                                    /\ Interpret(c, r) = "reset" => ~r.ok
<1>1. r.ok \in BOOLEAN BY DEF Result
<1>2. /\ Transmitted(r) = "kNoError" <=> r.ok
      /\ Transmitted(r) # "more" /\ (Transmitted(r) = "reset" => ~r.ok)
  BY <1>1 DEF Transmitted
<1>3. Interpret(c, r) = IF call[c].heard = <<>>
                        THEN IF r.ok THEN "more" ELSE "kInvalidResponse"
                        ELSE Transmitted(r)
  BY DEF Interpret
<1>4. CASE call[c].heard = <<>> BY <1>3, <1>4
<1>5. CASE call[c].heard # <<>>
  <2>1. Interpret(c, r) = Transmitted(r) BY <1>3, <1>5
  <2>2. QED BY <1>2, <1>5, <2>1
<1>6. QED BY <1>4, <1>5

LEMMA InterpretOther ==
  ASSUME NEW c, call[c].op # "Send", NEW r
  PROVE  Interpret(c, r) = IF call[c].op = "ResetInSend" THEN "kInvalidCommand" ELSE "value"
<1>1. CASE call[c].op = "ResetInSend" BY <1>1 DEF Interpret
<1>2. CASE call[c].op # "ResetInSend" BY <1>2 DEF Interpret
<1>3. QED BY <1>1, <1>2

LEMMA AppendToOne ==
  ASSUME NEW q \in Result, NEW r \in Result
  PROVE  /\ Len(Append(<<q>>, r)) = 2
         /\ Append(<<q>>, r)[1] = q /\ Append(<<q>>, r)[2] = r
<1>1. <<q>> \in Seq(Result) /\ Len(<<q>>) = 1 /\ <<q>>[1] = q OBVIOUS
<1>2. QED BY <1>1

LEMMA PopResultShape ==
  ASSUME Types, Shape, NEW c \in Caller, NEW r \in Result, call[c].pc = "popResult",
         PopResultBy(c, r)
  PROVE  Shape'
<1> DEFINE read == [call[c] EXCEPT !.heard = Append(@, r)]
           what == Interpret(c, r)
<1>1. call[c] \in CallRecord /\ ShapeOf(call[c]) BY DEF Types, CallTypes, Shape
<1>2. /\ read.op = call[c].op /\ read.heard = Append(call[c].heard, r)
      /\ read \in [pc : PC, op : OpOfCall, cmd : Nat, heard : Seq(Answer), out : Outcome]
  <2>1. Append(call[c].heard, r) \in Seq(Answer)
    BY <1>1, QueueOps DEF CallRecord, Answer
  <2>2. QED BY <1>1, <2>1 DEF CallRecord
<1>3. call[c].op # "none" BY <1>1 DEF ShapeOf
<1> HIDE DEF read
<1>4. CASE call[c].op # "Send"
  <2> DEFINE k == [read EXCEPT !.pc = "out", !.out = what]
  <2>1. call' = [call EXCEPT ![c] = k]
    BY <1>4, InterpretOther DEF PopResultBy, read
  <2>2. k.pc = "out" /\ k.op # "Send" BY <1>2, <1>4
  <2>3. ShapeOf(k) BY <2>2 DEF ShapeOf
  <2> HIDE DEF k
  <2>4. QED BY <2>1, <2>3, ShapeUpdated DEF Types
<1>5. CASE call[c].op = "Send" /\ call[c].heard = <<>>
  <2>1. read.heard = <<r>> BY <1>2, <1>5
  <2>2. CASE r.ok
    <3> DEFINE k == [read EXCEPT !.pc = "result"]
    <3>1. call' = [call EXCEPT ![c] = k]
      BY <1>5, <2>2, InterpretSend DEF PopResultBy, read
    <3>2. k.pc = "result" /\ k.op = "Send" /\ k.heard = <<r>> BY <1>2, <1>5, <2>1
    <3> HIDE DEF k
    <3>3. ShapeOf(k) BY <2>2, <3>2 DEF ShapeOf, FirstOk
    <3>4. QED BY <3>1, <3>3, ShapeUpdated DEF Types
  <2>3. CASE ~r.ok
    <3> DEFINE k == [read EXCEPT !.pc = "out", !.out = "kInvalidResponse"]
    <3>1. call' = [call EXCEPT ![c] = k]
      BY <1>5, <2>3, InterpretSend DEF PopResultBy, read
    <3>2. k.pc = "out" /\ k.out = "kInvalidResponse" /\ k.heard = <<r>> BY <1>2, <2>1
    <3> HIDE DEF k
    <3>3. ~Both(k.heard) BY <3>2, NotBoth
    <3>4. ShapeOf(k) BY <3>2, <3>3 DEF ShapeOf
    <3>5. QED BY <3>1, <3>4, ShapeUpdated DEF Types
  <2>4. QED BY <2>2, <2>3
<1>6. CASE call[c].op = "Send" /\ call[c].heard # <<>>
  <2>1. PICK q \in Result : call[c].heard = <<q>> /\ q.ok
    BY <1>1, <1>6 DEF ShapeOf, FirstOk
  <2>2. Len(read.heard) = 2 /\ read.heard[1] = q /\ read.heard[2] = r
    BY <1>2, <2>1, AppendToOne
  <2>3. Both(read.heard) <=> r.ok BY <2>1, <2>2 DEF Both
  <2>4. what # "more" /\ (what = "kNoError" <=> r.ok) /\ (what = "reset" => ~r.ok)
    BY <1>6, InterpretSend
  <2> HIDE DEF what
  <2>5. CASE what = "reset"
    <3> DEFINE k == [read EXCEPT !.pc = "wait", !.heard = <<>>, !.op = "ResetInSend"]
    <3>1. call' = [call EXCEPT ![c] = k] BY <2>5 DEF PopResultBy, read, what
    <3>2. k.pc = "wait" /\ k.op = "ResetInSend" /\ k.heard = <<>> BY <1>2
    <3> HIDE DEF k
    <3>3. ShapeOf(k) BY <3>2 DEF ShapeOf
    <3>4. QED BY <3>1, <3>3, ShapeUpdated DEF Types
  <2>6. CASE what # "reset"
    <3> DEFINE k == [read EXCEPT !.pc = "out", !.out = what]
    <3>1. call' = [call EXCEPT ![c] = k] BY <2>4, <2>6 DEF PopResultBy, read, what
    <3>2. k.pc = "out" /\ k.out = what /\ k.heard = read.heard BY <1>2
    <3> HIDE DEF k
    <3>3. k.out = "kNoError" <=> Both(k.heard) BY <2>3, <2>4, <3>2
    <3>4. ShapeOf(k) BY <3>2, <3>3 DEF ShapeOf
    <3>5. QED BY <3>1, <3>4, ShapeUpdated DEF Types
  <2>7. QED BY <2>5, <2>6
<1>7. QED BY <1>4, <1>5, <1>6

-----------------------------------------------------------------------------
(* The queues are used as they are meant to be.                            *)

\* Where a caller goes, nobody else goes; with a sole caller there is no other.
LEMMA SeenUpdated ==
  ASSUME CallTypes, Seen, NEW c \in Caller, NEW k, call' = [call EXCEPT ![c] = k],
         k.pc = "popResult" => result_queue_' # <<>>,
         k.pc = "popLine" => line_queue_' # <<>>
  PROVE  Seen'
<1>1. SUFFICES ASSUME SoleCaller, NEW d \in Caller
               PROVE  /\ call'[d].pc = "popResult" => result_queue_' # <<>>
                      /\ call'[d].pc = "popLine" => line_queue_' # <<>>
  BY DEF Seen, SoleCaller, At
<1>2. d = c BY <1>1 DEF SoleCaller
<1>3. call'[d] = k BY <1>2 DEF CallTypes
<1>4. QED BY <1>3

\* A step that leaves what the callers and the threads have seen alone.
LEMMA SameSeen ==
  ASSUME Seen, DrainSeen, NoEmptyPop, UNCHANGED <<call, queues, drain, flushes, underflow>>
  PROVE  Seen' /\ DrainSeen' /\ NoEmptyPop'
BY DEF Seen, DrainSeen, NoEmptyPop, SoleCaller, At, queues

LEMMA SameDrain ==
  ASSUME DrainSeen, NoEmptyPop, UNCHANGED <<rx_queue_, drain, flushes, underflow>>
  PROVE  DrainSeen' /\ NoEmptyPop'
BY DEF DrainSeen, NoEmptyPop, SoleCaller

LEMMA SameShape == ASSUME Shape, call' = call PROVE Shape'
BY DEF Shape

LEMMA CallSound ==
  ASSUME Sound, NEW c \in Caller, NEW o \in Op, Call(c, o), UNCHANGED serial
  PROVE  Sound'
<1> USE DEF Sound
<1>1. Types' BY CallTypesStep
<1>2. Shape' BY CallShape
<1>3. InPacket' BY DEF Call, InPacket, link
<1>4. Seen'
  <2> DEFINE k == [pc |-> "wait", op |-> o, cmd |-> 0, heard |-> <<>>, out |-> "none"]
  <2>1. call' = [call EXCEPT ![c] = k] BY DEF Call
  <2>2. k.pc = "wait" OBVIOUS
  <2> HIDE DEF k
  <2>3. QED BY <2>1, <2>2, SeenUpdated DEF Types
<1>5. DrainSeen' /\ NoEmptyPop' BY SameDrain DEF Call, queues, upper
<1>6. QED BY <1>1, <1>2, <1>3, <1>4, <1>5

\* Where the steps lead that change nothing but the point of a call.
LEMMA GoSeen ==
  ASSUME Types, Seen, NEW c \in Caller, NEW w \in PC, Go(c, w), UNCHANGED queues,
         w = "popResult" => result_queue_ # <<>>,
         w = "popLine" => line_queue_ # <<>>
  PROVE  Seen'
<1> DEFINE k == [call[c] EXCEPT !.pc = w]
<1>1. call' = [call EXCEPT ![c] = k] BY DEF Go
<1>2. k.pc = w BY DEF Types, CallTypes, CallRecord
<1> HIDE DEF k
<1>3. QED BY <1>1, <1>2, SeenUpdated DEF Types, queues

LEMMA ReturnSeen ==
  ASSUME Types, Seen, NEW c \in Caller, NEW out, Return(c, out)
  PROVE  Seen'
<1> DEFINE k == [call[c] EXCEPT !.pc = "out", !.out = out]
<1>1. call' = [call EXCEPT ![c] = k] BY DEF Return, Types, CallTypes
<1>2. k.pc = "out" BY DEF Types, CallTypes, CallRecord
<1> HIDE DEF k
<1>3. QED BY <1>1, <1>2, SeenUpdated DEF Types

LEMMA SeeSound ==
  ASSUME Sound, NEW c \in Caller, See(c), UNCHANGED serial
  PROVE  Sound'
<1> USE DEF Sound
<1>1. Types' BY SeeTypes
<1>2. Shape' BY SeeShape
<1>3. InPacket' BY DEF See, InPacket, link
<1>4. PICK w \in {"acquire", "popResult", "popLine"} :
        /\ Go(c, w)
        /\ w = "popResult" => result_queue_ # <<>>
        /\ w = "popLine" => line_queue_ # <<>>
  BY DEF See, Waits, At, WaitedFor
<1>5. w \in PC BY <1>4, SomePoints
<1>6. Seen' BY <1>4, <1>5, GoSeen DEF See
<1>7. DrainSeen' /\ NoEmptyPop' BY SameDrain DEF See, queues, upper
<1>8. QED BY <1>1, <1>2, <1>3, <1>6, <1>7

LEMMA TimeOutSound ==
  ASSUME Sound, NEW c \in Caller, TimeOut(c), UNCHANGED serial
  PROVE  Sound'
<1> USE DEF Sound
<1>1. Types' BY TimeOutTypes
<1>2. Shape' BY TimeOutShape
<1>3. InPacket' BY DEF TimeOut, InPacket, link
<1>4. \E out : Return(c, out) BY DEF TimeOut
<1>5. Seen' BY <1>4, ReturnSeen
<1>6. DrainSeen' /\ NoEmptyPop' BY SameDrain DEF TimeOut, queues, upper
<1>7. QED BY <1>1, <1>2, <1>3, <1>5, <1>6

LEMMA AcquireSound ==
  ASSUME Sound, NEW c \in Caller, Acquire(c), UNCHANGED serial
  PROVE  Sound'
<1> USE DEF Sound
<1>1. call[c].op # "none" BY DEF Acquire, At, Shape, ShapeOf
<1>2. Types' BY <1>1, AcquireTypes
<1>3. Shape' BY AcquireShape
<1>4. InPacket' BY DEF Acquire, InPacket
<1>5. PICK w \in {"result", "line", "release"} :
        call' = [call EXCEPT ![c].cmd = issued', ![c].pc = w]
  BY DEF Acquire
<1>6. Seen'
  <2> DEFINE k == [call[c] EXCEPT !.cmd = issued', !.pc = w]
  <2>1. call' = [call EXCEPT ![c] = k] BY <1>5 DEF Types, CallTypes
  <2>2. k.pc = w BY DEF Types, CallTypes, CallRecord
  <2> HIDE DEF k
  <2>3. QED BY <1>5, <2>1, <2>2, SeenUpdated DEF Types
<1>7. DrainSeen' /\ NoEmptyPop' BY SameDrain DEF Acquire, queues, upper
<1>8. QED BY <1>2, <1>3, <1>4, <1>6, <1>7

LEMMA ReleaseSound ==
  ASSUME Sound, NEW c \in Caller, Release(c), UNCHANGED serial
  PROVE  Sound'
<1> USE DEF Sound
<1>1. Types' BY ReleaseTypes
<1>2. Shape' BY ReleaseShape
<1>3. InPacket' BY DEF Release, InPacket, link
<1>4. PICK w \in {"line", "flush", "result"} : Go(c, w) BY DEF Release
<1>5. w \in PC BY <1>4, SomePoints
<1>6. Seen' BY <1>4, <1>5, GoSeen DEF Release
<1>7. DrainSeen' /\ NoEmptyPop' BY SameDrain DEF Release, queues, upper
<1>8. QED BY <1>1, <1>2, <1>3, <1>6, <1>7

\* A sole caller pops only what it has seen.
LEMMA PopResultSound ==
  ASSUME Sound, NEW c \in Caller, PopResult(c), UNCHANGED serial
  PROVE  Sound'
<1> USE DEF Sound
<1>1. Types' BY PopResultTypes
<1>2. PICK r \in Result : PopResultBy(c, r)
  BY PoppedResult DEF PopResult, PopResultBy
<1>3. call[c].pc = "popResult" BY DEF PopResult, At
<1>4. Shape' BY <1>2, <1>3, PopResultShape
<1>5. InPacket' BY DEF PopResult, InPacket, link
<1>6. Seen'
  <2> DEFINE read == [call[c] EXCEPT !.heard = Append(@, r)]
             what == Interpret(c, r)
  <2>1. PICK k : /\ call' = [call EXCEPT ![c] = k]
                 /\ k \in {[read EXCEPT !.pc = "result"],
                           [read EXCEPT !.pc = "wait", !.heard = <<>>, !.op = "ResetInSend"],
                           [read EXCEPT !.pc = "out", !.out = what]}
    <3> HIDE DEF read, what
    <3>1. call' = [call EXCEPT ![c] =
              CASE what = "more"  -> [read EXCEPT !.pc = "result"]
                [] what = "reset" -> [read EXCEPT !.pc = "wait", !.heard = <<>>,
                                                  !.op = "ResetInSend"]
                [] OTHER          -> [read EXCEPT !.pc = "out", !.out = what]]
      BY <1>2 DEF PopResultBy, read, what
    <3>2. QED BY <3>1
  <2>2. read \in [pc : PC, op : OpOfCall, cmd : Nat, heard : Seq(Answer), out : Outcome]
    <3>1. Append(call[c].heard, r) \in Seq(Answer)
      BY QueueOps DEF Types, CallTypes, CallRecord, Answer
    <3>2. QED BY <3>1 DEF Types, CallTypes, CallRecord
  <2> HIDE DEF read, what
  <2>3. k.pc \in {"result", "wait", "out"} BY <2>1, <2>2
  <2>4. QED BY <2>1, <2>3, SeenUpdated DEF Types
<1>7. DrainSeen' BY DEF PopResult, DrainSeen, upper
<1>8. NoEmptyPop'
  <2>1. SUFFICES ASSUME SoleCaller, flushes = 0 PROVE ~underflow'
    BY DEF NoEmptyPop, SoleCaller, PopResult, upper
  <2>2. result_queue_ # <<>> /\ ~underflow BY <1>3, <2>1 DEF Seen, NoEmptyPop, At
  <2>3. QED BY <2>2 DEF PopResult
<1>9. QED BY <1>1, <1>4, <1>5, <1>6, <1>7, <1>8

LEMMA PopLineSound ==
  ASSUME Sound, NEW c \in Caller, PopLine(c), UNCHANGED serial
  PROVE  Sound'
<1> USE DEF Sound
<1>1. Types' BY PopLineTypes
<1>2. Shape' BY PopLineShape
<1>3. InPacket' BY DEF PopLine, InPacket, link
<1> DEFINE l == IF line_queue_ = <<>> THEN TheLine(0) ELSE Head(line_queue_)
<1>4. call' = [call EXCEPT ![c].pc = "out", ![c].out = "value", ![c].heard = <<l>>]
  BY DEF PopLine
<1> HIDE DEF l
<1>5. Seen'
  <2> DEFINE k == [call[c] EXCEPT !.pc = "out", !.out = "value", !.heard = <<l>>]
  <2>1. call' = [call EXCEPT ![c] = k] BY <1>4 DEF Types, CallTypes
  <2>2. k.pc = "out" BY DEF Types, CallTypes, CallRecord
  <2> HIDE DEF k
  <2>3. QED BY <2>1, <2>2, SeenUpdated DEF Types
<1>6. DrainSeen' BY DEF PopLine, DrainSeen, upper
<1>7. NoEmptyPop'
  <2>1. SUFFICES ASSUME SoleCaller, flushes = 0 PROVE ~underflow'
    BY DEF NoEmptyPop, SoleCaller, PopLine, upper
  <2>2. line_queue_ # <<>> /\ ~underflow BY <2>1 DEF Seen, NoEmptyPop, At, PopLine
  <2>3. QED BY <2>2 DEF PopLine
<1>8. QED BY <1>1, <1>2, <1>3, <1>5, <1>6, <1>7

\* After a flush, fep_thread_ may find nothing: flushes records it.
LEMMA FlushQueueSound ==
  ASSUME Sound, NEW c \in Caller, FlushQueue(c), UNCHANGED serial
  PROVE  Sound'
<1> USE DEF Sound
<1>1. Types' BY FlushQueueTypes
<1>2. Shape' BY FlushShape
<1>3. InPacket' BY DEF FlushQueue, InPacket, link
<1>4. Seen' BY ReturnSeen DEF FlushQueue
<1>5. flushes' # 0
  <2>1. flushes \in Nat /\ flushes' = flushes + 1
    BY DEF FlushQueue, Types, UpperTypes
  <2>2. QED BY <2>1
<1>6. DrainSeen' /\ NoEmptyPop' BY <1>5 DEF DrainSeen, NoEmptyPop
<1>7. QED BY <1>1, <1>2, <1>3, <1>4, <1>6

LEMMA SetDispatchRXSound ==
  ASSUME Sound, NEW c \in Caller, SetDispatchRX(c), UNCHANGED serial
  PROVE  Sound'
<1> USE DEF Sound
<1>1. Types' BY SetDispatchRXTypes
<1>2. InPacket' BY DEF SetDispatchRX, InPacket, link
<1>3. Seen' /\ DrainSeen' /\ NoEmptyPop' BY SameSeen DEF SetDispatchRX, upper
<1>4. QED BY <1>1, <1>2, <1>3, SameShape DEF SetDispatchRX

LEMMA LinkSound ==
  ASSUME Sound, ModemAnswers \/ RadioPacket \/ LineLoses \/ RxEnter \/ RxExit,
         UNCHANGED serial
  PROVE  Sound'
<1> USE DEF Sound
<1>1. Types'
  BY ModemAnswersTypes, RadioPacketTypes, LineLosesTypes, RxEnterTypes
<1>2. InPacket'
  <2>1. CASE LineLoses \/ RxExit \/ RxEnter
    BY <2>1 DEF LineLoses, RxExit, RxEnter, InPacket
  <2>2. CASE ModemAnswers \/ RadioPacket
    <3>1. \E x : inbound' = Append(inbound, x) BY <2>2 DEF ModemAnswers, RadioPacket
    <3>2. inbound \in Seq(Answer \cup RadioData) BY DEF Types, LinkTypes
    <3>3. inbound' # <<>> BY <3>1, <3>2
    <3>4. UNCHANGED uart BY <2>2 DEF ModemAnswers, RadioPacket
    <3>5. QED BY <3>3, <3>4 DEF InPacket
  <2>3. QED BY <2>1, <2>2
<1>3. Seen' /\ DrainSeen' /\ NoEmptyPop'
  BY SameSeen DEF ModemAnswers, RadioPacket, LineLoses, RxEnter, RxExit, upper, queues
<1>4. QED
  BY <1>1, <1>2, <1>3, SameShape DEF ModemAnswers, RadioPacket, LineLoses, RxEnter, RxExit

LEMMA AppendedNotEmpty ==
  ASSUME NEW S, NEW q \in Seq(S), NEW x
  PROVE  Append(q, x) # <<>>
<1>1. q \in Seq(S \cup {x}) /\ x \in S \cup {x} OBVIOUS
<1>2. Len(Append(q, x)) = Len(q) + 1 /\ Len(q) \in Nat BY <1>1
<1>3. Len(<<>>) = 0 OBVIOUS
<1>4. QED BY <1>2, <1>3

\* A dispatch empties no queue.
LEMMA DispatchSeen ==
  ASSUME Types, Seen, DrainSeen, NoEmptyPop, NEW p, Dispatch(p)
  PROVE  Seen' /\ DrainSeen' /\ NoEmptyPop'
<1>1. result_queue_ \in Seq(Result) /\ line_queue_ \in Seq(TextLine) /\ rx_queue_ \in Seq(Nat)
  BY DEF Types, QueueTypes
<1>2. /\ Append(result_queue_, p) # <<>> /\ Append(line_queue_, p) # <<>>
      /\ Append(rx_queue_, p.id) # <<>>
  BY <1>1, AppendedNotEmpty
<1>3. /\ result_queue_ # <<>> => result_queue_' # <<>>
      /\ line_queue_ # <<>> => line_queue_' # <<>>
      /\ rx_queue_ # <<>> => rx_queue_' # <<>>
  BY <1>2 DEF Dispatch, DispatchData, Push
<1>4. UNCHANGED <<call, drain, flushes, underflow>> BY DEF Dispatch
<1>5. QED BY <1>3, <1>4 DEF Seen, DrainSeen, NoEmptyPop, SoleCaller, At

LEMMA RxDispatchSound ==
  ASSUME Sound, RxDispatch, UNCHANGED serial
  PROVE  Sound'
<1> USE DEF Sound
<1>1. Types' BY RxDispatchTypes
<1>2. InPacket' BY DEF RxDispatch, InPacket
<1>3. Seen' /\ DrainSeen' /\ NoEmptyPop' BY DispatchSeen DEF RxDispatch
<1>4. call' = call BY DEF RxDispatch, Dispatch
<1>5. QED BY <1>1, <1>2, <1>3, <1>4, SameShape

LEMMA MakeUpSound ==
  ASSUME Sound, MakeUp, UNCHANGED serial
  PROVE  Sound'
<1> USE DEF Sound
<1>1. Types' BY MakeUpTypes
<1>2. InPacket' BY DEF MakeUp, InPacket
<1>3. PICK p : Dispatch(p) BY DEF MakeUp
<1>4. Seen' /\ DrainSeen' /\ NoEmptyPop' BY <1>3, DispatchSeen
<1>5. call' = call BY <1>3 DEF Dispatch
<1>6. QED BY <1>1, <1>2, <1>4, <1>5, SameShape

LEMMA DrainSound ==
  ASSUME Sound, DrainStep, UNCHANGED serial
  PROVE  Sound'
<1> USE DEF Sound
<1>1. Types' BY DrainTypes
<1>2. InPacket' BY DEF DrainStep, DrainCheck, DrainPop, DrainDispatch, InPacket, link
<1>3. UNCHANGED <<call, result_queue_, line_queue_>>
  BY DEF DrainStep, DrainCheck, DrainPop, DrainDispatch, queues
<1>4. Seen' BY <1>3 DEF Seen, SoleCaller, At
<1>5. DrainSeen' /\ NoEmptyPop'
  <2>1. CASE DrainCheck BY <2>1 DEF DrainCheck, DrainSeen, NoEmptyPop, SoleCaller, queues
  <2>2. CASE DrainPop BY <2>2 DEF DrainPop, DrainSeen, NoEmptyPop, SoleCaller
  <2>3. CASE DrainDispatch BY <2>3 DEF DrainDispatch, DrainSeen, NoEmptyPop, SoleCaller
  <2>4. QED BY <2>1, <2>2, <2>3 DEF DrainStep
<1>6. QED BY <1>1, <1>2, <1>3, <1>4, <1>5, SameShape

LEMMA InitSound == Init => Sound
<1>1. SUFFICES ASSUME Init PROVE Sound
  OBVIOUS
<1> DEFINE k == [pc |-> "out", op |-> "none", cmd |-> 0, heard |-> <<>>, out |-> "none"]
<1>2. k \in CallRecord /\ ShapeOf(k) /\ k.pc = "out"
  <2> DEFINE zero == 0
  <2>1. zero \in Nat /\ <<>> \in Seq(Answer) OBVIOUS
  <2> HIDE DEF zero
  <2>2. [pc |-> "out", op |-> "none", cmd |-> zero, heard |-> <<>>, out |-> "none"] \in CallRecord
    BY <2>1, SomePoints, SomeOutcomes DEF CallRecord, OpOfCall
  <2>3. k \in CallRecord BY <2>2 DEF zero
  <2>4. QED BY <2>3 DEF ShapeOf
<1>3. call = [c \in Caller |-> k] BY <1>1 DEF Init
<1> HIDE DEF k
<1>4. CallTypes BY <1>2, <1>3 DEF CallTypes
<1>5. Shape /\ Seen BY <1>2, <1>3 DEF Shape, Seen, At
<1>6. QueueTypes
  <2>1. <<>> \in Seq(Result) /\ <<>> \in Seq(TextLine) /\ <<>> \in Seq(Nat) /\ Len(<<>>) = 0
    OBVIOUS
  <2>2. QED BY <1>1, <2>1, ConstantsAssumption DEF Init, QueueTypes
<1>7. LinkTypes
  <2>1. <<>> \in Seq(Command) /\ <<>> \in Seq(Answer \cup RadioData) /\ 0 \in Nat
    OBVIOUS
  <2>2. QED BY <1>1, <2>1 DEF Init, LinkTypes
<1>8. UpperTypes
  <2>1. <<>> \in Seq(Nat) /\ 0 \in Nat OBVIOUS
  <2>2. QED BY <1>1, <2>1 DEF Init, UpperTypes
<1>9. StateTypes BY <1>1 DEF Init, StateTypes
<1>10. InPacket /\ DrainSeen /\ NoEmptyPop BY <1>1 DEF Init, InPacket, DrainSeen, NoEmptyPop
<1>11. QED BY <1>4, <1>5, <1>6, <1>7, <1>8, <1>9, <1>10 DEF Sound, Types

LEMMA SameSound ==
  ASSUME Sound, UNCHANGED vars
  PROVE  Sound'
<1> USE DEF Sound
<1>1. Types' BY SameQueues, SameUpper, SameLink, SameCall DEF Types, StateTypes, vars
<1>2. QED BY <1>1, SameSeen, SameShape DEF vars, InPacket, link, upper

LEMMA StepSound == Sound /\ [Next]_vars => Sound'
<1>1. SUFFICES ASSUME Sound, [Next]_vars PROVE Sound'
  OBVIOUS
<1>2. ASSUME UNCHANGED serial, NEW c \in Caller, CallerStep(c) PROVE Sound'
  BY <1>1, <1>2, SeeSound, TimeOutSound, AcquireSound, ReleaseSound, PopResultSound,
     PopLineSound, FlushQueueSound DEF CallerStep
<1>3. ASSUME UNCHANGED serial, NEW c \in Caller, SetDispatchRX(c) PROVE Sound'
  BY <1>1, <1>3, SetDispatchRXSound
<1>4. ASSUME UNCHANGED serial, NEW c \in Caller, NEW o \in Op, Call(c, o) PROVE Sound'
  BY <1>1, <1>4, CallSound
<1>5. ASSUME UNCHANGED serial, ModemAnswers \/ RadioPacket \/ LineLoses \/ MakeUp PROVE Sound'
  BY <1>1, <1>5, LinkSound, MakeUpSound
<1>6. ASSUME UNCHANGED serial, RxStep PROVE Sound'
  BY <1>1, <1>6, LinkSound, RxDispatchSound DEF RxStep
<1>7. ASSUME UNCHANGED serial, DrainStep PROVE Sound'
  BY <1>1, <1>7, DrainSound
<1>8. CASE UNCHANGED vars BY <1>1, <1>8, SameSound
<1>9. QED BY <1>1, <1>2, <1>3, <1>4, <1>5, <1>6, <1>7, <1>8 DEF Next

LEMMA AlwaysSound == Spec => []Sound
BY InitSound, StepSound, PTL DEF Spec

(***************************************************************************)
(* For any callers, commands and capacities: the queues of the driver hold *)
(* what belongs in them and no more than they can, and Pop is called on an *)
(* empty queue only if two callers race, or after a flush.                 *)
(***************************************************************************)
THEOREM QueuesAreSound == Spec => []QueuesSound
<1>1. Sound => QueuesSound BY TypesAreTypeOK DEF Sound, QueuesSound
<1>2. QED BY <1>1, AlwaysSound, PTL

-----------------------------------------------------------------------------
(***************************************************************************)
(* Where a radio packet is.  DataConserved counts; the invariant says that *)
(* no packet is in two places or twice in one, from which the count        *)
(* follows.                                                                *)
(***************************************************************************)
Data(s) == {p.id : p \in {x \in Elements(s) : x.type = "kData"}}

OnceOnWire(s) ==
  \A i, j \in DOMAIN s :
    s[i].type = "kData" /\ s[j].type = "kData" /\ s[i].id = s[j].id => i = j

Disjoint(S, T) == \A x \in S : x \notin T

Apart(W, Q, H, D, L) ==
  /\ Disjoint(W, Q) /\ Disjoint(W, H) /\ Disjoint(W, D) /\ Disjoint(W, L)
  /\ Disjoint(Q, H) /\ Disjoint(Q, D) /\ Disjoint(Q, L)
  /\ Disjoint(H, D) /\ Disjoint(H, L) /\ Disjoint(D, L)

Placed ==
  /\ OnceOnWire(inbound) /\ IsInjective(rx_queue_) /\ IsInjective(delivered)
  /\ Apart(OnTheWire, Elements(rx_queue_), InHand, Elements(delivered), lost)
  /\ 1..radio = OnTheWire \cup Elements(rx_queue_) \cup InHand
                \cup Elements(delivered) \cup lost

LEMMA ElementsAppend ==
  ASSUME NEW S, NEW q \in Seq(S), NEW x \in S
  PROVE  /\ Elements(Append(q, x)) = Elements(q) \cup {x}
         /\ IsInjective(q) /\ x \notin Elements(q) => IsInjective(Append(q, x))
<1> DEFINE r == Append(q, x)
<1>1. /\ Len(r) = Len(q) + 1 /\ DOMAIN r = 1..Len(r) /\ DOMAIN q = 1..Len(q)
      /\ r[Len(r)] = x /\ Len(q) \in Nat
      /\ \A i \in 1..Len(q) : r[i] = q[i]
  OBVIOUS
<1> HIDE DEF r
<1>2. \A i \in DOMAIN r : i \in DOMAIN q \/ i = Len(r) BY <1>1
<1>3. DOMAIN q \subseteq DOMAIN r /\ Len(r) \in DOMAIN r BY <1>1
<1>4. Elements(r) = Elements(q) \cup {x}
  <2>1. \A i \in DOMAIN r : r[i] \in Elements(q) \cup {x}
    BY <1>1, <1>2 DEF Elements
  <2>2. \A i \in DOMAIN q : q[i] \in Elements(r)
    BY <1>1, <1>3 DEF Elements
  <2>3. x \in Elements(r) BY <1>1, <1>3 DEF Elements
  <2>4. QED BY <2>1, <2>2, <2>3 DEF Elements
<1>5. ASSUME IsInjective(q), x \notin Elements(q) PROVE IsInjective(r)
  <2>1. \A i \in DOMAIN q : q[i] # x BY <1>5 DEF Elements
  <2>2. QED BY <1>1, <1>2, <1>5, <2>1 DEF IsInjective
<1>6. QED BY <1>4, <1>5 DEF r

LEMMA ElementsTail ==
  ASSUME NEW S, NEW q \in Seq(S), q # <<>>, IsInjective(q)
  PROVE  /\ Head(q) \in Elements(q) /\ Elements(Tail(q)) = Elements(q) \ {Head(q)}
         /\ IsInjective(Tail(q))
<1> DEFINE r == Tail(q)
<1>1. /\ Len(q) \in Nat /\ Len(q) >= 1 /\ Len(r) = Len(q) - 1
      /\ DOMAIN r = 1..Len(r) /\ DOMAIN q = 1..Len(q) /\ Head(q) = q[1]
      /\ \A i \in 1..Len(r) : r[i] = q[i + 1]
  OBVIOUS
<1> HIDE DEF r
<1>2. \A i \in DOMAIN r : i + 1 \in DOMAIN q /\ i + 1 # 1 /\ r[i] = q[i + 1] BY <1>1
<1>3. \A j \in DOMAIN q : j # 1 => j - 1 \in DOMAIN r /\ r[j - 1] = q[j]
  <2>1. TAKE j \in DOMAIN q
  <2>2. HAVE j # 1
  <2>3. j - 1 \in 1..Len(r) /\ (j - 1) + 1 = j BY <1>1, <2>2
  <2>4. QED BY <1>1, <2>3
<1>4. 1 \in DOMAIN q BY <1>1
<1>5. Head(q) \in Elements(q) BY <1>1, <1>4 DEF Elements
<1>6. \A i \in DOMAIN r : r[i] \in Elements(q) \ {Head(q)}
  BY <1>1, <1>2, <1>4 DEF Elements, IsInjective
<1>7. \A j \in DOMAIN q : q[j] # Head(q) => q[j] \in Elements(r)
  BY <1>1, <1>3 DEF Elements
<1>8. Elements(r) = Elements(q) \ {Head(q)}
  BY <1>6, <1>7 DEF Elements
<1>9. IsInjective(r)
  <2>1. SUFFICES ASSUME NEW i \in DOMAIN r, NEW j \in DOMAIN r, r[i] = r[j] PROVE i = j
    BY DEF IsInjective
  <2>2. i + 1 = j + 1 BY <1>2, <2>1 DEF IsInjective
  <2>3. i \in Int /\ j \in Int BY <1>1
  <2>4. QED BY <2>2, <2>3
<1>10. QED BY <1>5, <1>8, <1>9 DEF r

LEMMA OnWire ==
  ASSUME NEW s, NEW d
  PROVE  d \in Data(s) <=> \E i \in DOMAIN s : s[i].type = "kData" /\ s[i].id = d
BY DEF Data, Elements

LEMMA WireAppend ==
  ASSUME NEW S, NEW s \in Seq(S), NEW x \in S, OnceOnWire(s)
  PROVE  /\ x.type # "kData" => Data(Append(s, x)) = Data(s) /\ OnceOnWire(Append(s, x))
         /\ x.type = "kData" /\ x.id \notin Data(s) =>
              Data(Append(s, x)) = Data(s) \cup {x.id} /\ OnceOnWire(Append(s, x))
<1> DEFINE r == Append(s, x)
<1>1. /\ Len(r) = Len(s) + 1 /\ DOMAIN r = 1..Len(r) /\ DOMAIN s = 1..Len(s)
      /\ r[Len(r)] = x /\ Len(s) \in Nat
      /\ \A i \in 1..Len(s) : r[i] = s[i]
  OBVIOUS
<1> HIDE DEF r
<1>2. \A i \in DOMAIN r : i = Len(r) \/ (i \in DOMAIN s /\ r[i] = s[i]) BY <1>1
<1>3. \A i \in DOMAIN s : i \in DOMAIN r /\ r[i] = s[i] BY <1>1
<1>4. Len(r) \in DOMAIN r /\ r[Len(r)] = x BY <1>1
<1>5. ASSUME x.type # "kData" PROVE Data(r) = Data(s) /\ OnceOnWire(r)
  <2>1. \A d : d \in Data(r) <=> d \in Data(s)
    BY <1>2, <1>3, <1>4, <1>5, OnWire
  <2>2. OnceOnWire(r) BY <1>2, <1>3, <1>4, <1>5 DEF OnceOnWire
  <2>3. QED BY <2>1, <2>2
<1>6. ASSUME x.type = "kData", x.id \notin Data(s)
      PROVE  Data(r) = Data(s) \cup {x.id} /\ OnceOnWire(r)
  <2>1. \A d : d \in Data(r) <=> d \in Data(s) \/ d = x.id
    BY <1>2, <1>3, <1>4, <1>6, OnWire
  <2>2. \A i \in DOMAIN s : s[i].type = "kData" => s[i].id # x.id
    BY <1>6, OnWire
  <2>3. OnceOnWire(r) BY <1>2, <1>3, <1>4, <2>2 DEF OnceOnWire
  <2>4. QED BY <2>1, <2>3
<1>7. QED BY <1>5, <1>6 DEF r

LEMMA WireTail ==
  ASSUME NEW S, NEW s \in Seq(S), s # <<>>, OnceOnWire(s)
  PROVE  /\ OnceOnWire(Tail(s))
         /\ Head(s).type # "kData" => Data(Tail(s)) = Data(s)
         /\ Head(s).type = "kData" => /\ Head(s).id \in Data(s)
                                      /\ Data(Tail(s)) = Data(s) \ {Head(s).id}
<1> DEFINE r == Tail(s)
<1>1. /\ Len(s) \in Nat /\ Len(s) >= 1 /\ Len(r) = Len(s) - 1
      /\ DOMAIN r = 1..Len(r) /\ DOMAIN s = 1..Len(s) /\ Head(s) = s[1]
      /\ \A i \in 1..Len(r) : r[i] = s[i + 1]
  OBVIOUS
<1> HIDE DEF r
<1>2. \A i \in DOMAIN r : i + 1 \in DOMAIN s /\ i + 1 # 1 /\ r[i] = s[i + 1] BY <1>1
<1>3. \A j \in DOMAIN s : j # 1 => j - 1 \in DOMAIN r /\ r[j - 1] = s[j]
  <2>1. TAKE j \in DOMAIN s
  <2>2. HAVE j # 1
  <2>3. j - 1 \in 1..Len(r) /\ (j - 1) + 1 = j BY <1>1, <2>2
  <2>4. QED BY <1>1, <2>3
<1>4. 1 \in DOMAIN s BY <1>1
<1>5. OnceOnWire(r)
  <2>1. SUFFICES ASSUME NEW i \in DOMAIN r, NEW j \in DOMAIN r, r[i].type = "kData",
                        r[j].type = "kData", r[i].id = r[j].id
                 PROVE  i = j
    BY DEF OnceOnWire
  <2>2. i + 1 = j + 1 BY <1>2, <2>1 DEF OnceOnWire
  <2>3. i \in Int /\ j \in Int BY <1>1
  <2>4. QED BY <2>2, <2>3
<1>6. ASSUME Head(s).type # "kData" PROVE Data(r) = Data(s)
  <2>1. ASSUME NEW d \in Data(r) PROVE d \in Data(s) BY <1>2, <2>1, OnWire
  <2>2. ASSUME NEW d \in Data(s) PROVE d \in Data(r)
    <3>1. PICK j \in DOMAIN s : s[j].type = "kData" /\ s[j].id = d BY <2>2, OnWire
    <3>2. j # 1 BY <1>1, <1>6, <3>1
    <3>3. j - 1 \in DOMAIN r /\ r[j - 1] = s[j] BY <1>3, <3>2
    <3>4. QED BY <3>1, <3>3, OnWire
  <2>3. QED BY <2>1, <2>2
<1>7. ASSUME Head(s).type = "kData"
      PROVE  Head(s).id \in Data(s) /\ Data(r) = Data(s) \ {Head(s).id}
  <2>1. Head(s).id \in Data(s) BY <1>1, <1>4, <1>7, OnWire
  <2>2. ASSUME NEW d \in Data(r) PROVE d \in Data(s) /\ d # Head(s).id
    <3>1. PICK i \in DOMAIN r : r[i].type = "kData" /\ r[i].id = d BY <2>2, OnWire
    <3>2. i + 1 \in DOMAIN s /\ i + 1 # 1 /\ s[i + 1].type = "kData" /\ s[i + 1].id = d
      BY <1>2, <3>1
    <3>3. d \in Data(s) BY <3>2, OnWire
    <3>4. d # Head(s).id BY <1>1, <1>4, <1>7, <3>2 DEF OnceOnWire
    <3>5. QED BY <3>3, <3>4
  <2>3. ASSUME NEW d \in Data(s), d # Head(s).id PROVE d \in Data(r)
    <3>1. PICK j \in DOMAIN s : s[j].type = "kData" /\ s[j].id = d BY <2>3, OnWire
    <3>2. j # 1 BY <1>1, <2>3, <3>1
    <3>3. j - 1 \in DOMAIN r /\ r[j - 1] = s[j] BY <1>3, <3>2
    <3>4. QED BY <3>1, <3>3, OnWire
  <2>4. QED BY <2>1, <2>2, <2>3
<1>8. QED BY <1>5, <1>6, <1>7 DEF r

\* A packet goes from one place to another, or comes; which places does not matter.
LEMMA Came ==
  ASSUME NEW W, NEW Q, NEW H, NEW D, NEW L, Apart(W, Q, H, D, L),
         NEW d, d \notin W \cup Q \cup H \cup D \cup L
  PROVE  Apart(W \cup {d}, Q, H, D, L)
BY DEF Apart, Disjoint

\* Into the places of the layer above, from the wire.
LEMMA LeftTheWire ==
  ASSUME NEW W, NEW Q, NEW H, NEW D, NEW L, Apart(W, Q, H, D, L), NEW d \in W
  PROVE  /\ Apart(W \ {d}, Q \cup {d}, H, D, L)
         /\ Apart(W \ {d}, Q, H, D \cup {d}, L)
         /\ Apart(W \ {d}, Q, H, D, L \cup {d})
         /\ d \notin Q /\ d \notin D
BY DEF Apart, Disjoint

LEMMA InitPlaced == Init => Placed
<1>1. SUFFICES ASSUME Init PROVE Placed
  OBVIOUS
<1>2. inbound = <<>> /\ rx_queue_ = <<>> /\ delivered = <<>> /\ lost = {} /\ radio = 0
      /\ drain = "idle"
  BY <1>1 DEF Init
<1>3. OnTheWire = {} /\ Elements(rx_queue_) = {} /\ Elements(delivered) = {} /\ InHand = {}
  BY <1>2 DEF OnTheWire, Elements, InHand
<1>4. OnceOnWire(inbound) /\ IsInjective(rx_queue_) /\ IsInjective(delivered)
  BY <1>2 DEF OnceOnWire, IsInjective
<1>5. 1..radio = {} BY <1>2
<1>6. QED BY <1>2, <1>3, <1>4, <1>5 DEF Placed, Apart, Disjoint

LEMMA SamePlaced ==
  ASSUME Placed, UNCHANGED <<radio, inbound, rx_queue_, drain, hand, delivered, lost>>
  PROVE  Placed'
BY DEF Placed, OnTheWire, Elements, InHand, OnceOnWire, IsInjective

LEMMA WireIsData == OnTheWire = Data(inbound) /\ OnTheWire' = Data(inbound')
BY DEF OnTheWire, Data, Elements

\* An answer that comes or is lost moves no packet.
LEMMA AnswerPlaced ==
  ASSUME Types, Placed, UNCHANGED <<radio, rx_queue_, drain, hand, delivered, lost>>,
         OnceOnWire(inbound'), Data(inbound') = Data(inbound)
  PROVE  Placed'
<1>1. OnTheWire' = OnTheWire BY WireIsData
<1>2. UNCHANGED <<Elements(rx_queue_), InHand, Elements(delivered)>> BY DEF Elements, InHand
<1>3. IsInjective(rx_queue_)' /\ IsInjective(delivered)' BY DEF Placed, IsInjective
<1>4. OnceOnWire(inbound)' BY DEF OnceOnWire
<1>5. QED BY <1>1, <1>2, <1>3, <1>4 DEF Placed

LEMMA ModemAnswersPlaced ==
  ASSUME Types, Placed, ModemAnswers
  PROVE  Placed'
<1>1. modem \in Seq(Command) /\ modem # <<>> /\ inbound \in Seq(Answer \cup RadioData)
  BY DEF ModemAnswers, Types, LinkTypes
<1>2. PICK a \in Answers(Head(modem)) : inbound' = Append(inbound, a)
  BY DEF ModemAnswers
<1>3. a \in Answer BY <1>1, <1>2, AnswersTypes
<1>4. a.type # "kData" BY <1>3 DEF Answer, Result, TextLine
<1>5. OnceOnWire(inbound') /\ Data(inbound') = Data(inbound)
  BY <1>1, <1>2, <1>3, <1>4, WireAppend DEF Placed
<1>6. QED BY <1>5, AnswerPlaced DEF ModemAnswers, queues, upper

\* What the line loses of the packet at the head goes from the wire to lost.
LEMMA LineLosesPlaced ==
  ASSUME Types, Placed, LineLoses
  PROVE  Placed'
<1> DEFINE p == Head(inbound)
<1>1. inbound \in Seq(Answer \cup RadioData) /\ inbound # <<>> /\ inbound' = Tail(inbound)
  BY DEF LineLoses, Types, LinkTypes
<1>2. UNCHANGED <<radio, rx_queue_, drain, hand, delivered>> /\ lost' = lost \cup DataIn(p)
  BY DEF LineLoses, queues
<1>3. OnceOnWire(inbound') BY <1>1, WireTail DEF Placed
<1>4. CASE p.type # "kData"
  <2>1. Data(inbound') = Data(inbound) BY <1>1, <1>4, WireTail DEF Placed
  <2>2. lost' = lost BY <1>2, <1>4 DEF DataIn
  <2>3. QED BY <1>2, <1>3, <2>1, <2>2, AnswerPlaced
<1>5. CASE p.type = "kData"
  <2>1. p.id \in Data(inbound) /\ Data(inbound') = Data(inbound) \ {p.id}
    BY <1>1, <1>5, WireTail DEF Placed
  <2>2. lost' = lost \cup {p.id} BY <1>2, <1>5 DEF DataIn
  <2> HIDE DEF p
  <2>3. p.id \in OnTheWire /\ OnTheWire' = OnTheWire \ {p.id} BY <2>1, WireIsData
  <2>4. /\ UNCHANGED <<Elements(rx_queue_), InHand, Elements(delivered)>>
        /\ IsInjective(rx_queue_)' /\ IsInjective(delivered)' /\ OnceOnWire(inbound)'
    BY <1>2, <1>3 DEF Elements, InHand, Placed, IsInjective, OnceOnWire
  <2>5. Apart(OnTheWire', Elements(rx_queue_), InHand, Elements(delivered), lost')
    BY <2>2, <2>3, LeftTheWire DEF Placed
  <2>6. QED BY <1>2, <2>2, <2>3, <2>4, <2>5 DEF Placed
<1>6. QED BY <1>4, <1>5

LEMMA RadioPacketPlaced ==
  ASSUME Types, Placed, RadioPacket
  PROVE  Placed'
<1>1. /\ inbound \in Seq(Answer \cup RadioData) /\ radio \in Nat /\ radio' = radio + 1
      /\ inbound' = Append(inbound, TheData(radio'))
  BY DEF RadioPacket, Types, LinkTypes
<1>2. /\ radio' \notin 1..radio /\ 1..radio' = (1..radio) \cup {radio'} /\ radio' \in Nat
  BY <1>1
<1>3. TheData(radio') \in RadioData /\ TheData(radio').type = "kData"
      /\ TheData(radio').id = radio'
  BY <1>2 DEF TheData, RadioData
<1>4. radio' \notin Data(inbound) BY <1>2, WireIsData DEF Placed
<1>5. Data(inbound') = Data(inbound) \cup {radio'} /\ OnceOnWire(inbound')
  BY <1>1, <1>3, <1>4, WireAppend DEF Placed
<1>6. OnTheWire' = OnTheWire \cup {radio'} BY <1>5, WireIsData
<1>7. /\ UNCHANGED <<rx_queue_, lost, delivered>>
      /\ UNCHANGED <<Elements(rx_queue_), InHand, Elements(delivered)>>
  BY DEF RadioPacket, queues, upper, Elements, InHand
<1>8. Apart(OnTheWire', Elements(rx_queue_), InHand, Elements(delivered), lost)
  BY <1>2, <1>6, Came DEF Placed
<1>9. IsInjective(rx_queue_)' /\ IsInjective(delivered)' BY <1>7 DEF Placed, IsInjective
<1>10. 1..radio' = OnTheWire' \cup Elements(rx_queue_) \cup InHand
                   \cup Elements(delivered) \cup lost
  BY <1>2, <1>6 DEF Placed
<1>11. OnceOnWire(inbound)' BY <1>5 DEF OnceOnWire
<1>12. QED BY <1>7, <1>8, <1>9, <1>10, <1>11 DEF Placed

(***************************************************************************)
(* The packet at hand, from the wire or made up, is delivered, queued, or  *)
(* dropped by the full queue.                                              *)
(***************************************************************************)
LEMMA DataPlaced ==
  ASSUME Types, Placed, NEW d \in Nat, DispatchData(d), UNCHANGED <<drain, hand>>,
         OnceOnWire(inbound'), d \notin OnTheWire',
         Apart(OnTheWire' \cup {d}, Elements(rx_queue_), InHand, Elements(delivered), lost),
         1..radio' = OnTheWire' \cup {d} \cup Elements(rx_queue_) \cup InHand
                     \cup Elements(delivered) \cup lost
  PROVE  Placed'
<1> DEFINE W == OnTheWire' \cup {d}
<1>1. W \ {d} = OnTheWire' /\ d \in W
  OBVIOUS
<1>2. Apart(W, Elements(rx_queue_), InHand, Elements(delivered), lost)
  OBVIOUS
<1> HIDE DEF W
<1>3. /\ Apart(OnTheWire', Elements(rx_queue_) \cup {d}, InHand, Elements(delivered), lost)
      /\ Apart(OnTheWire', Elements(rx_queue_), InHand, Elements(delivered) \cup {d}, lost)
      /\ Apart(OnTheWire', Elements(rx_queue_), InHand, Elements(delivered), lost \cup {d})
      /\ d \notin Elements(rx_queue_) /\ d \notin Elements(delivered)
  BY <1>1, <1>2, LeftTheWire
<1>4. rx_queue_ \in Seq(Nat) /\ delivered \in Seq(Nat) BY DEF Types, QueueTypes, UpperTypes
<1>5. InHand' = InHand /\ OnceOnWire(inbound)' BY DEF InHand, OnceOnWire
<1>6. CASE delivered' = Append(delivered, d) /\ UNCHANGED <<rx_queue_, lost>>
  <2>1. /\ Elements(Append(delivered, d)) = Elements(delivered) \cup {d}
        /\ IsInjective(Append(delivered, d))
    BY <1>3, <1>4, ElementsAppend DEF Placed
  <2>2. /\ Elements(delivered)' = Elements(delivered) \cup {d} /\ IsInjective(delivered)'
        /\ UNCHANGED <<Elements(rx_queue_), lost>> /\ IsInjective(rx_queue_)'
    BY <1>6, <2>1 DEF Elements, Placed, IsInjective
  <2>3. QED BY <1>3, <1>5, <2>2 DEF Placed
<1>7. CASE rx_queue_' = Append(rx_queue_, d) /\ UNCHANGED <<delivered, lost>>
  <2>1. /\ Elements(Append(rx_queue_, d)) = Elements(rx_queue_) \cup {d}
        /\ IsInjective(Append(rx_queue_, d))
    BY <1>3, <1>4, ElementsAppend DEF Placed
  <2>2. /\ Elements(rx_queue_)' = Elements(rx_queue_) \cup {d} /\ IsInjective(rx_queue_)'
        /\ UNCHANGED <<Elements(delivered), lost>> /\ IsInjective(delivered)'
    BY <1>7, <2>1 DEF Elements, Placed, IsInjective
  <2>3. QED BY <1>3, <1>5, <2>2 DEF Placed
<1>8. CASE lost' = lost \cup {d} /\ UNCHANGED <<rx_queue_, delivered>>
  <2>1. /\ UNCHANGED <<Elements(rx_queue_), Elements(delivered)>>
        /\ IsInjective(rx_queue_)' /\ IsInjective(delivered)'
    BY <1>8 DEF Elements, Placed, IsInjective
  <2>2. QED BY <1>3, <1>5, <1>8, <2>1 DEF Placed
<1>9. QED BY <1>6, <1>7, <1>8 DEF DispatchData

LEMMA RxDispatchPlaced ==
  ASSUME Types, InPacket, Placed, RxDispatch
  PROVE  Placed'
<1> DEFINE p == Head(inbound)
<1>1. inbound \in Seq(Answer \cup RadioData) /\ inbound # <<>>
  BY DEF RxDispatch, InPacket, Types, LinkTypes
<1>2. p \in Answer \cup RadioData BY <1>1, QueueOps
<1>3. inbound' = Tail(inbound) /\ UNCHANGED <<radio, drain, hand>>
  BY DEF RxDispatch, Dispatch
<1>4. OnceOnWire(inbound') BY <1>1, <1>3, WireTail DEF Placed
<1>5. CASE p.type # "kData"
  <2>1. Data(inbound') = Data(inbound) BY <1>1, <1>3, <1>5, WireTail DEF Placed
  <2>2. UNCHANGED <<rx_queue_, delivered, lost>> BY <1>5 DEF RxDispatch, Dispatch
  <2>3. QED BY <1>3, <1>4, <2>1, <2>2, AnswerPlaced
<1>6. CASE p.type = "kData"
  <2>1. p.id \in Nat BY <1>2, <1>6, PacketKinds
  <2>2. DispatchData(p.id) BY <1>6 DEF RxDispatch, Dispatch
  <2>3. p.id \in Data(inbound) /\ Data(inbound') = Data(inbound) \ {p.id}
    BY <1>1, <1>3, <1>6, WireTail DEF Placed
  <2> HIDE DEF p
  <2>4. p.id \in OnTheWire /\ OnTheWire' = OnTheWire \ {p.id} BY <2>3, WireIsData
  <2>5. OnTheWire' \cup {p.id} = OnTheWire /\ p.id \notin OnTheWire' BY <2>4
  <2>6. Apart(OnTheWire' \cup {p.id}, Elements(rx_queue_), InHand, Elements(delivered), lost)
    BY <2>5 DEF Placed
  <2>7. 1..radio' = OnTheWire' \cup {p.id} \cup Elements(rx_queue_) \cup InHand
                    \cup Elements(delivered) \cup lost
    BY <1>3, <2>5 DEF Placed
  <2>8. QED BY <1>3, <1>4, <2>1, <2>2, <2>5, <2>6, <2>7, DataPlaced
<1>7. QED BY <1>5, <1>6

\* A made-up packet is one more.
LEMMA MakeUpPlaced ==
  ASSUME Types, Placed, MakeUp
  PROVE  Placed'
<1>1. PICK p \in MadeUp : Dispatch(p) /\ radio' = IF p.type = "kData" THEN p.id ELSE radio
  BY DEF MakeUp
<1>2. inbound' = inbound /\ UNCHANGED <<drain, hand>> BY <1>1 DEF MakeUp, Dispatch
<1>3. OnTheWire' = OnTheWire /\ OnceOnWire(inbound')
  BY <1>2 DEF OnTheWire, Elements, Placed
<1>4. CASE p.type # "kData"
  <2>1. UNCHANGED <<radio, rx_queue_, delivered, lost>> BY <1>1, <1>4 DEF Dispatch
  <2>2. QED BY <1>2, <2>1, SamePlaced
<1>5. CASE p.type = "kData"
  <2>1. DispatchData(p.id) /\ radio' = p.id BY <1>1, <1>5 DEF Dispatch
  <2>2. p.id = radio + 1 /\ p.id \in Nat /\ radio \in Nat
    BY <1>5, MadeUpTypes DEF Types, LinkTypes
  <2> DEFINE d == p.id
  <2> HIDE DEF d
  <2>3. d \notin 1..radio /\ 1..radio' = (1..radio) \cup {d}
    BY <2>1, <2>2 DEF d
  <2>4. d \notin OnTheWire \cup Elements(rx_queue_) \cup InHand \cup Elements(delivered) \cup lost
    BY <2>3 DEF Placed
  <2>5. Apart(OnTheWire' \cup {d}, Elements(rx_queue_), InHand, Elements(delivered), lost)
    <3>1. Apart(OnTheWire \cup {d}, Elements(rx_queue_), InHand, Elements(delivered), lost)
      BY <2>4, Came DEF Placed
    <3>2. QED BY <1>3, <3>1
  <2>6. 1..radio' = OnTheWire' \cup {d} \cup Elements(rx_queue_) \cup InHand
                    \cup Elements(delivered) \cup lost
    BY <1>3, <2>3 DEF Placed
  <2>7. d \in Nat /\ DispatchData(d) /\ d \notin OnTheWire'
    BY <1>3, <2>1, <2>2, <2>4 DEF d
  <2>8. QED BY <1>2, <1>3, <2>5, <2>6, <2>7, DataPlaced
<1>6. QED BY <1>4, <1>5

LEMMA FlushQueuePlaced ==
  ASSUME Types, Placed, NEW c, FlushQueue(c)
  PROVE  Placed'
<1>1. /\ rx_queue_' = <<>> /\ lost' = lost \cup Elements(rx_queue_)
      /\ UNCHANGED <<radio, inbound, drain, hand, delivered>>
  BY DEF FlushQueue, Elements, link
<1>2. Elements(rx_queue_)' = {} /\ IsInjective(rx_queue_)'
  BY <1>1 DEF Elements, IsInjective
<1>3. /\ UNCHANGED <<OnTheWire, InHand, Elements(delivered), radio>>
      /\ OnceOnWire(inbound)' /\ IsInjective(delivered)'
  BY <1>1 DEF OnTheWire, InHand, Elements, Placed, OnceOnWire, IsInjective
<1>4. Apart(OnTheWire, {}, InHand, Elements(delivered), lost')
  BY <1>1 DEF Placed, Apart, Disjoint
<1>5. QED BY <1>1, <1>2, <1>3, <1>4 DEF Placed

LEMMA DrainPlaced ==
  ASSUME Types, Placed, DrainStep
  PROVE  Placed'
<1>1. UNCHANGED <<radio, inbound, lost>>
  BY DEF DrainStep, DrainCheck, DrainPop, DrainDispatch, link
<1>2. UNCHANGED OnTheWire /\ OnceOnWire(inbound)'
  BY <1>1 DEF OnTheWire, Elements, Placed, OnceOnWire
<1>3. rx_queue_ \in Seq(Nat) /\ delivered \in Seq(Nat) /\ hand \in Nat
  BY DEF Types, QueueTypes, UpperTypes
<1>4. CASE DrainCheck
  <2>1. /\ UNCHANGED <<rx_queue_, delivered>> /\ drain = "idle" /\ drain' = "popping"
    BY <1>4 DEF DrainCheck, queues
  <2>2. /\ UNCHANGED <<Elements(rx_queue_), InHand, Elements(delivered)>>
        /\ IsInjective(rx_queue_)' /\ IsInjective(delivered)'
    BY <2>1 DEF Elements, InHand, Placed, IsInjective
  <2>3. QED BY <1>1, <1>2, <2>2 DEF Placed
<1>5. CASE DrainPop
  <2>1. UNCHANGED <<Elements(delivered)>> /\ IsInjective(delivered)' /\ InHand = {}
    BY <1>5 DEF DrainPop, Elements, Placed, IsInjective, InHand
  <2>2. CASE rx_queue_ = <<>>
    <3>1. /\ UNCHANGED Elements(rx_queue_) /\ IsInjective(rx_queue_)' /\ InHand' = {}
      BY <1>5, <2>2 DEF DrainPop, Elements, Placed, IsInjective, InHand
    <3>2. QED BY <1>1, <1>2, <2>1, <3>1 DEF Placed
  <2>3. CASE rx_queue_ # <<>>
    <3>1. rx_queue_' = Tail(rx_queue_) /\ InHand' = {Head(rx_queue_)}
      BY <1>5, <2>3 DEF DrainPop, InHand
    <3>2. /\ Head(rx_queue_) \in Elements(rx_queue_)
          /\ Elements(Tail(rx_queue_)) = Elements(rx_queue_) \ {Head(rx_queue_)}
          /\ IsInjective(Tail(rx_queue_))
      BY <1>3, <2>3, ElementsTail DEF Placed
    <3>3. Elements(rx_queue_)' = Elements(rx_queue_) \ {Head(rx_queue_)}
          /\ IsInjective(rx_queue_)'
      BY <3>1, <3>2 DEF Elements, IsInjective
    <3>4. Apart(OnTheWire, Elements(rx_queue_)', InHand', Elements(delivered), lost)
      BY <2>1, <3>1, <3>2, <3>3 DEF Placed, Apart, Disjoint
    <3>5. QED BY <1>1, <1>2, <2>1, <3>1, <3>2, <3>3, <3>4 DEF Placed
  <2>4. QED BY <2>2, <2>3
<1>6. CASE DrainDispatch /\ drain = "holding"
  <2>1. /\ delivered' = Append(delivered, hand) /\ InHand = {hand} /\ InHand' = {}
        /\ UNCHANGED rx_queue_
    BY <1>6 DEF DrainDispatch, InHand, queues
  <2>2. hand \notin Elements(delivered) BY <2>1 DEF Placed, Apart, Disjoint
  <2>7. /\ Elements(Append(delivered, hand)) = Elements(delivered) \cup {hand}
        /\ IsInjective(Append(delivered, hand))
    BY <1>3, <2>2, ElementsAppend DEF Placed
  <2>3. Elements(delivered)' = Elements(delivered) \cup {hand} /\ IsInjective(delivered)'
    BY <2>1, <2>7 DEF Elements, IsInjective
  <2>4. UNCHANGED Elements(rx_queue_) /\ IsInjective(rx_queue_)'
    BY <2>1 DEF Elements, Placed, IsInjective
  <2>5. Apart(OnTheWire, Elements(rx_queue_), InHand', Elements(delivered)', lost)
    BY <2>1, <2>3 DEF Placed, Apart, Disjoint
  <2>6. QED BY <1>1, <1>2, <2>1, <2>3, <2>4, <2>5 DEF Placed
<1>8. CASE DrainDispatch /\ drain = "holdingStale"
  <2>1. UNCHANGED <<rx_queue_, delivered>> /\ InHand = {} /\ InHand' = {}
    BY <1>8 DEF DrainDispatch, InHand, queues
  <2>2. /\ UNCHANGED <<Elements(rx_queue_), Elements(delivered)>>
        /\ IsInjective(rx_queue_)' /\ IsInjective(delivered)'
    BY <2>1 DEF Elements, Placed, IsInjective
  <2>3. QED BY <1>1, <1>2, <2>1, <2>2 DEF Placed
<1>9. DrainDispatch => drain \in {"holding", "holdingStale"} BY DEF DrainDispatch
<1>10. QED BY <1>4, <1>5, <1>6, <1>8, <1>9 DEF DrainStep

LEMMA StepPlaced == Sound /\ Placed /\ [Next]_vars => Placed'
<1>1. SUFFICES ASSUME Sound, Placed, [Next]_vars PROVE Placed'
  OBVIOUS
<1>2. Types /\ InPacket BY <1>1 DEF Sound
<1>3. ASSUME NEW c \in Caller, CallerStep(c) PROVE Placed'
  <2>1. CASE FlushQueue(c) BY <1>1, <1>2, <2>1, FlushQueuePlaced
  <2>2. CASE See(c) \/ TimeOut(c) \/ Release(c)
    BY <1>1, <2>2, SamePlaced DEF See, TimeOut, Release, queues, link, upper
  <2>3. CASE Acquire(c) BY <1>1, <2>3, SamePlaced DEF Acquire, queues, upper
  <2>4. CASE PopResult(c) BY <1>1, <2>4, SamePlaced DEF PopResult, link, upper
  <2>5. CASE PopLine(c) BY <1>1, <2>5, SamePlaced DEF PopLine, link, upper
  <2>6. QED BY <1>3, <2>1, <2>2, <2>3, <2>4, <2>5 DEF CallerStep
<1>4. ASSUME NEW c \in Caller, SetDispatchRX(c) \/ \E o \in Op : Call(c, o) PROVE Placed'
  BY <1>1, <1>4, SamePlaced DEF SetDispatchRX, Call, queues, link, upper
<1>5. CASE ModemAnswers \/ RadioPacket \/ LineLoses \/ MakeUp
  BY <1>1, <1>2, <1>5, ModemAnswersPlaced, RadioPacketPlaced, LineLosesPlaced, MakeUpPlaced
<1>6. CASE RxStep
  BY <1>1, <1>2, <1>6, RxDispatchPlaced, SamePlaced DEF RxStep, RxEnter, RxExit, queues, upper
<1>7. CASE DrainStep BY <1>1, <1>2, <1>7, DrainPlaced
<1>8. CASE UNCHANGED vars BY <1>1, <1>8, SamePlaced DEF vars, queues, link, upper
<1>9. QED BY <1>1, <1>3, <1>4, <1>5, <1>6, <1>7, <1>8 DEF Next

\* A sequence without repetition is as long as the set of its elements is large.
LEMMA CountElements ==
  ASSUME NEW S, NEW q \in Seq(S), IsInjective(q)
  PROVE  IsFiniteSet(Elements(q)) /\ Cardinality(Elements(q)) = Len(q)
<1>1. Len(q) \in Nat /\ DOMAIN q = 1..Len(q) /\ q \in [1..Len(q) -> Elements(q)]
  BY DEF Elements
<1>2. q \in Surjection(1..Len(q), Elements(q)) BY <1>1 DEF Surjection, Elements
<1>3. q \in Injection(1..Len(q), Elements(q))
  BY <1>1 DEF Injection, IsInjective
<1>4. IsFiniteSet(1..Len(q)) /\ Cardinality(1..Len(q)) = Len(q)
  BY <1>1, FS_Interval
<1>5. QED BY <1>2, <1>3, <1>4, FS_Surjection

LEMMA CountDisjoint ==
  ASSUME NEW S, NEW T, IsFiniteSet(S), IsFiniteSet(T), Disjoint(S, T)
  PROVE  IsFiniteSet(S \cup T) /\ Cardinality(S \cup T) = Cardinality(S) + Cardinality(T)
<1>1. S \cap T = {} BY DEF Disjoint
<1>2. Cardinality(S \cap T) = 0 BY <1>1, FS_EmptySet
<1>3. Cardinality(S) \in Nat /\ Cardinality(T) \in Nat BY FS_CardinalityType
<1>4. /\ IsFiniteSet(S \cup T)
      /\ Cardinality(S \cup T) = Cardinality(S) + Cardinality(T) - Cardinality(S \cap T)
  BY FS_Union
<1>5. QED BY <1>2, <1>3, <1>4

LEMMA CountPlaces ==
  ASSUME NEW W, NEW Q, NEW H, NEW D, NEW L, Apart(W, Q, H, D, L),
         IsFiniteSet(W), IsFiniteSet(Q), IsFiniteSet(H), IsFiniteSet(D), IsFiniteSet(L)
  PROVE  Cardinality(W \cup Q \cup H \cup D \cup L) =
           Cardinality(W) + Cardinality(Q) + Cardinality(H) + Cardinality(D) + Cardinality(L)
<1>1. /\ Disjoint(W, Q) /\ Disjoint(W \cup Q, H) /\ Disjoint(W \cup Q \cup H, D)
      /\ Disjoint(W \cup Q \cup H \cup D, L)
  BY DEF Apart, Disjoint
<1>2. /\ IsFiniteSet(W \cup Q) /\ Cardinality(W \cup Q) = Cardinality(W) + Cardinality(Q)
  BY <1>1, CountDisjoint
<1>3. /\ IsFiniteSet(W \cup Q \cup H)
      /\ Cardinality(W \cup Q \cup H) = Cardinality(W \cup Q) + Cardinality(H)
  BY <1>1, <1>2, CountDisjoint
<1>4. /\ IsFiniteSet(W \cup Q \cup H \cup D)
      /\ Cardinality(W \cup Q \cup H \cup D) = Cardinality(W \cup Q \cup H) + Cardinality(D)
  BY <1>1, <1>3, CountDisjoint
<1>5. Cardinality(W \cup Q \cup H \cup D \cup L) =
        Cardinality(W \cup Q \cup H \cup D) + Cardinality(L)
  BY <1>1, <1>4, CountDisjoint
<1>6. QED BY <1>2, <1>3, <1>4, <1>5

LEMMA PlacedCounts == Types /\ Placed => OnePlaceEach
<1>1. SUFFICES ASSUME Types, Placed PROVE OnePlaceEach
  OBVIOUS
<1> DEFINE Q == Elements(rx_queue_)
           D == Elements(delivered)
<1>2. 1..radio = OnTheWire \cup Q \cup InHand \cup D \cup lost BY <1>1 DEF Placed
<1>3. radio \in Nat /\ rx_queue_ \in Seq(Nat) /\ delivered \in Seq(Nat)
  BY <1>1 DEF Types, LinkTypes, QueueTypes, UpperTypes
<1>4. IsFiniteSet(1..radio) /\ Cardinality(1..radio) = radio BY <1>3, FS_Interval
<1>5. /\ IsFiniteSet(Q) /\ Cardinality(Q) = Len(rx_queue_)
      /\ IsFiniteSet(D) /\ Cardinality(D) = Len(delivered)
  BY <1>1, <1>3, CountElements DEF Placed
<1>6. OnTheWire \in SUBSET (1..radio) /\ InHand \in SUBSET (1..radio)
      /\ lost \in SUBSET (1..radio)
  BY <1>2
<1>7. IsFiniteSet(OnTheWire) /\ IsFiniteSet(InHand) /\ IsFiniteSet(lost)
  BY <1>4, <1>6, FS_Subset
<1>8. Apart(OnTheWire, Q, InHand, D, lost) BY <1>1 DEF Placed
<1> HIDE DEF Q, D
<1>9. radio = Cardinality(OnTheWire) + Len(rx_queue_) + Cardinality(InHand)
              + Len(delivered) + Cardinality(lost)
  <2>1. Cardinality(OnTheWire \cup Q \cup InHand \cup D \cup lost) =
          Cardinality(OnTheWire) + Cardinality(Q) + Cardinality(InHand)
            + Cardinality(D) + Cardinality(lost)
    BY <1>5, <1>7, <1>8, CountPlaces
  <2>2. QED BY <1>2, <1>4, <1>5, <2>1
<1>10. 1..radio = UNION {OnTheWire, Q, InHand, D, lost} BY <1>2
<1>11. QED BY <1>9, <1>10 DEF OnePlaceEach, Q, D

(***************************************************************************)
(* What a flush has left fep_thread_ to dispatch again.  RepeatsAreFlushed *)
(* does not say that it may yet find the queue empty, nor that a stale     *)
(* slot holds a packet that is somewhere.                                  *)
(***************************************************************************)
Owed == IF drain = "holdingStale" \/ (drain = "popping" /\ rx_queue_ = <<>>)
        THEN 1 ELSE 0

GivenUpOrOut == Elements(delivered) \cup lost

HeldSomewhere == held \subseteq Elements(rx_queue_) \cup InHand \cup GivenUpOrOut

Again == Elements(repeated) \cup StaleInHand

Repeats ==
  /\ Len(repeated) + Owed <= flushes
  /\ HeldSomewhere
  /\ Again \subseteq GivenUpOrOut \cup {0}

\* A step that gives fep_thread_ nothing to repeat.
LEMMA NothingAgain ==
  ASSUME Types, Repeats, UNCHANGED <<repeated, hand, flushes, drain, held>>,
         Elements(rx_queue_) \cup GivenUpOrOut
           \subseteq Elements(rx_queue_)' \cup GivenUpOrOut',
         GivenUpOrOut \subseteq GivenUpOrOut',
         drain = "popping" /\ rx_queue_ # <<>> => rx_queue_' # <<>>
  PROVE  Repeats'
<1>1. Owed' <= Owed /\ Owed \in Nat /\ Owed' \in Nat BY DEF Owed
<1>2. Len(repeated) \in Nat /\ flushes \in Nat BY DEF Types, UpperTypes
<1>3. Len(repeated)' + Owed' <= flushes' BY <1>1, <1>2 DEF Repeats
<1>4. UNCHANGED <<Again, InHand>> BY DEF Again, Elements, StaleInHand, InHand
<1>5. Again' \subseteq GivenUpOrOut' \cup {0} BY <1>4 DEF Repeats
<1>6. HeldSomewhere' BY <1>4 DEF Repeats, HeldSomewhere
<1>7. QED BY <1>3, <1>5, <1>6 DEF Repeats

LEMMA SameRepeats ==
  ASSUME Types, Repeats,
         UNCHANGED <<rx_queue_, drain, hand, held, delivered, repeated, lost, flushes>>
  PROVE  Repeats'
BY NothingAgain DEF GivenUpOrOut, Elements

LEMMA InitRepeats == Init => Repeats
<1>1. SUFFICES ASSUME Init PROVE Repeats
  OBVIOUS
<1>2. Len(repeated) = 0 /\ Owed = 0 /\ flushes = 0 BY <1>1 DEF Init, Owed
<1>3. held = {} /\ Again = {}
  BY <1>1 DEF Init, Again, Elements, StaleInHand
<1>4. QED BY <1>2, <1>3 DEF Repeats, HeldSomewhere

\* A packet that is queued, delivered or dropped by the full queue.
LEMMA DispatchRepeats ==
  ASSUME Types, Repeats, NEW p \in Answer \cup RadioData, Dispatch(p)
  PROVE  Repeats'
<1>1. UNCHANGED <<drain, hand, repeated, flushes>> BY DEF Dispatch
<1>2. rx_queue_ \in Seq(Nat) /\ delivered \in Seq(Nat)
  BY DEF Types, QueueTypes, UpperTypes
<1>3. CASE p.type # "kData"
  <2>1. UNCHANGED <<rx_queue_, held, delivered, lost>> BY <1>3 DEF Dispatch
  <2>2. QED BY <1>1, <2>1, SameRepeats
<1>4. CASE p.type = "kData"
  <2>1. p.id \in Nat BY <1>4, PacketKinds DEF RadioData
  <2>2. DispatchData(p.id) BY <1>4 DEF Dispatch
  <2>3. CASE delivered' = Append(delivered, p.id) /\ UNCHANGED <<rx_queue_, held, lost>>
    <3>1. Elements(Append(delivered, p.id)) = Elements(delivered) \cup {p.id}
      BY <1>2, <2>1, ElementsAppend
    <3>2. Elements(delivered)' = Elements(delivered) \cup {p.id}
      BY <2>3, <3>1 DEF Elements
    <3>3. UNCHANGED Elements(rx_queue_) BY <2>3 DEF Elements
    <3>4. QED BY <1>1, <2>3, <3>2, <3>3, NothingAgain DEF GivenUpOrOut
  <2>4. CASE /\ rx_queue_' = Append(rx_queue_, p.id) /\ held' = held \cup {p.id}
             /\ UNCHANGED <<delivered, lost>>
    <3>1. Elements(Append(rx_queue_, p.id)) = Elements(rx_queue_) \cup {p.id}
      BY <1>2, <2>1, ElementsAppend
    <3>9. rx_queue_' # <<>>
      <4>1. Len(rx_queue_) \in Nat /\ Len(Append(rx_queue_, p.id)) = Len(rx_queue_) + 1
        BY <1>2, <2>1
      <4>2. Len(rx_queue_') # 0 /\ Len(<<>>) = 0 BY <2>4, <4>1
      <4>3. QED BY <4>2, Zenon
    <3>10. Elements(rx_queue_)' = Elements(rx_queue_) \cup {p.id}
      BY <2>4, <3>1 DEF Elements
    <3>2. Elements(rx_queue_)' = Elements(rx_queue_) \cup {p.id} /\ rx_queue_' # <<>>
      BY <3>9, <3>10
    <3>3. UNCHANGED <<GivenUpOrOut, Again, InHand>>
      BY <1>1, <2>4 DEF GivenUpOrOut, Again, Elements, StaleInHand, InHand
    <3>4. HeldSomewhere' BY <2>4, <3>2, <3>3 DEF Repeats, HeldSomewhere
    <3>5. Owed' <= Owed /\ Owed \in Nat /\ Owed' \in Nat BY <1>1, <3>2 DEF Owed
    <3>6. Len(repeated) \in Nat /\ flushes \in Nat BY DEF Types, UpperTypes
    <3>7. Len(repeated)' + Owed' <= flushes' BY <1>1, <3>5, <3>6 DEF Repeats
    <3>8. QED BY <3>3, <3>4, <3>7 DEF Repeats
  <2>5. CASE lost' = lost \cup {p.id} /\ UNCHANGED <<rx_queue_, held, delivered>>
    <3>1. UNCHANGED <<Elements(rx_queue_), Elements(delivered)>> BY <2>5 DEF Elements
    <3>2. QED BY <1>1, <2>5, <3>1, NothingAgain DEF GivenUpOrOut
  <2>6. QED BY <2>2, <2>3, <2>4, <2>5 DEF DispatchData
<1>5. QED BY <1>3, <1>4

\* A flush gives up what is queued, and may owe a packet that is popped.
LEMMA FlushRepeats ==
  ASSUME Types, Repeats, NEW c, FlushQueue(c)
  PROVE  Repeats'
<1>1. /\ rx_queue_' = <<>> /\ lost' = lost \cup Elements(rx_queue_)
      /\ flushes' = flushes + 1
      /\ UNCHANGED <<drain, hand, held, delivered, repeated>>
  BY DEF FlushQueue, Elements
<1>2. Elements(rx_queue_)' = {} BY <1>1 DEF Elements
<1>3. UNCHANGED <<Elements(delivered), Again, InHand>>
  BY <1>1 DEF Again, Elements, StaleInHand, InHand
<1>4. GivenUpOrOut' = GivenUpOrOut \cup Elements(rx_queue_)
  BY <1>1, <1>3 DEF GivenUpOrOut
<1>5. HeldSomewhere' BY <1>1, <1>2, <1>3, <1>4 DEF Repeats, HeldSomewhere
<1>6. Owed' <= Owed + 1 /\ Owed \in Nat /\ Owed' \in Nat BY DEF Owed
<1>7. Len(repeated) \in Nat /\ flushes \in Nat BY DEF Types, UpperTypes
<1>8. Len(repeated)' + Owed' <= flushes' BY <1>1, <1>6, <1>7 DEF Repeats
<1>9. QED BY <1>3, <1>4, <1>5, <1>8 DEF Repeats

LEMMA DrainRepeats ==
  ASSUME Types, Placed, Repeats, DrainStep
  PROVE  Repeats'
<1>1. /\ rx_queue_ \in Seq(Nat) /\ delivered \in Seq(Nat) /\ repeated \in Seq(Nat)
      /\ hand \in Nat /\ Len(repeated) \in Nat /\ flushes \in Nat
  BY DEF Types, QueueTypes, UpperTypes
<1>2. UNCHANGED <<held, lost, flushes>>
  BY DEF DrainStep, DrainCheck, DrainPop, DrainDispatch
<1>3. CASE DrainCheck
  <2>1. /\ UNCHANGED <<rx_queue_, hand, delivered, repeated>>
        /\ drain = "idle" /\ drain' = "popping" /\ rx_queue_ # <<>>
    BY <1>3 DEF DrainCheck, queues
  <2>2. UNCHANGED <<Elements(rx_queue_), GivenUpOrOut, Again, InHand>>
    BY <1>2, <2>1 DEF GivenUpOrOut, Again, Elements, StaleInHand, InHand
  <2>3. Owed = 0 /\ Owed' = 0 BY <2>1 DEF Owed
  <2>4. Len(repeated)' + Owed' <= flushes' BY <1>2, <2>1, <2>3 DEF Repeats
  <2>5. HeldSomewhere' BY <1>2, <2>2 DEF Repeats, HeldSomewhere
  <2>6. QED BY <2>2, <2>4, <2>5 DEF Repeats
<1>4. CASE DrainPop /\ rx_queue_ # <<>>
  <2>1. /\ drain = "popping" /\ drain' = "holding" /\ hand' = Head(rx_queue_)
        /\ rx_queue_' = Tail(rx_queue_) /\ UNCHANGED <<delivered, repeated>>
    BY <1>4 DEF DrainPop
  <2>2. Owed = 0 /\ Owed' = 0 BY <1>4, <2>1 DEF Owed
  <2>3. Len(repeated)' + Owed' <= flushes' BY <1>2, <2>1, <2>2 DEF Repeats
  <2>4. UNCHANGED GivenUpOrOut /\ Again' = Elements(repeated) /\ Again = Elements(repeated)
        /\ InHand' = {Head(rx_queue_)} /\ InHand = {}
    BY <1>2, <2>1 DEF GivenUpOrOut, Again, Elements, StaleInHand, InHand
  <2>5. Elements(rx_queue_) \subseteq Elements(Tail(rx_queue_)) \cup {Head(rx_queue_)}
    BY <1>1, <1>4, ElementsTail DEF Placed
  <2>6. Elements(rx_queue_)' = Elements(Tail(rx_queue_)) BY <2>1 DEF Elements
  <2>7. HeldSomewhere' BY <1>2, <2>4, <2>5, <2>6 DEF Repeats, HeldSomewhere
  <2>8. QED BY <2>3, <2>4, <2>7 DEF Repeats
<1>5. CASE DrainPop /\ rx_queue_ = <<>>
  <2>1. /\ drain = "popping" /\ drain' = "holdingStale" /\ hand' \in held \cup {0}
        /\ rx_queue_' = <<>> /\ UNCHANGED <<delivered, repeated>>
    BY <1>5 DEF DrainPop
  <2>2. Owed = 1 /\ Owed' = 1 BY <1>5, <2>1 DEF Owed
  <2>3. Len(repeated)' + Owed' <= flushes' BY <1>2, <2>1, <2>2 DEF Repeats
  <2>4. /\ UNCHANGED <<GivenUpOrOut, Elements(repeated)>> /\ InHand = {} /\ InHand' = {}
        /\ Again = Elements(repeated) /\ Again' = Elements(repeated) \cup {hand'}
    BY <1>2, <2>1 DEF GivenUpOrOut, Again, Elements, StaleInHand, InHand
  <2>5. Elements(rx_queue_) = {} /\ Elements(rx_queue_)' = {} BY <1>5, <2>1 DEF Elements
  <2>6. held \subseteq GivenUpOrOut BY <2>4, <2>5 DEF Repeats, HeldSomewhere
  <2>7. HeldSomewhere' BY <1>2, <2>4, <2>6 DEF HeldSomewhere
  <2>8. Again' \subseteq GivenUpOrOut' \cup {0} BY <2>1, <2>4, <2>6 DEF Repeats
  <2>9. QED BY <2>3, <2>7, <2>8 DEF Repeats
<1>6. CASE DrainDispatch /\ drain = "holding"
  <2>1. /\ drain' = "idle" /\ delivered' = Append(delivered, hand)
        /\ UNCHANGED <<rx_queue_, repeated, hand>>
    BY <1>6 DEF DrainDispatch, queues
  <2>2. Owed = 0 /\ Owed' = 0 BY <1>6, <2>1 DEF Owed
  <2>3. Len(repeated)' + Owed' <= flushes' BY <1>2, <2>1, <2>2 DEF Repeats
  <2>9. delivered \in Seq(Nat) /\ hand \in Nat BY <1>1
  <2>4. Elements(Append(delivered, hand)) = Elements(delivered) \cup {hand}
    BY ONLY <2>9, ElementsAppend
  <2>5. Elements(delivered)' = Elements(delivered) \cup {hand} BY <2>1, <2>4 DEF Elements
  <2>6. /\ UNCHANGED <<Elements(rx_queue_), Again>> /\ InHand = {hand}
        /\ GivenUpOrOut' = GivenUpOrOut \cup {hand}
    BY <1>2, <1>6, <2>1, <2>5 DEF GivenUpOrOut, Again, Elements, StaleInHand, InHand
  <2>7. HeldSomewhere' BY <1>2, <2>6 DEF Repeats, HeldSomewhere
  <2>8. QED BY <2>3, <2>6, <2>7 DEF Repeats
<1>7. CASE DrainDispatch /\ drain = "holdingStale"
  <2>1. /\ drain' = "idle" /\ repeated' = Append(repeated, hand)
        /\ UNCHANGED <<rx_queue_, delivered, hand>>
    BY <1>7 DEF DrainDispatch, queues
  <2>2. Owed = 1 /\ Owed' = 0 BY <1>7, <2>1 DEF Owed
  <2>11. repeated \in Seq(Nat) /\ hand \in Nat BY <1>1
  <2>12. Elements(Append(repeated, hand)) = Elements(repeated) \cup {hand}
    BY ONLY <2>11, ElementsAppend
  <2>3. Len(Append(repeated, hand)) = Len(repeated) + 1 BY <2>11
  <2>4. Len(repeated)' = Len(repeated) + 1 /\ Elements(repeated)' = Elements(repeated) \cup {hand}
    BY <2>1, <2>3, <2>12 DEF Elements
  <2>5. Len(repeated)' + Owed' <= flushes' BY <1>1, <1>2, <2>2, <2>4 DEF Repeats
  <2>6. UNCHANGED <<GivenUpOrOut, Elements(rx_queue_), InHand>>
    BY <1>2, <1>7, <2>1 DEF GivenUpOrOut, Elements, InHand
  <2>7. StaleInHand = {hand} /\ StaleInHand' = {} BY <1>7, <2>1 DEF StaleInHand
  <2>8. Again' = Again BY <2>4, <2>7 DEF Again
  <2>9. HeldSomewhere' BY <1>2, <2>6 DEF Repeats, HeldSomewhere
  <2>13. QED BY <2>5, <2>6, <2>8, <2>9 DEF Repeats
<1>8. DrainDispatch => drain \in {"holding", "holdingStale"} BY DEF DrainDispatch
<1>9. QED BY <1>3, <1>4, <1>5, <1>6, <1>7, <1>8 DEF DrainStep

LEMMA StepRepeats == Sound /\ Placed /\ Repeats /\ [Next]_vars => Repeats'
<1>1. SUFFICES ASSUME Sound, Placed, Repeats, [Next]_vars PROVE Repeats'
  OBVIOUS
<1>2. Types /\ InPacket BY <1>1 DEF Sound
<1>3. ASSUME NEW c \in Caller, CallerStep(c) PROVE Repeats'
  <2>1. CASE FlushQueue(c) BY <1>1, <1>2, <2>1, FlushRepeats
  <2>2. CASE See(c) \/ TimeOut(c) \/ Release(c)
    BY <1>1, <1>2, <2>2, SameRepeats DEF See, TimeOut, Release, queues, upper
  <2>3. CASE Acquire(c) BY <1>1, <1>2, <2>3, SameRepeats DEF Acquire, queues, upper
  <2>4. CASE PopResult(c) BY <1>1, <1>2, <2>4, SameRepeats DEF PopResult, upper
  <2>5. CASE PopLine(c) BY <1>1, <1>2, <2>5, SameRepeats DEF PopLine, upper
  <2>6. QED BY <1>3, <2>1, <2>2, <2>3, <2>4, <2>5 DEF CallerStep
<1>4. ASSUME NEW c \in Caller, SetDispatchRX(c) \/ \E o \in Op : Call(c, o) PROVE Repeats'
  BY <1>1, <1>2, <1>4, SameRepeats DEF SetDispatchRX, Call, queues, upper
<1>5. CASE ModemAnswers \/ RadioPacket
  BY <1>1, <1>2, <1>5, SameRepeats DEF ModemAnswers, RadioPacket, queues, upper
<1>6. CASE LineLoses
  <2>1. /\ UNCHANGED <<rx_queue_, drain, hand, held, delivered, repeated, flushes>>
        /\ lost \subseteq lost'
    BY <1>6 DEF LineLoses, queues
  <2>2. UNCHANGED <<Elements(rx_queue_), Elements(delivered)>> BY <2>1 DEF Elements
  <2>3. QED BY <1>1, <1>2, <2>1, <2>2, NothingAgain DEF GivenUpOrOut
<1>7. CASE MakeUp
  <2>1. PICK p \in MadeUp : Dispatch(p) BY <1>7 DEF MakeUp
  <2>2. p \in Answer \cup RadioData BY <1>2, MadeUpTypes
  <2>3. QED BY <1>1, <1>2, <2>1, <2>2, DispatchRepeats
<1>8. CASE RxStep
  <2>1. CASE RxDispatch
    <3>1. inbound \in Seq(Answer \cup RadioData) /\ inbound # <<>>
      BY <1>2, <2>1 DEF RxDispatch, InPacket, Types, LinkTypes
    <3>2. Head(inbound) \in Answer \cup RadioData BY <3>1, QueueOps
    <3>3. QED BY <1>1, <1>2, <2>1, <3>2, DispatchRepeats DEF RxDispatch
  <2>2. CASE RxEnter \/ RxExit
    BY <1>1, <1>2, <2>2, SameRepeats DEF RxEnter, RxExit, queues, upper
  <2>3. QED BY <1>8, <2>1, <2>2 DEF RxStep
<1>9. CASE DrainStep BY <1>1, <1>2, <1>9, DrainRepeats
<1>10. CASE UNCHANGED vars
  BY <1>1, <1>2, <1>10, SameRepeats DEF vars, queues, upper
<1>11. QED BY <1>1, <1>3, <1>4, <1>5, <1>6, <1>7, <1>8, <1>9, <1>10 DEF Next

LEMMA RepeatsCount == Types /\ Repeats => RepeatsAreFlushed
<1>1. SUFFICES ASSUME Types, Repeats PROVE RepeatsAreFlushed
  OBVIOUS
<1>2. Cardinality(StaleInHand) = IF drain = "holdingStale" THEN 1 ELSE 0
  BY FS_EmptySet, FS_Singleton DEF StaleInHand
<1>3. Cardinality(StaleInHand) <= Owed /\ Owed \in Nat /\ Cardinality(StaleInHand) \in Nat
  BY <1>2 DEF Owed
<1>4. Len(repeated) \in Nat /\ flushes \in Nat BY <1>1 DEF Types, UpperTypes
<1>5. Len(repeated) + Cardinality(StaleInHand) <= flushes
  BY <1>1, <1>3, <1>4 DEF Repeats
<1>6. QED BY <1>1, <1>5 DEF RepeatsAreFlushed, Repeats, Again, GivenUpOrOut

(***************************************************************************)
(* For any callers, packets, damage to the line and capacity of the queue: *)
(* a radio packet is in exactly one place, whatever SetDispatchRX, a flush *)
(* and the threads do; only the line, a full queue or a flush loses one.   *)
(* What fep_thread_ dispatches besides comes out of a slot a flush has     *)
(* emptied under its feet: never more than one packet for each flush, and  *)
(* only one that was delivered or given up before, or none at all.         *)
(***************************************************************************)
THEOREM PacketsAccountedFor == Spec => []DataConserved
<1>1. Sound => Types BY DEF Sound
<1>2. OnePlaceEach /\ RepeatsAreFlushed => DataConserved BY DEF DataConserved
<1>3. QED BY <1>1, <1>2, InitSound, StepSound, InitPlaced, StepPlaced, PlacedCounts,
             InitRepeats, StepRepeats, RepeatsCount, PTL DEF Spec

-----------------------------------------------------------------------------
(***************************************************************************)
(* What is under way of one command: OutcomeIsOwn alone is not inductive,  *)
(* as it does not say that nothing is left of the last command when the    *)
(* next one is written.  s is the wire, q the queue its answers end in.    *)
(***************************************************************************)
None(s) == \A i \in DOMAIN s : s[i].type = "kData"

One(s, a) ==
  \E i \in DOMAIN s : s[i] = a /\ \A j \in DOMAIN s : j # i => s[j].type = "kData"

Two(s, a, b) ==
  \E i, j \in DOMAIN s :
    /\ i < j /\ s[i] = a /\ s[j] = b
    /\ \A n \in DOMAIN s : n # i /\ n # j => s[n].type = "kData"

NoneIn(q, s) == q = <<>> /\ None(s)

OneIn(q, s, a) ==
  \/ q = <<a>> /\ None(s)
  \/ q = <<>> /\ One(s, a)

TwoIn(q, s, a, b) ==
  \/ q = <<a, b>> /\ None(s)
  \/ q = <<a>> /\ One(s, b)
  \/ q = <<>> /\ Two(s, a, b)

Asked(k, n) == <<[cmd |-> k.cmd, op |-> k.op, stage |-> n]>>
OwnResult(k) == {a \in Result : a.cmd = k.cmd}
OwnLine(k) == {a \in TextLine : a.cmd = k.cmd}

\* m is what the modem still has to answer, q and l are the queues.
Nothing(m, q, l, s) == m = <<>> /\ l = <<>> /\ NoneIn(q, s)

OneToCome(k, m, q, l, s) ==
  /\ l = <<>>
  /\ \/ m = Asked(k, 1) /\ NoneIn(q, s)
     \/ m = <<>> /\ \E a \in OwnResult(k) : OneIn(q, s, a)

LineToCome(k, m, q, l, s) ==
  /\ q = <<>>
  /\ \/ m = Asked(k, 1) /\ NoneIn(l, s)
     \/ m = <<>> /\ \E a \in OwnLine(k) : OneIn(l, s, a)

TwoToCome(k, m, q, l, s) ==
  /\ l = <<>>
  /\ \/ m = Asked(k, 1) /\ NoneIn(q, s)
     \/ m = Asked(k, 2) /\ \E a \in OwnResult(k) : a.ok /\ OneIn(q, s, a)
     \/ m = <<>> /\ \E a \in OwnResult(k) : OneIn(q, s, a)
     \/ m = <<>> /\ \E a, b \in OwnResult(k) : a.ok /\ TwoIn(q, s, a, b)

\* The last case: the second result met a full queue and was dropped.
SecondToCome(k, m, q, l, s) ==
  /\ l = <<>>
  /\ \/ m = Asked(k, 2) /\ NoneIn(q, s)
     \/ m = <<>> /\ \E a \in OwnResult(k) : OneIn(q, s, a)
     \/ m = <<>> /\ NoneIn(q, s)

BeforeCommand(k) == k.pc \in {"out", "wait", "acquire"}

AwaitsLine(k) ==
  /\ k.pc \in {"release", "line", "popLine"}
  /\ k.op \in {"GetRegister", "Version"}

AwaitsOne(k) ==
  /\ k.pc \in {"release", "flush", "result", "popResult"}
  /\ k.op \notin {"Send", "GetRegister", "Version"}

AwaitsTwo(k) == k.pc \in {"result", "popResult"} /\ k.op = "Send" /\ k.heard = <<>>
AwaitsSecond(k) == k.pc \in {"result", "popResult"} /\ k.op = "Send" /\ k.heard # <<>>

UnderWay(k, m, q, l, s) ==
  /\ BeforeCommand(k) => Nothing(m, q, l, s)
  /\ AwaitsLine(k) => LineToCome(k, m, q, l, s)
  /\ AwaitsOne(k) => OneToCome(k, m, q, l, s)
  /\ AwaitsTwo(k) => TwoToCome(k, m, q, l, s)
  /\ AwaitsSecond(k) => SecondToCome(k, m, q, l, s)

HeardOwn(k) == \A i \in DOMAIN k.heard : k.heard[i].cmd = k.cmd

\* Points at which the call has freed the driver, or has not taken it yet.
Free(k) ==
  \/ k.pc \in {"out", "wait"}
  \/ /\ k.op \notin {"Send", "GetRegister"}
     /\ k.pc \in {"result", "popResult", "line", "popLine", "flush"}

FreeIsIdle(k, u, st) == Free(k) /\ u = "none" => st = "kIdle"

CallIsOwn(c) ==
  /\ UnderWay(call[c], modem, result_queue_, line_queue_, inbound)
  /\ HeardOwn(call[c])
  /\ FreeIsIdle(call[c], uart, state_)
  /\ call[c].pc = "out" => call[c].out # "error"

Own == SoleCaller /\ serial = "reliable" => \A c \in Caller : CallIsOwn(c)

Packet == Answer \cup RadioData

LEMMA AnswerIsNoData == \A a \in Answer : a.type # "kData"
BY DEF Answer, Result, TextLine

LEMMA AppendSeq ==
  ASSUME NEW S, NEW s \in Seq(S), NEW x \in S
  PROVE  /\ DOMAIN s = 1..Len(s) /\ Len(s) \in Nat
         /\ DOMAIN Append(s, x) = 1..(Len(s) + 1)
         /\ Append(s, x)[Len(s) + 1] = x
         /\ \A i \in 1..Len(s) : Append(s, x)[i] = s[i]
OBVIOUS

LEMMA TailSeq ==
  ASSUME NEW S, NEW s \in Seq(S), s # <<>>
  PROVE  /\ DOMAIN s = 1..Len(s) /\ Len(s) \in Nat /\ 1 \in DOMAIN s
         /\ DOMAIN Tail(s) = 1..(Len(s) - 1)
         /\ \A i \in 1..(Len(s) - 1) : Tail(s)[i] = s[i + 1] /\ i + 1 \in DOMAIN s
         /\ \A j \in DOMAIN s : j # 1 => j - 1 \in 1..(Len(s) - 1) /\ Tail(s)[j - 1] = s[j]
         /\ Head(s) = s[1]
<1>1. /\ DOMAIN s = 1..Len(s) /\ Len(s) \in Nat /\ Len(s) # 0 /\ Head(s) = s[1]
      /\ DOMAIN Tail(s) = 1..(Len(s) - 1)
      /\ \A i \in 1..(Len(s) - 1) : Tail(s)[i] = s[i + 1]
  OBVIOUS
<1>2. 1 \in DOMAIN s BY <1>1
<1>3. ASSUME NEW i \in 1..(Len(s) - 1) PROVE i + 1 \in DOMAIN s BY <1>1
<1>4. ASSUME NEW j \in DOMAIN s, j # 1
      PROVE  j - 1 \in 1..(Len(s) - 1) /\ Tail(s)[j - 1] = s[j]
  <2>1. j - 1 \in 1..(Len(s) - 1) /\ (j - 1) + 1 = j BY <1>1, <1>4
  <2>2. QED BY <1>1, <2>1
<1>5. QED BY <1>1, <1>2, <1>3, <1>4

LEMMA AppendPair ==
  ASSUME NEW S, NEW a \in S, NEW b \in S
  PROVE  Append(<<>>, a) = <<a>> /\ Append(<<a>>, b) = <<a, b>>
<1> DEFINE q == <<a>>
<1>1. q \in Seq(S) /\ Len(q) = 1 /\ q[1] = a OBVIOUS
<1> HIDE DEF q
<1>2. /\ Append(q, b) \in Seq(S) /\ Len(Append(q, b)) = 2
      /\ Append(q, b)[1] = a /\ Append(q, b)[2] = b
  <2>1. Append(q, b) \in Seq(S) /\ Len(Append(q, b)) = Len(q) + 1 BY <1>1, QueueOps
  <2>2. /\ DOMAIN q = 1..Len(q) /\ Len(q) \in Nat
        /\ DOMAIN Append(q, b) = 1..(Len(q) + 1)
        /\ Append(q, b)[Len(q) + 1] = b
        /\ \A i \in 1..Len(q) : Append(q, b)[i] = q[i]
    <3>1. q \in Seq(S) BY <1>1
    <3>2. QED BY <3>1, AppendSeq
  <2>3. 1 \in 1..Len(q) /\ Len(q) + 1 = 2 BY <1>1
  <2>4. Append(q, b)[2] = b BY <2>2, <2>3
  <2>5. Append(q, b)[1] = a BY <1>1, <2>2, <2>3
  <2>6. QED BY <2>1, <2>3, <2>4, <2>5
<1>3. <<a, b>> \in Seq(S) /\ Len(<<a, b>>) = 2 /\ <<a, b>>[1] = a /\ <<a, b>>[2] = b
  OBVIOUS
<1>4. ASSUME NEW r \in Seq(S), NEW t \in Seq(S), Len(r) = 2, Len(t) = 2,
             r[1] = t[1], r[2] = t[2]
      PROVE  r = t
  <2>1. r \in [1..2 -> S] /\ t \in [1..2 -> S] BY <1>4
  <2>2. \A i \in 1..2 : i = 1 \/ i = 2 OBVIOUS
  <2>3. \A i \in 1..2 : r[i] = t[i] BY <1>4, <2>2
  <2>4. QED BY <2>1, <2>3
<1>5. Append(q, b) = <<a, b>> BY <1>2, <1>3, <1>4
<1>6. Append(<<>>, a) = <<a>> OBVIOUS
<1>7. QED BY <1>5, <1>6 DEF q

\* A radio packet that comes, or that is taken, does not change what else is there.
LEMMA DataComes ==
  ASSUME NEW s \in Seq(Packet), NEW d \in RadioData, NEW a, NEW b
  PROVE  /\ None(s) => None(Append(s, d))
         /\ One(s, a) => One(Append(s, d), a)
         /\ Two(s, a, b) => Two(Append(s, d), a, b)
<1> DEFINE r == Append(s, d)
<1>1. /\ DOMAIN s = 1..Len(s) /\ Len(s) \in Nat /\ DOMAIN r = 1..(Len(s) + 1)
      /\ r[Len(s) + 1] = d /\ \A i \in 1..Len(s) : r[i] = s[i]
  BY AppendSeq DEF Packet
<1>2. d.type = "kData" BY DEF RadioData
<1> HIDE DEF r
<1>3. \A i \in DOMAIN r : i \in DOMAIN s \/ r[i].type = "kData"
  <2>1. ASSUME NEW i \in DOMAIN r PROVE i \in DOMAIN s \/ i = Len(s) + 1 BY <1>1
  <2>2. QED BY <1>1, <1>2, <2>1
<1>4. \A i \in DOMAIN s : i \in DOMAIN r /\ r[i] = s[i] BY <1>1
<1>5. None(s) => None(r) BY <1>3, <1>4 DEF None
<1>6. One(s, a) => One(r, a) BY <1>3, <1>4 DEF One
<1>7. Two(s, a, b) => Two(r, a, b) BY <1>3, <1>4 DEF Two
<1>8. QED BY <1>5, <1>6, <1>7 DEF r

LEMMA DataTaken ==
  ASSUME NEW s \in Seq(Packet), s # <<>>, Head(s).type = "kData", NEW a \in Answer, NEW b \in Answer
  PROVE  /\ None(s) => None(Tail(s))
         /\ One(s, a) => One(Tail(s), a)
         /\ Two(s, a, b) => Two(Tail(s), a, b)
<1> DEFINE r == Tail(s)
<1>1. /\ DOMAIN s = 1..Len(s) /\ Len(s) \in Nat /\ DOMAIN r = 1..(Len(s) - 1)
      /\ \A i \in DOMAIN r : r[i] = s[i + 1] /\ i + 1 \in DOMAIN s
      /\ \A j \in DOMAIN s : j # 1 => j - 1 \in DOMAIN r /\ r[j - 1] = s[j]
      /\ s[1].type = "kData"
  BY TailSeq
<1>2. a.type # "kData" /\ b.type # "kData" BY AnswerIsNoData
<1> HIDE DEF r
<1>3. None(s) => None(r) BY <1>1 DEF None
<1>4. ASSUME One(s, a) PROVE One(r, a)
  <2>1. PICK i \in DOMAIN s : s[i] = a /\ \A j \in DOMAIN s : j # i => s[j].type = "kData"
    BY <1>4 DEF One
  <2>2. i # 1 BY <1>1, <1>2, <2>1
  <2>3. i - 1 \in DOMAIN r /\ r[i - 1] = a BY <1>1, <2>1, <2>2
  <2>4. ASSUME NEW j \in DOMAIN r, j # i - 1 PROVE r[j].type = "kData"
    <3>1. j + 1 # i BY <1>1, <2>4
    <3>2. QED BY <1>1, <2>1, <3>1
  <2>5. QED BY <2>3, <2>4 DEF One
<1>5. ASSUME Two(s, a, b) PROVE Two(r, a, b)
  <2>1. PICK i \in DOMAIN s, j \in DOMAIN s :
          /\ i < j /\ s[i] = a /\ s[j] = b
          /\ \A n \in DOMAIN s : n # i /\ n # j => s[n].type = "kData"
    BY <1>5 DEF Two
  <2>2. i # 1 /\ j # 1 BY <1>1, <1>2, <2>1
  <2>3. /\ i - 1 \in DOMAIN r /\ r[i - 1] = a /\ j - 1 \in DOMAIN r /\ r[j - 1] = b
    BY <1>1, <2>1, <2>2
  <2>4. i - 1 < j - 1 BY <1>1, <2>1
  <2>5. ASSUME NEW n \in DOMAIN r, n # i - 1, n # j - 1 PROVE r[n].type = "kData"
    <3>1. n + 1 # i /\ n + 1 # j BY <1>1, <2>5
    <3>2. QED BY <1>1, <2>1, <3>1
  <2>6. QED BY <2>3, <2>4, <2>5 DEF Two
<1>6. QED BY <1>3, <1>4, <1>5 DEF r

LEMMA AnswerComes ==
  ASSUME NEW s \in Seq(Packet), NEW a \in Answer, NEW b
  PROVE  /\ None(s) => One(Append(s, a), a)
         /\ One(s, b) => Two(Append(s, a), b, a)
<1> DEFINE r == Append(s, a)
           n == Len(s) + 1
<1>1. /\ DOMAIN s = 1..Len(s) /\ Len(s) \in Nat /\ DOMAIN r = 1..n
      /\ r[n] = a /\ \A i \in 1..Len(s) : r[i] = s[i]
  BY AppendSeq DEF Packet
<1> HIDE DEF r
<1>2. \A i \in DOMAIN r : i # n => i \in DOMAIN s
  <2>1. ASSUME NEW i \in DOMAIN r, i # n PROVE i \in DOMAIN s BY <1>1, <2>1
  <2>2. QED BY <2>1
<1>3. n \in DOMAIN r /\ \A i \in DOMAIN s : i \in DOMAIN r /\ i < n /\ r[i] = s[i] BY <1>1
<1>4. r[n] = a BY <1>1
<1> HIDE DEF n
<1>5. None(s) => One(r, a) BY <1>2, <1>3, <1>4 DEF None, One
<1>6. ASSUME One(s, b) PROVE Two(r, b, a)
  <2>1. PICK i \in DOMAIN s : s[i] = b /\ \A j \in DOMAIN s : j # i => s[j].type = "kData"
    BY <1>6 DEF One
  <2>2. i \in DOMAIN r /\ i < n /\ r[i] = b BY <1>3, <2>1
  <2>3. \A j \in DOMAIN r : j # i /\ j # n => r[j].type = "kData" BY <1>2, <1>3, <2>1
  <2>4. QED BY <1>3, <1>4, <2>2, <2>3 DEF Two
<1>7. QED BY <1>5, <1>6 DEF r

\* The first answer on the wire is the one that is taken first.
LEMMA AnswerTaken ==
  ASSUME NEW s \in Seq(Packet), s # <<>>, Head(s).type # "kData", NEW a, NEW b
  PROVE  /\ ~None(s)
         /\ One(s, a) => Head(s) = a /\ None(Tail(s))
         /\ Two(s, a, b) => Head(s) = a /\ One(Tail(s), b)
<1> DEFINE r == Tail(s)
<1>1. /\ DOMAIN s = 1..Len(s) /\ Len(s) \in Nat /\ DOMAIN r = 1..(Len(s) - 1)
      /\ \A i \in DOMAIN r : r[i] = s[i + 1] /\ i + 1 \in DOMAIN s
      /\ \A j \in DOMAIN s : j # 1 => j - 1 \in DOMAIN r /\ r[j - 1] = s[j]
      /\ 1 \in DOMAIN s /\ s[1] = Head(s) /\ s[1].type # "kData"
  BY TailSeq
<1> HIDE DEF r
<1>2. ~None(s) BY <1>1 DEF None
<1>3. ASSUME One(s, a) PROVE s[1] = a /\ None(r)
  <2>1. PICK i \in DOMAIN s : s[i] = a /\ \A j \in DOMAIN s : j # i => s[j].type = "kData"
    BY <1>3 DEF One
  <2>2. i = 1 BY <1>1, <2>1
  <2>3. ASSUME NEW j \in DOMAIN r PROVE r[j].type = "kData"
    <3>1. j + 1 # 1 BY <1>1
    <3>2. QED BY <1>1, <2>1, <2>2, <3>1
  <2>4. QED BY <2>1, <2>2, <2>3 DEF None
<1>4. ASSUME Two(s, a, b) PROVE s[1] = a /\ One(r, b)
  <2>1. PICK i \in DOMAIN s, j \in DOMAIN s :
          /\ i < j /\ s[i] = a /\ s[j] = b
          /\ \A n \in DOMAIN s : n # i /\ n # j => s[n].type = "kData"
    BY <1>4 DEF Two
  <2>2. j # 1 BY <1>1, <2>1
  <2>3. i = 1 BY <1>1, <2>1, <2>2
  <2>4. j - 1 \in DOMAIN r /\ r[j - 1] = b BY <1>1, <2>1, <2>2
  <2>5. ASSUME NEW n \in DOMAIN r, n # j - 1 PROVE r[n].type = "kData"
    <3>1. n + 1 # 1 /\ n + 1 # j BY <1>1, <2>5
    <3>2. QED BY <1>1, <2>1, <2>3, <3>1
  <2>6. QED BY <2>1, <2>3, <2>4, <2>5 DEF One
<1>5. QED BY <1>1, <1>2, <1>3, <1>4 DEF r

-----------------------------------------------------------------------------
(* The same of the wire with the queue behind it.                          *)

LEMMA ViewData ==
  ASSUME NEW s \in Seq(Packet), NEW a \in Answer, NEW b \in Answer, NEW q
  PROVE  /\ \A d \in RadioData :
              /\ NoneIn(q, s) => NoneIn(q, Append(s, d))
              /\ OneIn(q, s, a) => OneIn(q, Append(s, d), a)
              /\ TwoIn(q, s, a, b) => TwoIn(q, Append(s, d), a, b)
         /\ s # <<>> /\ Head(s).type = "kData" =>
              /\ NoneIn(q, s) => NoneIn(q, Tail(s))
              /\ OneIn(q, s, a) => OneIn(q, Tail(s), a)
              /\ TwoIn(q, s, a, b) => TwoIn(q, Tail(s), a, b)
<1>1. ASSUME NEW d \in RadioData
      PROVE  /\ NoneIn(q, s) => NoneIn(q, Append(s, d))
             /\ OneIn(q, s, a) => OneIn(q, Append(s, d), a)
             /\ TwoIn(q, s, a, b) => TwoIn(q, Append(s, d), a, b)
  <2>1. /\ None(s) => None(Append(s, d))
        /\ One(s, a) => One(Append(s, d), a)
        /\ Two(s, a, b) => Two(Append(s, d), a, b)
    BY DataComes
  <2>2. One(s, b) => One(Append(s, d), b) BY DataComes
  <2>3. QED BY <2>1, <2>2 DEF NoneIn, OneIn, TwoIn
<1>2. ASSUME s # <<>>, Head(s).type = "kData"
      PROVE  /\ NoneIn(q, s) => NoneIn(q, Tail(s))
             /\ OneIn(q, s, a) => OneIn(q, Tail(s), a)
             /\ TwoIn(q, s, a, b) => TwoIn(q, Tail(s), a, b)
  <2>1. /\ None(s) => None(Tail(s))
        /\ One(s, a) => One(Tail(s), a)
        /\ Two(s, a, b) => Two(Tail(s), a, b)
    BY <1>2, DataTaken
  <2>2. One(s, b) => One(Tail(s), b) BY <1>2, DataTaken
  <2>3. QED BY <2>1, <2>2 DEF NoneIn, OneIn, TwoIn
<1>3. QED BY <1>1, <1>2

LEMMA ViewAnswer ==
  ASSUME NEW s \in Seq(Packet), NEW a \in Answer, NEW b, NEW q
  PROVE  /\ NoneIn(q, s) => OneIn(q, Append(s, a), a)
         /\ OneIn(q, s, b) => TwoIn(q, Append(s, a), b, a)
<1>1. /\ None(s) => One(Append(s, a), a)
      /\ One(s, b) => Two(Append(s, a), b, a)
  BY AnswerComes
<1>2. QED BY <1>1 DEF NoneIn, OneIn, TwoIn

\* Into the queue; a queue of one slot drops the second of two answers.
LEMMA ViewTaken ==
  ASSUME NEW S, NEW s \in Seq(Packet), s # <<>>, Head(s).type # "kData",
         NEW slots \in Nat \ {0}, NEW q, NEW a \in S, NEW b \in S
  PROVE  /\ ~NoneIn(q, s)
         /\ OneIn(q, s, a) => Head(s) = a /\ OneIn(Push(q, slots, a), Tail(s), a)
         /\ TwoIn(q, s, a, b) =>
              \/ Head(s) = a /\ TwoIn(Push(q, slots, a), Tail(s), a, b)
              \/ Head(s) = b /\ TwoIn(Push(q, slots, b), Tail(s), a, b)
              \/ Head(s) = b /\ OneIn(Push(q, slots, b), Tail(s), a)
<1>1. /\ ~None(s)
      /\ One(s, a) => Head(s) = a /\ None(Tail(s))
      /\ Two(s, a, b) => Head(s) = a /\ One(Tail(s), b)
  BY AnswerTaken
<1>2. One(s, b) => Head(s) = b /\ None(Tail(s)) BY AnswerTaken
<1>3. /\ Push(<<>>, slots, a) = <<a>>
      /\ Push(<<a>>, slots, b) = <<a, b>> \/ Push(<<a>>, slots, b) = <<a>>
  <2>1. Append(<<>>, a) = <<a>> /\ Append(<<a>>, b) = <<a, b>> BY AppendPair
  <2>2. Len(<<>>) < slots OBVIOUS
  <2>3. QED BY <2>1, <2>2 DEF Push
<1>4. ~NoneIn(q, s) BY <1>1 DEF NoneIn
<1>5. ASSUME OneIn(q, s, a) PROVE Head(s) = a /\ OneIn(Push(q, slots, a), Tail(s), a)
  <2>1. q = <<>> /\ One(s, a) BY <1>1, <1>5 DEF OneIn
  <2>2. QED BY <1>1, <1>3, <2>1 DEF OneIn
<1>6. ASSUME TwoIn(q, s, a, b)
      PROVE  \/ Head(s) = a /\ TwoIn(Push(q, slots, a), Tail(s), a, b)
             \/ Head(s) = b /\ TwoIn(Push(q, slots, b), Tail(s), a, b)
             \/ Head(s) = b /\ OneIn(Push(q, slots, b), Tail(s), a)
  <2>1. \/ q = <<a>> /\ One(s, b)
        \/ q = <<>> /\ Two(s, a, b)
    BY <1>1, <1>6 DEF TwoIn
  <2>2. CASE q = <<a>> /\ One(s, b)
    <3>1. Head(s) = b /\ None(Tail(s)) BY <1>2, <2>2
    <3>2. CASE Push(q, slots, b) = <<a, b>> BY <3>1, <3>2 DEF TwoIn
    <3>3. CASE Push(q, slots, b) = <<a>> BY <3>1, <3>3 DEF OneIn
    <3>4. QED BY <1>3, <2>2, <3>2, <3>3
  <2>3. CASE q = <<>> /\ Two(s, a, b)
    <3>1. Head(s) = a /\ One(Tail(s), b) BY <1>1, <2>3
    <3>2. Push(q, slots, a) = <<a>> BY <1>3, <2>3
    <3>3. QED BY <3>1, <3>2 DEF TwoIn
  <2>4. QED BY <2>1, <2>2, <2>3
<1>7. QED BY <1>4, <1>5, <1>6

-----------------------------------------------------------------------------
(* What comes and goes around a call.                                      *)

LEMMA OwnAreAnswers ==
  ASSUME NEW k
  PROVE  OwnResult(k) \subseteq Answer /\ OwnLine(k) \subseteq Answer
BY DEF OwnResult, OwnLine, Answer

LEMMA StagesKeep ==
  ASSUME NEW k, NEW m, NEW q, NEW l, NEW s, NEW m2, NEW q2, NEW l2, NEW s2,
         UnderWay(k, m, q, l, s),
         Nothing(m, q, l, s) => Nothing(m2, q2, l2, s2),
         AwaitsLine(k) /\ LineToCome(k, m, q, l, s) => LineToCome(k, m2, q2, l2, s2),
         AwaitsOne(k) /\ OneToCome(k, m, q, l, s) => OneToCome(k, m2, q2, l2, s2),
         AwaitsTwo(k) /\ TwoToCome(k, m, q, l, s) => TwoToCome(k, m2, q2, l2, s2),
         AwaitsSecond(k) /\ SecondToCome(k, m, q, l, s) => SecondToCome(k, m2, q2, l2, s2)
  PROVE  UnderWay(k, m2, q2, l2, s2)
BY DEF UnderWay

\* A wire that only gains or loses a radio packet.
LEMMA DataStep ==
  ASSUME NEW k, NEW m, NEW q, NEW l, NEW s \in Seq(Packet), UnderWay(k, m, q, l, s),
         NEW s2,
         \/ \E d \in RadioData : s2 = Append(s, d)
         \/ s # <<>> /\ Head(s).type = "kData" /\ s2 = Tail(s)
  PROVE  UnderWay(k, m, q, l, s2)
<1>1. \A p : NoneIn(p, s) => NoneIn(p, s2)
  <2>1. TheLine(0) \in Answer BY AnswerTypes DEF Answer
  <2>2. QED BY <2>1, ViewData
<1>2. ASSUME NEW p, NEW a \in Answer, NEW b \in Answer
      PROVE  /\ OneIn(p, s, a) => OneIn(p, s2, a)
             /\ TwoIn(p, s, a, b) => TwoIn(p, s2, a, b)
  BY ViewData
<1>3. \A a, b \in OwnResult(k) : (OneIn(q, s, a) => OneIn(q, s2, a))
                                 /\ (TwoIn(q, s, a, b) => TwoIn(q, s2, a, b))
  BY <1>2, OwnAreAnswers
<1>4. \A a \in OwnLine(k) : OneIn(l, s, a) => OneIn(l, s2, a)
  BY <1>2, OwnAreAnswers
<1>5. Nothing(m, q, l, s) => Nothing(m, q, l, s2) BY <1>1 DEF Nothing
<1>6. LineToCome(k, m, q, l, s) => LineToCome(k, m, q, l, s2)
  BY <1>1, <1>4 DEF LineToCome
<1>7. OneToCome(k, m, q, l, s) => OneToCome(k, m, q, l, s2)
  BY <1>1, <1>3 DEF OneToCome
<1>8. TwoToCome(k, m, q, l, s) => TwoToCome(k, m, q, l, s2)
  BY <1>1, <1>3 DEF TwoToCome
<1>9. SecondToCome(k, m, q, l, s) => SecondToCome(k, m, q, l, s2)
  BY <1>1, <1>3 DEF SecondToCome
<1>10. QED BY <1>5, <1>6, <1>7, <1>8, <1>9, StagesKeep

LEMMA ResultStep ==
  ASSUME NEW k, NEW m, NEW q, NEW l, NEW s \in Seq(Packet), UnderWay(k, m, q, l, s),
         s # <<>>, Head(s) \in Result, NEW q2, q2 = Push(q, ResultSlots, Head(s))
  PROVE  UnderWay(k, m, q2, l, Tail(s))
<1>1. Head(s).type # "kData" /\ ResultSlots \in Nat \ {0}
  BY ConstantsAssumption DEF Result
<1>2. ~NoneIn(q, s) /\ ~NoneIn(l, s)
  BY <1>1, ViewTaken
<1>3. ASSUME NEW a \in OwnResult(k), OneIn(q, s, a) PROVE OneIn(q2, Tail(s), a)
  BY <1>1, <1>3, ViewTaken
<1>4. ASSUME NEW a \in OwnResult(k), NEW b \in OwnResult(k), TwoIn(q, s, a, b)
      PROVE  TwoIn(q2, Tail(s), a, b) \/ OneIn(q2, Tail(s), a)
  BY <1>1, <1>4, ViewTaken
<1>5. ASSUME NEW a \in OwnLine(k) PROVE ~OneIn(l, s, a)
  <2>1. Head(s) # a BY DEF OwnLine, Result, TextLine
  <2>2. QED BY <1>1, <2>1, ViewTaken
<1>6. ~Nothing(m, q, l, s) BY <1>2 DEF Nothing
<1>7. ~LineToCome(k, m, q, l, s) BY <1>2, <1>5 DEF LineToCome
<1>8. OneToCome(k, m, q, l, s) => OneToCome(k, m, q2, l, Tail(s))
  BY <1>2, <1>3 DEF OneToCome
<1>9. TwoToCome(k, m, q, l, s) => TwoToCome(k, m, q2, l, Tail(s))
  BY <1>2, <1>3, <1>4 DEF TwoToCome
<1>10. SecondToCome(k, m, q, l, s) => SecondToCome(k, m, q2, l, Tail(s))
  BY <1>2, <1>3 DEF SecondToCome
<1>11. QED BY <1>6, <1>7, <1>8, <1>9, <1>10, StagesKeep

LEMMA LineStep ==
  ASSUME NEW k, NEW m, NEW q, NEW l, NEW s \in Seq(Packet), UnderWay(k, m, q, l, s),
         s # <<>>, Head(s) \in TextLine, NEW l2, l2 = Push(l, LineSlots, Head(s))
  PROVE  UnderWay(k, m, q, l2, Tail(s))
<1>1. Head(s).type # "kData" /\ LineSlots \in Nat \ {0}
  BY ConstantsAssumption DEF TextLine
<1>2. ~NoneIn(q, s) /\ ~NoneIn(l, s) BY <1>1, ViewTaken
<1>3. ASSUME NEW a \in OwnLine(k), OneIn(l, s, a) PROVE OneIn(l2, Tail(s), a)
  BY <1>1, <1>3, ViewTaken
<1>4. ASSUME NEW a \in OwnResult(k), NEW b \in OwnResult(k)
      PROVE  ~OneIn(q, s, a) /\ ~TwoIn(q, s, a, b)
  <2>1. Head(s) # a /\ Head(s) # b BY DEF OwnResult, Result, TextLine
  <2>2. OneIn(q, s, a) => Head(s) = a BY <1>1, ViewTaken
  <2>3. TwoIn(q, s, a, b) =>
          \/ Head(s) = a /\ TwoIn(Push(q, LineSlots, a), Tail(s), a, b)
          \/ Head(s) = b /\ TwoIn(Push(q, LineSlots, b), Tail(s), a, b)
          \/ Head(s) = b /\ OneIn(Push(q, LineSlots, b), Tail(s), a)
    BY <1>1, ViewTaken
  <2>4. QED BY <2>1, <2>2, <2>3
<1>5. ~Nothing(m, q, l, s) BY <1>2 DEF Nothing
<1>6. LineToCome(k, m, q, l, s) => LineToCome(k, m, q, l2, Tail(s))
  BY <1>2, <1>3 DEF LineToCome
<1>7. ~OneToCome(k, m, q, l, s) BY <1>2, <1>4 DEF OneToCome
<1>8. ~TwoToCome(k, m, q, l, s) BY <1>2, <1>4 DEF TwoToCome
<1>9. ~SecondToCome(k, m, q, l, s) BY <1>2, <1>4 DEF SecondToCome
<1>10. QED BY <1>5, <1>6, <1>7, <1>8, <1>9, StagesKeep

\* What the modem answers to the command, and what it is left with.
LEMMA AskedOf ==
  ASSUME NEW k, NEW n
  PROVE  /\ Asked(k, n) # <<>> /\ Tail(Asked(k, n)) = <<>>
         /\ Head(Asked(k, n)) = [cmd |-> k.cmd, op |-> k.op, stage |-> n]
         /\ [Asked(k, n) EXCEPT ![1].stage = 2] = Asked(k, 2)
<1> DEFINE r == [cmd |-> k.cmd, op |-> k.op, stage |-> n]
<1>1. [r EXCEPT !.stage = 2] = [cmd |-> k.cmd, op |-> k.op, stage |-> 2] OBVIOUS
<1> HIDE DEF r
<1>2. <<r>> # <<>> /\ Tail(<<r>>) = <<>> /\ Head(<<r>>) = r OBVIOUS
<1>3. [<<r>> EXCEPT ![1] = [r EXCEPT !.stage = 2]] = <<[r EXCEPT !.stage = 2]>> OBVIOUS
<1>4. [<<r>> EXCEPT ![1].stage = 2] = [<<r>> EXCEPT ![1] = [r EXCEPT !.stage = 2]] OBVIOUS
<1>5. Asked(k, n) = <<r>> BY DEF Asked, r
<1>6. Asked(k, 2) = <<[r EXCEPT !.stage = 2]>> BY <1>1 DEF Asked
<1>7. QED BY <1>2, <1>3, <1>4, <1>5, <1>6 DEF r

LEMMA AskedAnswers ==
  ASSUME NEW k \in CallRecord, NEW n \in {1, 2}, NEW a \in Answers(Head(Asked(k, n)))
  PROVE  /\ k.op \in {"GetRegister", "Version"} => a \in OwnLine(k)
         /\ k.op \notin {"GetRegister", "Version"} => a \in OwnResult(k)
<1> DEFINE r == [cmd |-> k.cmd, op |-> k.op, stage |-> n]
<1>1. Head(Asked(k, n)) = r BY AskedOf
<1>2. r.op = k.op /\ r.cmd = k.cmd /\ k.cmd \in Nat BY DEF CallRecord
<1> HIDE DEF r
<1>3. TheLine(k.cmd).cmd = k.cmd /\ \A x : TheResult(x, k.cmd).cmd = k.cmd
  BY DEF TheLine, TheResult
<1>4. CASE k.op \in {"GetRegister", "Version"}
  <2>1. a = TheLine(k.cmd) BY <1>1, <1>2, <1>4 DEF Answers
  <2>2. QED BY <1>2, <1>3, <1>4, <2>1, AnswerTypes DEF OwnLine
<1>5. CASE k.op \notin {"GetRegister", "Version"}
  <2>1. \E x \in AnyResult \cup {P0, Err(0)} : a = TheResult(x, k.cmd)
    BY <1>1, <1>2, <1>5 DEF Answers
  <2>2. QED BY <1>2, <1>3, <1>5, <2>1, AnswerTypes DEF OwnResult
<1>6. QED BY <1>4, <1>5

LEMMA ModemStep ==
  ASSUME NEW k \in CallRecord, NEW m, NEW q, NEW l, NEW s \in Seq(Packet),
         UnderWay(k, m, q, l, s), m # <<>>, NEW a \in Answers(Head(m)),
         NEW m2, m2 = IF Head(m).op = "Send" /\ Head(m).stage = 1 /\ a.ok
                      THEN [m EXCEPT ![1].stage = 2] ELSE Tail(m)
  PROVE  UnderWay(k, m2, q, l, Append(s, a))
<1> DEFINE s2 == Append(s, a)
<1>1. ASSUME NEW n \in {1, 2}, m = Asked(k, n)
      PROVE  /\ (m2 = Asked(k, 2) /\ a.ok) \/ m2 = <<>>
             /\ k.op # "Send" \/ n = 2 => m2 = <<>>
             /\ a \in Answer
             /\ AwaitsLine(k) => a \in OwnLine(k)
             /\ AwaitsOne(k) \/ AwaitsTwo(k) \/ AwaitsSecond(k) => a \in OwnResult(k)
  <2>1. /\ Tail(m) = <<>> /\ [m EXCEPT ![1].stage = 2] = Asked(k, 2)
        /\ Head(m).op = k.op /\ Head(m).stage = n
    BY <1>1, AskedOf
  <2>2. (m2 = Asked(k, 2) /\ a.ok) \/ m2 = <<>> BY <2>1
  <2>3. k.op # "Send" \/ n = 2 => m2 = <<>> BY <2>1
  <2>4. /\ k.op \in {"GetRegister", "Version"} => a \in OwnLine(k)
        /\ k.op \notin {"GetRegister", "Version"} => a \in OwnResult(k)
    BY <1>1, AskedAnswers
  <2>5. a \in Answer BY <2>4, OwnAreAnswers
  <2>6. AwaitsLine(k) => a \in OwnLine(k) BY <2>4 DEF AwaitsLine
  <2>7. AwaitsOne(k) \/ AwaitsTwo(k) \/ AwaitsSecond(k) => a \in OwnResult(k)
    BY <2>4 DEF AwaitsOne, AwaitsTwo, AwaitsSecond
  <2>8. QED BY <2>2, <2>3, <2>5, <2>6, <2>7
<1>2. ASSUME a \in Answer, NEW p
      PROVE  /\ NoneIn(p, s) => OneIn(p, s2, a)
             /\ \A b : OneIn(p, s, b) => TwoIn(p, s2, b, a)
  BY <1>2, ViewAnswer
<1> HIDE DEF s2
<1>3. Asked(k, 1) # <<>> /\ Asked(k, 2) # <<>> BY AskedOf
<1>4. ~Nothing(m, q, l, s) BY DEF Nothing
<1>5. ASSUME AwaitsLine(k), LineToCome(k, m, q, l, s) PROVE LineToCome(k, m2, q, l, s2)
  <2>1. q = <<>> /\ m = Asked(k, 1) /\ NoneIn(l, s) BY <1>5 DEF LineToCome
  <2>2. m2 = <<>> /\ a \in OwnLine(k) /\ a \in Answer BY <1>1, <1>5, <2>1 DEF AwaitsLine
  <2>3. OneIn(l, s2, a) BY <1>2, <2>1, <2>2
  <2>4. QED BY <2>1, <2>2, <2>3 DEF LineToCome
<1>6. ASSUME AwaitsOne(k), OneToCome(k, m, q, l, s) PROVE OneToCome(k, m2, q, l, s2)
  <2>1. l = <<>> /\ m = Asked(k, 1) /\ NoneIn(q, s) BY <1>6 DEF OneToCome
  <2>2. m2 = <<>> /\ a \in OwnResult(k) /\ a \in Answer BY <1>1, <1>6, <2>1 DEF AwaitsOne
  <2>3. OneIn(q, s2, a) BY <1>2, <2>1, <2>2
  <2>4. QED BY <2>1, <2>2, <2>3 DEF OneToCome
<1>7. ASSUME AwaitsTwo(k), TwoToCome(k, m, q, l, s) PROVE TwoToCome(k, m2, q, l, s2)
  <2>1. CASE m = Asked(k, 1) /\ NoneIn(q, s)
    <3>1. (m2 = <<>> \/ (m2 = Asked(k, 2) /\ a.ok)) /\ a \in OwnResult(k) /\ a \in Answer
      BY <1>1, <1>7, <2>1
    <3>2. OneIn(q, s2, a) BY <1>2, <2>1, <3>1
    <3>3. QED BY <1>7, <3>1, <3>2 DEF TwoToCome
  <2>2. CASE m = Asked(k, 2) /\ \E b \in OwnResult(k) : b.ok /\ OneIn(q, s, b)
    <3>1. m2 = <<>> /\ a \in OwnResult(k) /\ a \in Answer BY <1>1, <1>7, <2>2
    <3>2. \E b \in OwnResult(k) : b.ok /\ TwoIn(q, s2, b, a) BY <1>2, <2>2, <3>1
    <3>3. QED BY <1>7, <3>1, <3>2 DEF TwoToCome
  <2>3. QED BY <1>7, <2>1, <2>2 DEF TwoToCome
<1>8. ASSUME AwaitsSecond(k), SecondToCome(k, m, q, l, s) PROVE SecondToCome(k, m2, q, l, s2)
  <2>1. l = <<>> /\ m = Asked(k, 2) /\ NoneIn(q, s) BY <1>8 DEF SecondToCome
  <2>2. m2 = <<>> /\ a \in OwnResult(k) /\ a \in Answer BY <1>1, <1>8, <2>1
  <2>3. OneIn(q, s2, a) BY <1>2, <2>1, <2>2
  <2>4. QED BY <2>1, <2>2, <2>3 DEF SecondToCome
<1>9. QED BY <1>4, <1>5, <1>6, <1>7, <1>8, StagesKeep DEF s2

-----------------------------------------------------------------------------
(* The steps of the sole caller, and of the others around it.              *)

LEMMA OwnNext ==
  ASSUME NEW c,
         UnderWay(call'[c], modem', result_queue_', line_queue_', inbound'),
         HeardOwn(call'[c]), FreeIsIdle(call'[c], uart', state_'),
         call'[c].pc = "out" => call'[c].out # "error"
  PROVE  CallIsOwn(c)'
BY DEF CallIsOwn, HeardOwn, FreeIsIdle, Free, UnderWay, BeforeCommand, AwaitsLine, AwaitsOne,
       AwaitsTwo, AwaitsSecond, Nothing, LineToCome, OneToCome, TwoToCome, SecondToCome,
       NoneIn, OneIn, TwoIn, None, One, Two, Asked, OwnResult, OwnLine

LEMMA CallerOwn ==
  ASSUME CallTypes, NEW c \in Caller, NEW k, call' = [call EXCEPT ![c] = k],
         SoleCaller,
         UnderWay(k, modem', result_queue_', line_queue_', inbound'),
         HeardOwn(k), FreeIsIdle(k, uart', state_'), k.pc = "out" => k.out # "error"
  PROVE  Own'
<1>1. ASSUME NEW d \in Caller PROVE CallIsOwn(d)'
  <2>1. d = c BY DEF SoleCaller
  <2>2. call'[d] = k BY <2>1 DEF CallTypes
  <2>3. QED BY <2>2, OwnNext
<1>2. QED BY <1>1 DEF Own

\* Around a call: the call itself stays as it is.
LEMMA AroundOwn ==
  ASSUME Own, UNCHANGED <<serial, call>>,
         \A c \in Caller : SoleCaller /\ serial = "reliable" /\ CallIsOwn(c) =>
           /\ UnderWay(call[c], modem', result_queue_', line_queue_', inbound')
           /\ FreeIsIdle(call[c], uart', state_')
  PROVE  Own'
<1>1. ASSUME NEW c \in Caller, SoleCaller, serial = "reliable" PROVE CallIsOwn(c)'
  <2>1. CallIsOwn(c) BY <1>1 DEF Own
  <2>2. /\ UnderWay(call[c], modem', result_queue_', line_queue_', inbound')
        /\ FreeIsIdle(call[c], uart', state_')
    BY <1>1, <2>1
  <2>3. HeardOwn(call[c]) /\ (call[c].pc = "out" => call[c].out # "error")
    BY <2>1 DEF CallIsOwn
  <2>4. call'[c] = call[c] OBVIOUS
  <2>5. QED BY <2>2, <2>3, <2>4, OwnNext
<1>2. QED BY <1>1 DEF Own, SoleCaller

\* From one point of a call to another at which as much is to come.
LEMMA MovesOn ==
  ASSUME NEW k, NEW k2, NEW m, NEW q, NEW l, NEW s, UnderWay(k, m, q, l, s),
         k2.cmd = k.cmd, k2.op = k.op,
         BeforeCommand(k2) => BeforeCommand(k),
         AwaitsLine(k2) => AwaitsLine(k), AwaitsOne(k2) => AwaitsOne(k),
         AwaitsTwo(k2) => AwaitsTwo(k), AwaitsSecond(k2) => AwaitsSecond(k)
  PROVE  UnderWay(k2, m, q, l, s)
<1>1. OwnResult(k2) = OwnResult(k) /\ OwnLine(k2) = OwnLine(k)
      /\ \A n : Asked(k2, n) = Asked(k, n)
  BY DEF OwnResult, OwnLine, Asked
<1>2. /\ LineToCome(k2, m, q, l, s) <=> LineToCome(k, m, q, l, s)
      /\ OneToCome(k2, m, q, l, s) <=> OneToCome(k, m, q, l, s)
      /\ TwoToCome(k2, m, q, l, s) <=> TwoToCome(k, m, q, l, s)
      /\ SecondToCome(k2, m, q, l, s) <=> SecondToCome(k, m, q, l, s)
  BY <1>1 DEF LineToCome, OneToCome, TwoToCome, SecondToCome
<1>3. QED BY <1>2 DEF UnderWay

\* Between two commands nothing is under way.
LEMMA NothingUnderWay ==
  ASSUME NEW k, NEW m, NEW q, NEW l, NEW s, BeforeCommand(k), Nothing(m, q, l, s)
  PROVE  UnderWay(k, m, q, l, s)
BY DEF UnderWay, BeforeCommand, AwaitsLine, AwaitsOne, AwaitsTwo, AwaitsSecond

LEMMA CallOwn ==
  ASSUME Sound, Own, SoleCaller, serial = "reliable", NEW c \in Caller, NEW o \in Op, Call(c, o)
  PROVE  Own'
<1> DEFINE k == [pc |-> "wait", op |-> o, cmd |-> 0, heard |-> <<>>, out |-> "none"]
<1>1. call' = [call EXCEPT ![c] = k] BY DEF Call
<1>2. k.pc = "wait" /\ k.heard = <<>> OBVIOUS
<1> HIDE DEF k
<1>3. call[c].pc = "out" /\ CallIsOwn(c) BY DEF Call, At, Own
<1>4. Nothing(modem, result_queue_, line_queue_, inbound)
  BY <1>3 DEF CallIsOwn, UnderWay, BeforeCommand
<1>5. /\ UNCHANGED <<modem, inbound, uart, state_, result_queue_, line_queue_>>
  BY DEF Call, link, queues
<1>6. BeforeCommand(k) /\ HeardOwn(k) BY <1>2 DEF BeforeCommand, HeardOwn
<1>7. FreeIsIdle(k, uart', state_') BY <1>3, <1>5 DEF CallIsOwn, FreeIsIdle, Free
<1>8. UnderWay(k, modem', result_queue_', line_queue_', inbound')
  BY <1>4, <1>5, <1>6, NothingUnderWay
<1>9. k.pc # "out" BY <1>2
<1>10. QED BY <1>1, <1>6, <1>7, <1>8, <1>9, CallerOwn DEF Sound, Types

\* The point moves, the rest of the call stays.
LEMMA GoOwn ==
  ASSUME CallTypes, NEW c \in Caller, NEW w \in PC, Go(c, w)
  PROVE  \E k : /\ call' = [call EXCEPT ![c] = k]
                /\ k.pc = w /\ k.op = call[c].op /\ k.cmd = call[c].cmd
                /\ k.heard = call[c].heard /\ k.out = call[c].out
<1> DEFINE k == [call[c] EXCEPT !.pc = w]
<1>1. call' = [call EXCEPT ![c] = k] BY DEF Go
<1>2. /\ k.pc = w /\ k.op = call[c].op /\ k.cmd = call[c].cmd
      /\ k.heard = call[c].heard /\ k.out = call[c].out
  BY DEF CallTypes, CallRecord
<1>3. QED BY <1>1, <1>2

LEMMA SeeOwn ==
  ASSUME Sound, Own, SoleCaller, serial = "reliable", NEW c \in Caller, See(c)
  PROVE  Own'
<1>1. PICK w \in {"acquire", "popResult", "popLine"} :
        /\ Go(c, w)
        /\ w = "acquire" => call[c].pc = "wait"
        /\ w = "popResult" => call[c].pc = "result"
        /\ w = "popLine" => call[c].pc = "line"
  BY DEF See, Waits, At
<1>2. CallTypes /\ w \in PC /\ CallIsOwn(c) BY <1>1, SomePoints DEF Sound, Types, Own
<1>3. PICK k : /\ call' = [call EXCEPT ![c] = k]
               /\ k.pc = w /\ k.op = call[c].op /\ k.cmd = call[c].cmd
               /\ k.heard = call[c].heard /\ k.out = call[c].out
  BY <1>1, <1>2, GoOwn
<1>4. UNCHANGED <<modem, inbound, uart, state_, result_queue_, line_queue_>>
  BY DEF See, link, queues
<1>5. /\ BeforeCommand(k) => BeforeCommand(call[c])
      /\ AwaitsLine(k) => AwaitsLine(call[c])
      /\ AwaitsOne(k) => AwaitsOne(call[c])
      /\ AwaitsTwo(k) => AwaitsTwo(call[c])
      /\ AwaitsSecond(k) => AwaitsSecond(call[c])
  BY <1>1, <1>3 DEF BeforeCommand, AwaitsLine, AwaitsOne, AwaitsTwo, AwaitsSecond
<1>6. UnderWay(k, modem', result_queue_', line_queue_', inbound')
  <2>1. UnderWay(call[c], modem, result_queue_, line_queue_, inbound)
    BY <1>2 DEF CallIsOwn
  <2>2. UnderWay(k, modem, result_queue_, line_queue_, inbound)
    BY <1>3, <1>5, <2>1, MovesOn
  <2>3. QED BY <1>4, <2>2
<1>7. HeardOwn(k) BY <1>2, <1>3 DEF CallIsOwn, HeardOwn
<1>8. FreeIsIdle(k, uart', state_')
  BY <1>1, <1>2, <1>3, <1>4 DEF CallIsOwn, FreeIsIdle, Free
<1>9. k.pc # "out" BY <1>3
<1>10. QED BY <1>2, <1>3, <1>6, <1>7, <1>8, <1>9, CallerOwn

LEMMA ReleaseOwn ==
  ASSUME Sound, Own, SoleCaller, serial = "reliable", NEW c \in Caller, Release(c)
  PROVE  Own'
<1>1. PICK w \in {"line", "flush", "result"} :
        /\ Go(c, w) /\ call[c].pc = "release"
        /\ w = "line" <=> call[c].op = "Version"
        /\ w = "flush" <=> call[c].op = "ResetNoResult"
  BY DEF Release, At
<1>2. CallTypes /\ w \in PC /\ CallIsOwn(c) /\ ShapeOf(call[c])
  BY <1>1, SomePoints DEF Sound, Types, Own, Shape
<1>3. PICK k : /\ call' = [call EXCEPT ![c] = k]
               /\ k.pc = w /\ k.op = call[c].op /\ k.cmd = call[c].cmd
               /\ k.heard = call[c].heard /\ k.out = call[c].out
  BY <1>1, <1>2, GoOwn
<1>4. UNCHANGED <<modem, inbound, uart, result_queue_, line_queue_>> /\ state_' = "kIdle"
  BY DEF Release, link, queues
<1>5. call[c].op \notin {"Send", "GetRegister"} BY <1>1, <1>2 DEF ShapeOf
<1>6. /\ BeforeCommand(k) => BeforeCommand(call[c])
      /\ AwaitsLine(k) => AwaitsLine(call[c])
      /\ AwaitsOne(k) => AwaitsOne(call[c])
      /\ AwaitsTwo(k) => AwaitsTwo(call[c])
      /\ AwaitsSecond(k) => AwaitsSecond(call[c])
  BY <1>1, <1>3, <1>5 DEF BeforeCommand, AwaitsLine, AwaitsOne, AwaitsTwo, AwaitsSecond
<1>7. UnderWay(k, modem', result_queue_', line_queue_', inbound')
  <2>1. UnderWay(call[c], modem, result_queue_, line_queue_, inbound)
    BY <1>2 DEF CallIsOwn
  <2>2. UnderWay(k, modem, result_queue_, line_queue_, inbound)
    BY <1>3, <1>6, <2>1, MovesOn
  <2>3. QED BY <1>4, <2>2
<1>8. HeardOwn(k) BY <1>2, <1>3 DEF CallIsOwn, HeardOwn
<1>9. FreeIsIdle(k, uart', state_') BY <1>4 DEF FreeIsIdle
<1>10. k.pc # "out" BY <1>3
<1>11. QED BY <1>2, <1>3, <1>7, <1>8, <1>9, <1>10, CallerOwn

\* When nothing is on its way any more, an answer that is to come is in its queue.
LEMMA NothingComes ==
  ASSUME NEW k, NEW q
  PROVE  /\ ~LineToCome(k, <<>>, q, <<>>, <<>>)
         /\ ~OneToCome(k, <<>>, <<>>, q, <<>>)
         /\ ~TwoToCome(k, <<>>, <<>>, q, <<>>)
         /\ SecondToCome(k, <<>>, <<>>, q, <<>>) => Nothing(<<>>, <<>>, q, <<>>)
<1>1. \A a, b : ~One(<<>>, a) /\ ~Two(<<>>, a, b) BY DEF One, Two
<1>2. \A a, b : <<a>> # <<>> /\ <<a, b>> # <<>> OBVIOUS
<1>3. \A a, b : ~OneIn(<<>>, <<>>, a) /\ ~TwoIn(<<>>, <<>>, a, b)
  BY <1>1, <1>2 DEF OneIn, TwoIn
<1>4. Asked(k, 1) # <<>> /\ Asked(k, 2) # <<>> BY AskedOf
<1>5. ~LineToCome(k, <<>>, q, <<>>, <<>>) BY <1>3, <1>4 DEF LineToCome
<1>6. ~OneToCome(k, <<>>, <<>>, q, <<>>) BY <1>3, <1>4 DEF OneToCome
<1>7. ~TwoToCome(k, <<>>, <<>>, q, <<>>) BY <1>3, <1>4 DEF TwoToCome
<1>8. SecondToCome(k, <<>>, <<>>, q, <<>>) => Nothing(<<>>, <<>>, q, <<>>)
  BY <1>3, <1>4 DEF SecondToCome, Nothing
<1>9. QED BY <1>5, <1>6, <1>7, <1>8

LEMMA ReturnOwn ==
  ASSUME Types, SoleCaller, NEW c \in Caller, CallIsOwn(c), NEW out, Return(c, out), out # "error",
         Nothing(modem', result_queue_', line_queue_', inbound'),
         uart' = "none" => state_' = "kIdle"
  PROVE  Own'
<1> DEFINE k == [call[c] EXCEPT !.pc = "out", !.out = out]
<1>1. call' = [call EXCEPT ![c] = k] BY DEF Return, Types, CallTypes
<1>2. /\ k.pc = "out" /\ k.out = out /\ k.heard = call[c].heard /\ k.cmd = call[c].cmd
  BY DEF Types, CallTypes, CallRecord
<1> HIDE DEF k
<1>3. UnderWay(k, modem', result_queue_', line_queue_', inbound')
  BY <1>2, NothingUnderWay DEF BeforeCommand
<1>4. HeardOwn(k) BY <1>2 DEF CallIsOwn, HeardOwn
<1>5. FreeIsIdle(k, uart', state_') BY DEF FreeIsIdle
<1>6. QED BY <1>1, <1>2, <1>3, <1>4, <1>5, CallerOwn DEF Types

\* On a reliable link only a Send whose second result was dropped times out.
LEMMA TimeOutOwn ==
  ASSUME Sound, Own, SoleCaller, serial = "reliable", NEW c \in Caller, TimeOut(c)
  PROVE  Own'
<1>1. /\ Types /\ CallIsOwn(c) /\ ShapeOf(call[c])
  BY DEF Sound, Own, Shape
<1>2. modem = <<>> /\ inbound = <<>> /\ uart = "none"
  BY DEF TimeOut, TimeoutMayFire
<1>3. UnderWay(call[c], <<>>, result_queue_, line_queue_, <<>>)
  BY <1>1, <1>2 DEF CallIsOwn
<1>4. call[c].pc \in {"wait", "result", "line"} /\ ~WaitedFor(c) BY DEF TimeOut, Waits
<1>5. call[c].pc # "wait"
  <2>1. SUFFICES ASSUME call[c].pc = "wait" PROVE FALSE OBVIOUS
  <2>2. state_ = "kIdle" BY <1>1, <1>2, <2>1 DEF CallIsOwn, FreeIsIdle, Free
  <2>3. QED BY <1>4, <2>1, <2>2 DEF WaitedFor, At
<1>6. call[c].pc # "line"
  <2>1. SUFFICES ASSUME call[c].pc = "line" PROVE FALSE OBVIOUS
  <2>2. line_queue_ = <<>> BY <1>4, <2>1 DEF WaitedFor, At
  <2>3. AwaitsLine(call[c]) BY <1>1, <2>1 DEF ShapeOf, AwaitsLine
  <2>4. LineToCome(call[c], <<>>, result_queue_, <<>>, <<>>)
    BY <1>3, <2>2, <2>3 DEF UnderWay
  <2>5. QED BY <2>4, NothingComes
<1>7. call[c].pc = "result" /\ result_queue_ = <<>>
  BY <1>4, <1>5, <1>6 DEF WaitedFor, At
<1>8. call[c].op = "Send"
  <2>1. SUFFICES ASSUME call[c].op # "Send" PROVE FALSE OBVIOUS
  <2>2. AwaitsOne(call[c]) BY <1>1, <1>7, <2>1 DEF ShapeOf, AwaitsOne
  <2>3. OneToCome(call[c], <<>>, <<>>, line_queue_, <<>>)
    BY <1>3, <1>7, <2>2 DEF UnderWay
  <2>4. QED BY <2>3, NothingComes
<1>9. call[c].heard # <<>>
  <2>1. SUFFICES ASSUME call[c].heard = <<>> PROVE FALSE OBVIOUS
  <2>2. TwoToCome(call[c], <<>>, <<>>, line_queue_, <<>>)
    BY <1>3, <1>7, <1>8, <2>1 DEF UnderWay, AwaitsTwo
  <2>3. QED BY <2>2, NothingComes
<1>10. Nothing(<<>>, <<>>, line_queue_, <<>>)
  <2>1. SecondToCome(call[c], <<>>, <<>>, line_queue_, <<>>)
    BY <1>3, <1>7, <1>8, <1>9 DEF UnderWay, AwaitsSecond
  <2>2. QED BY <2>1, NothingComes
<1>11. Return(c, "kInvalidResponse") /\ state_' = "kIdle"
  BY <1>7, <1>8 DEF TimeOut, At, OnlySendIdles
<1>12. Nothing(modem', result_queue_', line_queue_', inbound')
  BY <1>2, <1>7, <1>10 DEF TimeOut, queues, link
<1>13. QED BY <1>1, <1>11, <1>12, ReturnOwn

LEMMA FlushOwn ==
  ASSUME Sound, Own, SoleCaller, serial = "reliable", NEW c \in Caller, FlushQueue(c)
  PROVE  Own'
<1>1. Types /\ CallIsOwn(c) /\ ShapeOf(call[c]) BY DEF Sound, Own, Shape
<1>2. modem' = <<>> /\ inbound' = <<>> /\ result_queue_' = <<>> /\ line_queue_' = <<>>
  BY DEF FlushQueue, TimeoutMayFire, link
<1>3. Nothing(modem', result_queue_', line_queue_', inbound')
  BY <1>2 DEF Nothing, NoneIn, None
<1>4. Free(call[c]) BY <1>1 DEF FlushQueue, At, ShapeOf, Free
<1>5. uart' = "none" => state_' = "kIdle"
  BY <1>1, <1>4 DEF FlushQueue, link, CallIsOwn, FreeIsIdle
<1>6. Return(c, "void") BY DEF FlushQueue
<1>7. QED BY <1>1, <1>3, <1>5, <1>6, ReturnOwn

\* The command is written when nothing of an earlier one is left.
LEMMA AcquireOwn ==
  ASSUME Sound, Own, SoleCaller, serial = "reliable", NEW c \in Caller, Acquire(c)
  PROVE  Own'
<1>1. call[c] \in CallRecord /\ ShapeOf(call[c]) /\ CallIsOwn(c) /\ call[c].pc = "acquire"
  BY DEF Sound, Types, CallTypes, Shape, Own, Acquire, At
<1>2. PICK w \in {"result", "line", "release"} :
        /\ call' = [call EXCEPT ![c].cmd = issued', ![c].pc = w]
        /\ w = "result" <=> call[c].op = "Send"
        /\ w = "line" <=> call[c].op = "GetRegister"
  BY DEF Acquire
<1> DEFINE k == [call[c] EXCEPT !.cmd = issued', !.pc = w]
<1>3. call' = [call EXCEPT ![c] = k] BY <1>2 DEF Sound, Types, CallTypes
<1>4. k.pc = w /\ k.op = call[c].op /\ k.heard = call[c].heard /\ k.cmd = issued'
  BY <1>1 DEF CallRecord
<1> HIDE DEF k
<1>5. k.heard = <<>> BY <1>1, <1>4 DEF ShapeOf
<1>6. Nothing(modem, result_queue_, line_queue_, inbound)
  BY <1>1 DEF CallIsOwn, UnderWay, BeforeCommand
<1>7. UNCHANGED <<inbound, uart, result_queue_, line_queue_>>
  BY DEF Acquire, queues
<1>8. modem' = Asked(k, 1)
  <2>1. modem' = Append(<<>>, [cmd |-> issued', op |-> call[c].op, stage |-> 1])
    BY <1>6 DEF Acquire, Nothing
  <2>2. QED BY <1>4, <2>1 DEF Asked
<1>9. /\ result_queue_' = <<>> /\ line_queue_' = <<>> /\ None(inbound')
  BY <1>6, <1>7 DEF Nothing, NoneIn
<1>10. ~BeforeCommand(k) /\ ~AwaitsSecond(k)
  BY <1>4, <1>5 DEF BeforeCommand, AwaitsSecond
<1>11. UnderWay(k, modem', result_queue_', line_queue_', inbound')
  BY <1>8, <1>9, <1>10
     DEF UnderWay, LineToCome, OneToCome, TwoToCome, NoneIn
<1>12. HeardOwn(k) BY <1>5 DEF HeardOwn
<1>13. FreeIsIdle(k, uart', state_') BY <1>2, <1>4 DEF FreeIsIdle, Free
<1>14. k.pc # "out" BY <1>4
<1>15. QED BY <1>3, <1>11, <1>12, <1>13, <1>14, CallerOwn DEF Sound, Types

LEMMA OnePopped ==
  ASSUME NEW q, q # <<>>, NEW s, NEW a, OneIn(q, s, a)
  PROVE  Head(q) = a /\ Tail(q) = <<>> /\ None(s)
<1>1. q = <<a>> /\ None(s) BY DEF OneIn
<1>2. QED BY <1>1

LEMMA TwoPopped ==
  ASSUME NEW q, q # <<>>, NEW s, NEW a, NEW b, TwoIn(q, s, a, b)
  PROVE  Head(q) = a /\ OneIn(Tail(q), s, b)
<1>1. CASE q = <<a, b>> /\ None(s)
  <2>1. Head(q) = a /\ Tail(q) = <<b>> BY <1>1
  <2>2. QED BY <1>1, <2>1 DEF OneIn
<1>2. CASE q = <<a>> /\ One(s, b)
  <2>1. Head(q) = a /\ Tail(q) = <<>> BY <1>2
  <2>2. QED BY <1>2, <2>1 DEF OneIn
<1>3. QED BY <1>1, <1>2 DEF TwoIn

LEMMA PopLineOwn ==
  ASSUME Sound, Own, SoleCaller, serial = "reliable", NEW c \in Caller, PopLine(c)
  PROVE  Own'
<1>1. call[c] \in CallRecord /\ ShapeOf(call[c]) /\ CallIsOwn(c) /\ call[c].pc = "popLine"
  BY DEF Sound, Types, CallTypes, Shape, Own, PopLine, At
<1>2. line_queue_ # <<>> BY <1>1 DEF Sound, Seen, At
<1>3. LineToCome(call[c], modem, result_queue_, line_queue_, inbound)
  BY <1>1 DEF CallIsOwn, UnderWay, AwaitsLine, ShapeOf
<1>4. PICK a \in OwnLine(call[c]) : modem = <<>> /\ OneIn(line_queue_, inbound, a)
  BY <1>2, <1>3 DEF LineToCome, NoneIn
<1>5. Head(line_queue_) = a /\ Tail(line_queue_) = <<>> /\ None(inbound)
  BY <1>2, <1>4, OnePopped
<1> DEFINE k == [call[c] EXCEPT !.pc = "out", !.out = "value", !.heard = <<a>>]
<1>6. call' = [call EXCEPT ![c] = k]
  BY <1>2, <1>5 DEF PopLine, Sound, Types, CallTypes
<1>7. k.pc = "out" /\ k.out = "value" /\ k.heard = <<a>> /\ k.cmd = call[c].cmd
  BY <1>1 DEF CallRecord
<1> HIDE DEF k
<1>8. /\ modem' = <<>> /\ result_queue_' = <<>> /\ line_queue_' = <<>> /\ None(inbound')
  BY <1>2, <1>3, <1>4, <1>5 DEF PopLine, link, LineToCome
<1>9. UnderWay(k, modem', result_queue_', line_queue_', inbound')
  BY <1>7, <1>8, NothingUnderWay DEF BeforeCommand, Nothing, NoneIn
<1>10. HeardOwn(k) BY <1>7 DEF HeardOwn, OwnLine
<1>11. FreeIsIdle(k, uart', state_')
  <2>1. CASE call[c].op = "GetRegister" BY <2>1 DEF PopLine, FreeIsIdle
  <2>2. CASE call[c].op # "GetRegister"
    <3>1. state_' = state_ /\ uart' = uart BY <2>2 DEF PopLine, link
    <3>2. Free(call[c]) BY <1>1, <2>2 DEF ShapeOf, Free
    <3>3. QED BY <1>1, <3>1, <3>2 DEF CallIsOwn, FreeIsIdle
  <2>3. QED BY <2>1, <2>2
<1>12. QED BY <1>6, <1>7, <1>9, <1>10, <1>11, CallerOwn DEF Sound, Types

\* What the call has read stays its own.
LEMMA ReadOwn ==
  ASSUME NEW k \in CallRecord, HeardOwn(k), NEW r \in Result, r.cmd = k.cmd,
         NEW k2, k2.heard = Append(k.heard, r), k2.cmd = k.cmd
  PROVE  HeardOwn(k2)
<1>1. k.heard \in Seq(Answer) /\ r \in Answer BY DEF CallRecord, Answer
<1>2. /\ DOMAIN k.heard = 1..Len(k.heard) /\ Len(k.heard) \in Nat
      /\ DOMAIN Append(k.heard, r) = 1..(Len(k.heard) + 1)
      /\ Append(k.heard, r)[Len(k.heard) + 1] = r
      /\ \A i \in 1..Len(k.heard) : Append(k.heard, r)[i] = k.heard[i]
  BY <1>1, AppendSeq
<1>3. ASSUME NEW i \in DOMAIN k2.heard PROVE k2.heard[i].cmd = k2.cmd
  <2>1. i \in 1..Len(k.heard) \/ i = Len(k.heard) + 1 BY <1>2
  <2>2. CASE i = Len(k.heard) + 1 BY <1>2, <2>2
  <2>3. CASE i \in 1..Len(k.heard) BY <1>2, <2>3 DEF HeardOwn
  <2>4. QED BY <2>1, <2>2, <2>3
<1>4. QED BY <1>3 DEF HeardOwn

LEMMA PopResultOwn ==
  ASSUME Sound, Own, SoleCaller, serial = "reliable", NEW c \in Caller, PopResult(c)
  PROVE  Own'
<1> DEFINE K == call[c]
           r == Head(result_queue_)
           q == Tail(result_queue_)
           read == [call[c] EXCEPT !.heard = Append(@, r)]
           what == Interpret(c, r)
<1>1. K \in CallRecord /\ ShapeOf(K) /\ CallIsOwn(c) /\ K.pc = "popResult" /\ CallTypes
  BY DEF Sound, Types, CallTypes, Shape, Own, PopResult, At
<1>2. result_queue_ # <<>> BY <1>1 DEF Sound, Seen, At
<1>3. /\ PopResultBy(c, r) /\ result_queue_' = q
      /\ UNCHANGED <<modem, inbound, uart, line_queue_>>
  BY <1>2 DEF PopResult, PopResultBy, link
<1>4. r \in Result BY <1>2 DEF Sound, Types, QueueTypes
<1>5. Append(K.heard, r) \in Seq(Answer) BY <1>1, <1>4, QueueOps DEF CallRecord, Answer
<1>6. /\ read \in [pc : PC, op : OpOfCall, cmd : Nat, heard : Seq(Answer), out : Outcome]
      /\ read.op = K.op /\ read.cmd = K.cmd /\ read.heard = Append(K.heard, r)
  BY <1>1, <1>5 DEF CallRecord
<1>7. call' = [call EXCEPT ![c] =
          CASE what = "more"  -> [read EXCEPT !.pc = "result"]
            [] what = "reset" -> [read EXCEPT !.pc = "wait", !.heard = <<>>,
                                              !.op = "ResetInSend"]
            [] OTHER          -> [read EXCEPT !.pc = "out", !.out = what]]
  BY <1>3 DEF PopResultBy
<1>8. K.op = "Send" /\ what # "more" => state_' = "kIdle"
  BY <1>3 DEF PopResultBy, OnlySendIdles
<1>9. K.op # "Send" /\ what # "more" => state_' = state_
  BY <1>3 DEF PopResultBy, OnlySendIdles
<1>10. what # "error" BY DEF Interpret, Transmitted
<1>11. HeardOwn(K) /\ FreeIsIdle(K, uart, state_)
       /\ UnderWay(K, modem, result_queue_, line_queue_, inbound)
  BY <1>1 DEF CallIsOwn
\* It was the last result: the call returns, or resets the modem.
<1>12. ASSUME r.cmd = K.cmd, Nothing(modem, q, line_queue_, inbound), what # "more"
       PROVE  Own'
  <2> HIDE DEF read, r, what, q, K
  <2>1. uart = "none" => state_' = "kIdle"
    <3>1. CASE K.op = "Send" BY <1>8, <1>12, <3>1
    <3>2. CASE K.op # "Send"
      <4>1. Free(K) BY <1>1, <3>2 DEF ShapeOf, Free
      <4>2. QED BY <1>9, <1>11, <1>12, <3>2, <4>1 DEF FreeIsIdle
    <3>3. QED BY <3>1, <3>2
  <2>2. CASE what = "reset"
    <3> DEFINE k == [read EXCEPT !.pc = "wait", !.heard = <<>>, !.op = "ResetInSend"]
    <3>1. call' = [call EXCEPT ![c] = k] BY <1>7, <2>2
    <3>2. k.pc = "wait" /\ k.heard = <<>> BY <1>6
    <3> HIDE DEF k
    <3>3. UnderWay(k, modem', result_queue_', line_queue_', inbound')
      BY <1>3, <1>12, <3>2, NothingUnderWay DEF BeforeCommand
    <3>4. HeardOwn(k) BY <3>2 DEF HeardOwn
    <3>5. FreeIsIdle(k, uart', state_') BY <1>3, <2>1 DEF FreeIsIdle
    <3>6. k.pc # "out" BY <3>2
    <3>7. QED BY <1>1, <3>1, <3>3, <3>4, <3>5, <3>6, CallerOwn
  <2>3. CASE what # "reset"
    <3> DEFINE k == [read EXCEPT !.pc = "out", !.out = what]
    <3>1. call' = [call EXCEPT ![c] = k] BY <1>7, <1>12, <2>3
    <3>2. k.pc = "out" /\ k.out = what /\ k.heard = Append(K.heard, r) /\ k.cmd = K.cmd
      BY <1>6
    <3> HIDE DEF k
    <3>3. UnderWay(k, modem', result_queue_', line_queue_', inbound')
      BY <1>3, <1>12, <3>2, NothingUnderWay DEF BeforeCommand
    <3>4. HeardOwn(k) BY <1>1, <1>4, <1>11, <1>12, <3>2, ReadOwn
    <3>5. FreeIsIdle(k, uart', state_') BY <1>3, <2>1 DEF FreeIsIdle
    <3>6. QED BY <1>1, <1>10, <3>1, <3>2, <3>3, <3>4, <3>5, CallerOwn
  <2>4. QED BY <2>2, <2>3
\* It was the first of two.
<1>13. ASSUME r.cmd = K.cmd, K.op = "Send", K.heard = <<>>, what = "more",
              SecondToCome(K, modem, q, line_queue_, inbound)
       PROVE  Own'
  <2> DEFINE k == [read EXCEPT !.pc = "result"]
  <2> HIDE DEF read, r, what, q, K
  <2>1. call' = [call EXCEPT ![c] = k] BY <1>7, <1>13
  <2>2. k.pc = "result" /\ k.op = "Send" /\ k.heard = Append(K.heard, r) /\ k.cmd = K.cmd
    BY <1>6, <1>13
  <2> HIDE DEF k
  <2>3. k.heard # <<>> /\ k.op = K.op
    <3>1. Append(<<>>, r) = <<r>> BY <1>4
    <3>2. QED BY <1>13, <2>2, <3>1
  <2>4. SecondToCome(k, modem, q, line_queue_, inbound)
    BY <1>13, <2>2, <2>3 DEF SecondToCome, OwnResult, Asked
  <2>5. UnderWay(k, modem', result_queue_', line_queue_', inbound')
    BY <1>3, <2>2, <2>3, <2>4
       DEF UnderWay, BeforeCommand, AwaitsLine, AwaitsOne, AwaitsTwo
  <2>6. HeardOwn(k) BY <1>1, <1>4, <1>11, <1>13, <2>2, ReadOwn
  <2>7. FreeIsIdle(k, uart', state_') BY <2>2 DEF FreeIsIdle, Free
  <2>8. k.pc # "out" BY <2>2
  <2>9. QED BY <1>1, <2>1, <2>5, <2>6, <2>7, <2>8, CallerOwn
<1>14. CASE K.op # "Send"
  <2>1. OneToCome(K, modem, result_queue_, line_queue_, inbound)
    BY <1>1, <1>11, <1>14 DEF UnderWay, AwaitsOne, ShapeOf
  <2>2. PICK a \in OwnResult(K) : modem = <<>> /\ OneIn(result_queue_, inbound, a)
    BY <1>2, <2>1 DEF OneToCome, NoneIn
  <2>3. r = a /\ q = <<>> /\ None(inbound) BY <1>2, <2>2, OnePopped
  <2>4. Nothing(modem, q, line_queue_, inbound)
    BY <2>1, <2>2, <2>3 DEF Nothing, NoneIn, OneToCome
  <2>5. r.cmd = K.cmd BY <2>3 DEF OwnResult
  <2>6. what # "more" BY <1>14, InterpretOther
  <2>7. QED BY <1>12, <2>4, <2>5, <2>6
<1>15. CASE K.op = "Send" /\ K.heard # <<>>
  <2>1. SecondToCome(K, modem, result_queue_, line_queue_, inbound)
    BY <1>1, <1>11, <1>15 DEF UnderWay, AwaitsSecond
  <2>2. PICK a \in OwnResult(K) : modem = <<>> /\ OneIn(result_queue_, inbound, a)
    BY <1>2, <2>1 DEF SecondToCome, NoneIn
  <2>3. r = a /\ q = <<>> /\ None(inbound) BY <1>2, <2>2, OnePopped
  <2>4. Nothing(modem, q, line_queue_, inbound)
    BY <2>1, <2>2, <2>3 DEF Nothing, NoneIn, SecondToCome
  <2>5. r.cmd = K.cmd BY <2>3 DEF OwnResult
  <2>6. what # "more" BY <1>4, <1>15, InterpretSend
  <2>7. QED BY <1>12, <2>4, <2>5, <2>6
<1>16. CASE K.op = "Send" /\ K.heard = <<>>
  <2>1. TwoToCome(K, modem, result_queue_, line_queue_, inbound)
    BY <1>1, <1>11, <1>16 DEF UnderWay, AwaitsTwo
  <2>2. what = IF r.ok THEN "more" ELSE "kInvalidResponse" BY <1>4, <1>16, InterpretSend
  <2>3. line_queue_ = <<>> BY <2>1 DEF TwoToCome
  <2>4. CASE modem = Asked(K, 2)
             /\ \E a \in OwnResult(K) : a.ok /\ OneIn(result_queue_, inbound, a)
    <3>1. PICK a \in OwnResult(K) : a.ok /\ OneIn(result_queue_, inbound, a) BY <2>4
    <3>2. r = a /\ q = <<>> /\ None(inbound) BY <1>2, <3>1, OnePopped
    <3>3. r.cmd = K.cmd /\ what = "more" BY <2>2, <3>1, <3>2 DEF OwnResult
    <3>4. SecondToCome(K, modem, q, line_queue_, inbound)
      BY <2>3, <2>4, <3>2 DEF SecondToCome, NoneIn
    <3>5. QED BY <1>13, <1>16, <3>3, <3>4
  <2>5. CASE modem = <<>> /\ \E a \in OwnResult(K) : OneIn(result_queue_, inbound, a)
    <3>1. PICK a \in OwnResult(K) : OneIn(result_queue_, inbound, a) BY <2>5
    <3>2. r = a /\ q = <<>> /\ None(inbound) BY <1>2, <3>1, OnePopped
    <3>3. r.cmd = K.cmd BY <3>2 DEF OwnResult
    <3>4. CASE r.ok
      <4>1. SecondToCome(K, modem, q, line_queue_, inbound)
        BY <2>3, <2>5, <3>2 DEF SecondToCome, NoneIn
      <4>2. what = "more" BY <2>2, <3>4
      <4>3. QED BY <1>13, <1>16, <3>3, <4>1, <4>2
    <3>5. CASE ~r.ok
      <4>1. Nothing(modem, q, line_queue_, inbound)
        BY <2>3, <2>5, <3>2 DEF Nothing, NoneIn
      <4>2. what # "more" BY <2>2, <3>5
      <4>3. QED BY <1>12, <3>3, <4>1, <4>2
    <3>6. QED BY <3>4, <3>5
  <2>6. CASE modem = <<>>
             /\ \E a, b \in OwnResult(K) : a.ok /\ TwoIn(result_queue_, inbound, a, b)
    <3>1. PICK a \in OwnResult(K), b \in OwnResult(K) :
            a.ok /\ TwoIn(result_queue_, inbound, a, b)
      BY <2>6
    <3>2. r = a /\ OneIn(q, inbound, b) BY <1>2, <3>1, TwoPopped
    <3>3. r.cmd = K.cmd /\ what = "more" BY <2>2, <3>1, <3>2 DEF OwnResult
    <3>4. SecondToCome(K, modem, q, line_queue_, inbound)
      BY <2>3, <2>6, <3>2 DEF SecondToCome
    <3>5. QED BY <1>13, <1>16, <3>3, <3>4
  <2>7. QED BY <1>2, <2>1, <2>4, <2>5, <2>6 DEF TwoToCome, NoneIn
<1>17. QED BY <1>14, <1>15, <1>16

LEMMA ModemAnswersOwn ==
  ASSUME Sound, Own, ModemAnswers, UNCHANGED serial
  PROVE  Own'
<1>1. PICK a \in Answers(Head(modem)) :
        /\ inbound' = Append(inbound, a)
        /\ modem' = IF Head(modem).op = "Send" /\ Head(modem).stage = 1 /\ a.ok
                    THEN [modem EXCEPT ![1].stage = 2] ELSE Tail(modem)
  BY DEF ModemAnswers
<1>2. modem # <<>> /\ UNCHANGED <<call, uart, state_, result_queue_, line_queue_>>
  BY DEF ModemAnswers, queues
<1>3. inbound \in Seq(Packet) BY DEF Sound, Types, LinkTypes, Packet
<1>4. ASSUME NEW c \in Caller, CallIsOwn(c)
      PROVE  /\ UnderWay(call[c], modem', result_queue_', line_queue_', inbound')
             /\ FreeIsIdle(call[c], uart', state_')
  <2>1. /\ UnderWay(call[c], modem, result_queue_, line_queue_, inbound)
        /\ FreeIsIdle(call[c], uart, state_)
    BY <1>4 DEF CallIsOwn
  <2>2. call[c] \in CallRecord BY DEF Sound, Types, CallTypes
  <2>3. UnderWay(call[c], modem', result_queue_, line_queue_, Append(inbound, a))
    BY <1>1, <1>2, <1>3, <2>1, <2>2, ModemStep
  <2>4. QED BY <1>1, <1>2, <2>1, <2>3
<1>5. QED BY <1>2, <1>4, AroundOwn

LEMMA RadioPacketOwn ==
  ASSUME Sound, Own, RadioPacket, UNCHANGED serial
  PROVE  Own'
<1>1. /\ inbound' = Append(inbound, TheData(radio'))
      /\ UNCHANGED <<call, modem, uart, state_, result_queue_, line_queue_>>
  BY DEF RadioPacket, queues
<1>2. inbound \in Seq(Packet) BY DEF Sound, Types, LinkTypes, Packet
<1>3. TheData(radio') \in RadioData
  <2>1. radio' \in Nat BY DEF RadioPacket, Sound, Types, LinkTypes
  <2>2. QED BY <2>1 DEF TheData, RadioData
<1>4. ASSUME NEW c \in Caller, CallIsOwn(c)
      PROVE  /\ UnderWay(call[c], modem', result_queue_', line_queue_', inbound')
             /\ FreeIsIdle(call[c], uart', state_')
  <2>1. /\ UnderWay(call[c], modem, result_queue_, line_queue_, inbound)
        /\ FreeIsIdle(call[c], uart, state_)
    BY <1>4 DEF CallIsOwn
  <2>2. UnderWay(call[c], modem, result_queue_, line_queue_, inbound')
    BY <1>1, <1>2, <1>3, <2>1, DataStep
  <2>3. QED BY <1>1, <2>1, <2>2
<1>5. QED BY <1>1, <1>4, AroundOwn

LEMMA RxDispatchOwn ==
  ASSUME Sound, Own, RxDispatch, UNCHANGED serial
  PROVE  Own'
<1> DEFINE p == Head(inbound)
<1>1. /\ inbound \in Seq(Packet) /\ inbound # <<>>
  BY DEF RxDispatch, InPacket, Sound, Types, LinkTypes, Packet
<1>2. p \in Packet BY <1>1, QueueOps
<1>3. /\ inbound' = Tail(inbound) /\ uart' = "dispatched"
      /\ UNCHANGED <<call, modem, state_>>
  BY DEF RxDispatch, Dispatch
<1>4. ASSUME NEW c \in Caller, CallIsOwn(c)
      PROVE  /\ UnderWay(call[c], modem', result_queue_', line_queue_', inbound')
             /\ FreeIsIdle(call[c], uart', state_')
  <2>1. UnderWay(call[c], modem, result_queue_, line_queue_, inbound)
    BY <1>4 DEF CallIsOwn
  <2>2. CASE p.type = "kData"
    <3>1. UNCHANGED <<result_queue_, line_queue_>> BY <2>2 DEF RxDispatch, Dispatch
    <3>2. UnderWay(call[c], modem, result_queue_, line_queue_, inbound')
      BY <1>1, <1>3, <2>1, <2>2, DataStep
    <3>3. QED BY <1>3, <3>1, <3>2 DEF FreeIsIdle
  <2>3. CASE p.type = "kResult"
    <3>1. p \in Result BY <1>2, <2>3, PacketKinds DEF Packet
    <3>2. /\ result_queue_' = Push(result_queue_, ResultSlots, p)
          /\ UNCHANGED line_queue_
      BY <2>3 DEF RxDispatch, Dispatch
    <3>3. UnderWay(call[c], modem, result_queue_', line_queue_, Tail(inbound))
      BY <1>1, <2>1, <3>1, <3>2, ResultStep
    <3>4. QED BY <1>3, <3>2, <3>3 DEF FreeIsIdle
  <2>4. CASE p.type = "kLine"
    <3>1. p \in TextLine BY <1>2, <2>4, PacketKinds DEF Packet
    <3>2. /\ line_queue_' = Push(line_queue_, LineSlots, p)
          /\ UNCHANGED result_queue_
      BY <2>4 DEF RxDispatch, Dispatch
    <3>3. UnderWay(call[c], modem, result_queue_, line_queue_', Tail(inbound))
      BY <1>1, <2>1, <3>1, <3>2, LineStep
    <3>4. QED BY <1>3, <3>2, <3>3 DEF FreeIsIdle
  <2>5. QED BY <2>2, <2>3, <2>4 DEF RxDispatch, Dispatch
<1>5. QED BY <1>3, <1>4, AroundOwn

\* Steps that do not touch what a call waits for, but may free the driver.
LEMMA SilentOwn ==
  ASSUME Own, UNCHANGED <<serial, call, modem, inbound, result_queue_, line_queue_>>,
         uart' = "none" => state_' = "kIdle" \/ UNCHANGED <<uart, state_>>
  PROVE  Own'
<1>1. ASSUME NEW c \in Caller, CallIsOwn(c)
      PROVE  /\ UnderWay(call[c], modem', result_queue_', line_queue_', inbound')
             /\ FreeIsIdle(call[c], uart', state_')
  BY <1>1 DEF CallIsOwn, FreeIsIdle
<1>2. QED BY <1>1, AroundOwn

LEMMA InitOwn == Init => Own
<1>1. SUFFICES ASSUME Init, NEW c \in Caller PROVE CallIsOwn(c)
  BY DEF Own
<1>2. /\ modem = <<>> /\ inbound = <<>> /\ result_queue_ = <<>> /\ line_queue_ = <<>>
      /\ state_ = "kIdle"
      /\ call[c] = [pc |-> "out", op |-> "none", cmd |-> 0, heard |-> <<>>, out |-> "none"]
  BY <1>1 DEF Init
<1>3. call[c].pc = "out" /\ call[c].heard = <<>> /\ call[c].out = "none" BY <1>2
<1>4. Nothing(modem, result_queue_, line_queue_, inbound)
  BY <1>2 DEF Nothing, NoneIn, None
<1>5. UnderWay(call[c], modem, result_queue_, line_queue_, inbound)
  BY <1>3, <1>4, NothingUnderWay DEF BeforeCommand
<1>6. QED BY <1>2, <1>3, <1>5 DEF CallIsOwn, HeardOwn, FreeIsIdle

LEMMA StepOwn == Sound /\ Own /\ [Next]_vars => Own'
<1>1. SUFFICES ASSUME Sound, Own, [Next]_vars PROVE Own'
  OBVIOUS
<1>2. SUFFICES ASSUME SoleCaller, serial = "reliable", UNCHANGED serial PROVE Own'
  <2>1. UNCHANGED serial BY <1>1 DEF Next, vars
  <2>2. CASE SoleCaller /\ serial = "reliable" BY <1>2, <2>1, <2>2
  <2>3. CASE ~(SoleCaller /\ serial = "reliable") BY <2>1, <2>3 DEF Own, SoleCaller
  <2>4. QED BY <2>2, <2>3
<1>3. ASSUME NEW c \in Caller, CallerStep(c) PROVE Own'
  <2>1. CASE See(c) BY <1>1, <1>2, <2>1, SeeOwn
  <2>2. CASE TimeOut(c) BY <1>1, <1>2, <2>2, TimeOutOwn
  <2>3. CASE Acquire(c) BY <1>1, <1>2, <2>3, AcquireOwn
  <2>4. CASE Release(c) BY <1>1, <1>2, <2>4, ReleaseOwn
  <2>5. CASE PopResult(c) BY <1>1, <1>2, <2>5, PopResultOwn
  <2>6. CASE PopLine(c) BY <1>1, <1>2, <2>6, PopLineOwn
  <2>7. CASE FlushQueue(c) BY <1>1, <1>2, <2>7, FlushOwn
  <2>8. QED BY <1>3, <2>1, <2>2, <2>3, <2>4, <2>5, <2>6, <2>7 DEF CallerStep
<1>4. ASSUME NEW c \in Caller, NEW o \in Op, Call(c, o) PROVE Own'
  BY <1>1, <1>2, <1>4, CallOwn
<1>5. ASSUME NEW c \in Caller, SetDispatchRX(c) PROVE Own'
  BY <1>1, <1>2, <1>5, SilentOwn DEF SetDispatchRX, queues, link
<1>6. CASE ModemAnswers BY <1>1, <1>2, <1>6, ModemAnswersOwn
<1>7. CASE RadioPacket BY <1>1, <1>2, <1>7, RadioPacketOwn
<1>8. CASE LineLoses BY <1>2, <1>8 DEF LineLoses
<1>9. CASE RxStep
  <2>1. CASE RxEnter BY <1>1, <1>2, <2>1, SilentOwn DEF RxEnter, queues
  <2>2. CASE RxDispatch BY <1>1, <1>2, <2>2, RxDispatchOwn
  <2>3. CASE RxExit BY <1>1, <1>2, <2>3, SilentOwn DEF RxExit, queues
  <2>4. QED BY <1>9, <2>1, <2>2, <2>3 DEF RxStep
<1>10. CASE DrainStep
  BY <1>1, <1>2, <1>10, SilentOwn
     DEF DrainStep, DrainCheck, DrainPop, DrainDispatch, queues, link
<1>11. CASE UNCHANGED vars BY <1>1, <1>2, <1>11, SilentOwn DEF vars, queues, link
<1>12. CASE MakeUp BY <1>1, <1>2, <1>12 DEF MakeUp, Sound, InPacket
<1>13. QED BY <1>1, <1>3, <1>4, <1>5, <1>6, <1>7, <1>8, <1>9, <1>10, <1>11, <1>12 DEF Next

LEMMA OwnOutcome == Shape /\ Own => OutcomeIsOwn
<1>1. SUFFICES ASSUME Shape, Own, SoleCaller, serial = "reliable",
                      NEW c \in Caller, call[c].pc = "out"
               PROVE  /\ HeardOwn(call[c]) /\ call[c].out # "error"
                      /\ call[c].op = "Send" => (call[c].out = "kNoError" <=> Both(call[c].heard))
  BY DEF OutcomeIsOwn, At, HeardOwn, Both
<1>2. CallIsOwn(c) /\ ShapeOf(call[c]) BY <1>1 DEF Own, Shape
<1>3. QED BY <1>1, <1>2 DEF CallIsOwn, ShapeOf

(***************************************************************************)
(* For any commands, capacities and radio traffic: with one caller and     *)
(* answers in time, a call has read only answers to its own command, and   *)
(* Send says kNoError exactly when the modem has confirmed both the        *)
(* command and the transmission; also with a queue of a single slot, which *)
(* may drop the second of the two.                                         *)
(***************************************************************************)
THEOREM AnswersAreOwn == Spec => []OutcomeIsOwn
<1>1. Sound => Shape BY DEF Sound
<1>2. QED BY <1>1, InitSound, StepSound, InitOwn, StepOwn, OwnOutcome, PTL DEF Spec
=============================================================================
