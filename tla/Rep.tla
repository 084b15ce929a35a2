-------------------------------- MODULE Rep --------------------------------
(***************************************************************************)
(* ReliableFEPProtocol (rep.cpp): a checksum in front of every payload,    *)
(* and a thread of its own for what is sent from inside a receive          *)
(* callback.                                                               *)
(*                                                                         *)
(* Send runs on the application's threads and on the threads that deliver  *)
(* radio packets: the serial port's receive thread "uart" and the modem    *)
(* driver's fep_thread_ "drain".  Sending waits for results that only      *)
(* "uart" delivers.  in_isr, the static packet of Send, the checksum       *)
(* calculator and tx_buffer_ are shared by all of them without a lock.     *)
(***************************************************************************)
EXTENDS Integers, Sequences

CONSTANTS App,         \* application threads that call Send
          Dispatcher,  \* threads that run the receive callback
          QueueSlots,  \* capacity of tx_queue
          MaxMsgs,     \* bound: messages passed to Send in a behaviour
          MaxRx,       \* bound: radio packets received in a behaviour
          Jams         \* whether the driver may be busy of its own accord

Tx == "rep"            \* the thread the constructor starts
Thread == App \cup Dispatcher \cup {Tx}

ASSUME ThreadAssumption ==
  /\ Dispatcher \subseteq {"uart", "drain"}
  /\ App \cap {"uart", "drain", Tx} = {}
  /\ QueueSlots \in Nat \ {0} /\ MaxMsgs \in Nat /\ MaxRx \in Nat
  /\ Jams \subseteq BOOLEAN

VARIABLES
  pc,          \* where each thread is
  in_isr,
  packet,      \* the static packet of Send; messages are numbers
  own,         \* the packet the transmit thread popped
  tx_cs,       \* tx_cs_calculator: the message it was computed over
  tx_buffer_,  \* checksum and payload, as messages they come from
  to,          \* whose address each thread passes to the driver
  tx_queue,
  jams,        \* the driver may be found busy though no other Send is in it
  direct,      \* history: another thread than Tx has been inside _Send
  sent,        \* frames written to the modem (history)
  tried,       \* history: receivers of what came out of tx_queue and was
               \* handed to the driver, written or refused
  pushed,      \* messages put into tx_queue (history)
  count, rx    \* messages and radio packets so far

sendVars == <<packet, own, tx_cs, tx_buffer_, to>>
written == <<direct, sent, tried>>
vars == <<jams, pc, in_isr, sendVars, tx_queue, written, pushed, count, rx>>

None == 0
Sending == {"checksum", "body", "write", "answer"}
PC == {"idle", "callback", "copied"} \cup Sending

Init ==
  /\ jams \in Jams
  /\ pc = [t \in Thread |-> "idle"]
  /\ in_isr = FALSE
  /\ packet = None /\ own = None /\ tx_cs = None
  /\ tx_buffer_ = [cs |-> None, body |-> None]
  /\ to = [t \in Thread |-> None]
  /\ tx_queue = <<>>
  /\ direct = FALSE
  /\ sent = <<>> /\ tried = <<>> /\ pushed = <<>>
  /\ count = 0 /\ rx = 0

Home(t) == IF t \in Dispatcher THEN "callback" ELSE "idle"
Go(t, where) == pc' = [pc EXCEPT ![t] = where]

\* _Send gets its packet by reference: the static one, or the transmit
\* thread's own.
Current(t) == IF t = Tx THEN own ELSE packet

-----------------------------------------------------------------------------
\* slip: in_isr is set only once the checksum has been found right
SlipFlagAfterCheck(d) ==
  /\ pc[d] = "idle" /\ rx < MaxRx
  /\ Go(d, "callback")
  /\ rx' = rx + 1
  /\ UNCHANGED <<in_isr, sendVars, tx_queue, written, pushed, count>>

\* A radio packet: in_isr is set, the checksum is compared.  A packet with a
\* wrong one is like one whose callback sends nothing.
RxBegin(d) ==
  /\ pc[d] = "idle" /\ rx < MaxRx
  /\ Go(d, "callback")
  /\ in_isr' = TRUE
  /\ rx' = rx + 1
  /\ UNCHANGED <<sendVars, tx_queue, written, pushed, count>>

RxEnd(d) ==
  /\ pc[d] = "callback"
  /\ Go(d, "idle")
  /\ in_isr' = FALSE
  /\ UNCHANGED <<sendVars, tx_queue, written, pushed, count, rx>>

\* Send: the message is copied into the static packet ...
SendCopy(t) ==
  /\ pc[t] = Home(t) /\ count < MaxMsgs
  /\ Go(t, "copied")
  /\ count' = count + 1
  /\ packet' = count'
  /\ UNCHANGED <<in_isr, own, tx_cs, tx_buffer_, to, tx_queue, written, pushed, rx>>

\* ... which is sent from here, or left to the transmit thread.
SendDirect(t) ==
  /\ pc[t] = "copied" /\ ~in_isr
  /\ Go(t, "checksum")
  /\ direct' = TRUE
  /\ UNCHANGED <<in_isr, sendVars, tx_queue, sent, tried, pushed, count, rx>>

HasRoom(q) == Len(q) < QueueSlots

SendQueued(t) ==
  /\ pc[t] = "copied" /\ in_isr
  /\ Go(t, Home(t))
  /\ IF HasRoom(tx_queue)
     THEN tx_queue' = Append(tx_queue, packet) /\ pushed' = Append(pushed, packet)
     ELSE UNCHANGED <<tx_queue, pushed>>
  /\ UNCHANGED <<in_isr, sendVars, written, count, rx>>

\* slip: one packet is always left behind
SlipLeavesOne ==
  /\ pc[Tx] = "idle" /\ Len(tx_queue) > 1
  /\ Go(Tx, "checksum")
  /\ own' = Head(tx_queue)
  /\ tx_queue' = Tail(tx_queue)
  /\ UNCHANGED <<in_isr, packet, tx_cs, tx_buffer_, to, written, pushed, count, rx>>

TxPop ==
  /\ pc[Tx] = "idle" /\ tx_queue # <<>>
  /\ Go(Tx, "checksum")
  /\ own' = Head(tx_queue)
  /\ tx_queue' = Tail(tx_queue)
  /\ UNCHANGED <<in_isr, packet, tx_cs, tx_buffer_, to, written, pushed, count, rx>>

(***************************************************************************)
(* _Send: the checksum over the packet, the copy into tx_buffer_, and the  *)
(* driver, which reads tx_buffer_ when it writes the command.              *)
(***************************************************************************)
Checksum(t) ==
  /\ pc[t] = "checksum"
  /\ Go(t, "body")
  /\ tx_cs' = Current(t)
  /\ UNCHANGED <<in_isr, packet, own, tx_buffer_, to, tx_queue, written, pushed,
                 count, rx>>

\* slip: the checksum of the previous frame is still in the buffer
SlipOldChecksum(t) ==
  /\ pc[t] = "body"
  /\ Go(t, "write")
  /\ tx_buffer_' = [tx_buffer_ EXCEPT !.body = Current(t)]
  /\ to' = [to EXCEPT ![t] = Current(t)]
  /\ UNCHANGED <<in_isr, packet, own, tx_cs, tx_queue, written, pushed, count, rx>>

Body(t) ==
  /\ pc[t] = "body"
  /\ Go(t, "write")
  /\ tx_buffer_' = [cs |-> tx_cs, body |-> Current(t)]
  /\ to' = [to EXCEPT ![t] = Current(t)]
  /\ UNCHANGED <<in_isr, packet, own, tx_cs, tx_queue, written, pushed, count, rx>>

HandedOver(t) == tried' = IF t = Tx THEN Append(tried, to[t]) ELSE tried

Write(t) ==
  /\ pc[t] = "write"
  /\ Go(t, "answer")
  /\ sent' = Append(sent, [to |-> to[t], cs |-> tx_buffer_.cs, body |-> tx_buffer_.body])
  /\ HandedOver(t)
  /\ UNCHANGED <<in_isr, sendVars, tx_queue, direct, pushed, count, rx>>

(***************************************************************************)
(* driver_.Send gives up, and writes nothing, when the driver stays busy   *)
(* for 2 s: in the Send of another thread, which may wait 5 s for each of  *)
(* its results, or in a packet of which bytes were lost.                   *)
(***************************************************************************)
Busy(t) == jams \/ \E u \in Thread \ {t} : pc[u] = "answer"

Refused(t) ==
  /\ pc[t] = "write" /\ Busy(t)
  /\ Go(t, Home(t))
  /\ HandedOver(t)
  /\ UNCHANGED <<in_isr, sendVars, tx_queue, direct, sent, pushed, count, rx>>

\* driver_.Send returns with the modem's results or at its timeout.  Its
\* TxState is not looked at, here or after a refusal: nothing is sent again.
Answer(t) ==
  /\ pc[t] = "answer"
  /\ Go(t, Home(t))
  /\ UNCHANGED <<in_isr, sendVars, tx_queue, written, pushed, count, rx>>

Transmit(t) == Checksum(t) \/ Body(t) \/ Write(t) \/ Refused(t) \/ Answer(t)

Next ==
  /\ \/ \E d \in Dispatcher : RxBegin(d) \/ RxEnd(d)
     \/ \E t \in App \cup Dispatcher : SendCopy(t) \/ SendDirect(t) \/ SendQueued(t)
     \/ TxPop
     \/ \E t \in Thread : Transmit(t)
  /\ UNCHANGED jams

Spec == Init /\ [][Next]_vars

\* The transmit thread sleeps 1 ms and looks again; it is always scheduled.
FairSpec == Spec /\ WF_vars((TxPop \/ Transmit(Tx)) /\ UNCHANGED jams)

-----------------------------------------------------------------------------
Message == Nat
Frame == [to : Message, cs : Message, body : Message]

\* Every variable has its type and tx_queue keeps its capacity.
TypeOK ==
  /\ jams \in BOOLEAN /\ direct \in BOOLEAN
  /\ pc \in [Thread -> PC]
  /\ in_isr \in BOOLEAN
  /\ packet \in Message /\ own \in Message /\ tx_cs \in Message
  /\ tx_buffer_ \in [cs : Message, body : Message]
  /\ to \in [Thread -> Message]
  /\ tx_queue \in Seq(Message) /\ Len(tx_queue) <= QueueSlots
  /\ sent \in Seq(Frame) /\ tried \in Seq(Message) /\ pushed \in Seq(Message)
  /\ count \in Nat /\ rx \in Nat

(***************************************************************************)
(* The thread that delivers the modem's results never waits for one: a     *)
(* Send from inside the only dispatcher is always left to the transmit     *)
(* thread, whatever the application's threads send meanwhile.  This is     *)
(* what in_isr is for.  With two dispatchers the one that ends first       *)
(* clears the flag under the other, and the property fails.                *)
(***************************************************************************)
ReceiverNeverWaits ==
  Dispatcher = {"uart"} => pc["uart"] \notin Sending

(***************************************************************************)
(* As long as everything goes through the transmit thread, every frame is  *)
(* written with the checksum of its own payload, to its own receiver,      *)
(* however many threads leave packets to it, and none is missing unless    *)
(* the driver is busy of its own accord.  One direct Send besides it       *)
(* breaks all of this: the two share the calculator, tx_buffer_ and the    *)
(* driver, which refuses the one while it waits for the other's answer.    *)
(***************************************************************************)
OnlyTxSends == ~direct

FramesIntact ==
  OnlyTxSends =>
    /\ \A i \in DOMAIN sent : sent[i].cs = sent[i].body /\ sent[i].to = sent[i].body
    /\ ~jams => /\ Len(sent) = Len(tried)
                /\ \A i \in DOMAIN sent : sent[i].to = tried[i]

Replies == INSTANCE InOrderLink WITH sent <- pushed, delivered <- tried

(***************************************************************************)
(* Every packet the queue accepted is handed to the driver with its own    *)
(* receiver, once and in the order of the queue.  It is one try: what the  *)
(* driver refuses is lost, and nobody learns of it.                        *)
(***************************************************************************)
RepliesInOrder == Replies!InOrder

(***************************************************************************)
(* That try comes eventually, and in that order, however many packets the  *)
(* queue had to refuse, whatever the application sends meanwhile and       *)
(* however often the driver is busy.                                       *)
(***************************************************************************)
RepliesGoOut ==
  /\ RepliesInOrder
  /\ \A n \in 1..MaxMsgs : Len(pushed) >= n ~> Len(tried) >= n
=============================================================================
