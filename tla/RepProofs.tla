----------------------------- MODULE RepProofs -----------------------------
(***************************************************************************)
(* Rep, for every set of threads and every bound: types, the receiver that *)
(* never waits, intact frames while only the transmit thread sends, and    *)
(* that the tries to send the replies are an InOrderLink.                  *)
(***************************************************************************)
EXTENDS Rep, TLAPS

LEMMA ThreadFacts ==
  /\ Tx \in Thread
  /\ Tx \notin App \cup Dispatcher
  /\ App \cap Dispatcher = {}
BY ThreadAssumption DEF Thread, Tx

\* Every step keeps the types; Current yields a message.
LEMMA TypeStep == TypeOK /\ [Next]_vars => TypeOK'
<1> SUFFICES ASSUME TypeOK, [Next]_vars PROVE TypeOK'
  OBVIOUS
<1> USE ThreadFacts DEF TypeOK, Message, Frame, Go, sendVars, written, PC, Sending
<1>0. jams' = jams
  BY DEF Next, vars
<1> USE <1>0
<1>1. ASSUME NEW d \in Dispatcher, RxBegin(d) PROVE TypeOK'
  BY <1>1, d \in Thread DEF RxBegin, Thread
<1>2. ASSUME NEW d \in Dispatcher, RxEnd(d) PROVE TypeOK'
  BY <1>2, d \in Thread DEF RxEnd, Thread
<1>3. ASSUME NEW t \in App \cup Dispatcher, SendCopy(t) PROVE TypeOK'
  BY <1>3, t \in Thread DEF SendCopy, Thread
<1>4. ASSUME NEW t \in App \cup Dispatcher, SendDirect(t) PROVE TypeOK'
  BY <1>4, t \in Thread DEF SendDirect, Thread
<1>5. ASSUME NEW t \in App \cup Dispatcher, SendQueued(t) PROVE TypeOK'
  <2>1. Home(t) \in PC
    BY DEF Home
  <2>2. pc' \in [Thread -> PC]
    BY <1>5, <2>1 DEF SendQueued
  <2>3. /\ tx_queue' \in Seq(Nat) /\ Len(tx_queue') <= QueueSlots
        /\ pushed' \in Seq(Nat)
    <3>1. CASE HasRoom(tx_queue)
      <4>1. tx_queue' = Append(tx_queue, packet) /\ pushed' = Append(pushed, packet)
        BY <1>5, <3>1 DEF SendQueued
      <4> QED
        BY <3>1, <4>1, ThreadAssumption DEF HasRoom
    <3>2. CASE ~HasRoom(tx_queue)
      BY <1>5, <3>2 DEF SendQueued
    <3> QED
      BY <3>1, <3>2
  <2> QED
    BY <1>5, <2>2, <2>3 DEF SendQueued
<1>6. ASSUME TxPop PROVE TypeOK'
  BY <1>6, ThreadAssumption DEF TxPop
<1>7. ASSUME NEW t \in Thread, Transmit(t) PROVE TypeOK'
  <2>1. Current(t) \in Nat
    BY DEF Current
  <2>2. CASE Checksum(t)
    BY <2>1, <2>2 DEF Checksum
  <2>3. CASE Body(t)
    BY <2>1, <2>3 DEF Body
  <2>4. CASE Write(t)
    <3>1. [to |-> to[t], cs |-> tx_buffer_.cs, body |-> tx_buffer_.body] \in Frame
      OBVIOUS
    <3>2. tried' \in Seq(Nat)
      <4>1. to[t] \in Nat
        OBVIOUS
      <4> QED
        BY <2>4, <4>1 DEF Write, HandedOver
    <3> QED
      BY <2>4, <3>1, <3>2 DEF Write
  <2>6. CASE Refused(t)
    <3>1. tried' \in Seq(Nat)
      <4>1. to[t] \in Nat
        OBVIOUS
      <4> QED
        BY <2>6, <4>1 DEF Refused, HandedOver
    <3>2. Home(t) \in PC
      BY DEF Home
    <3> QED
      BY <2>6, <3>1, <3>2 DEF Refused
  <2>5. CASE Answer(t)
    <3>1. Home(t) \in PC
      BY DEF Home
    <3> QED
      BY <2>5, <3>1 DEF Answer
  <2> QED
    BY <1>7, <2>2, <2>3, <2>4, <2>5, <2>6 DEF Transmit
<1>8. CASE UNCHANGED vars
  BY <1>8 DEF vars
<1> QED
  BY <1>1, <1>2, <1>3, <1>4, <1>5, <1>6, <1>7, <1>8 DEF Next

\* The variables keep their types, tx_queue its capacity.
THEOREM Types == Spec => []TypeOK
<1>1. Init => TypeOK
  <2> SUFFICES ASSUME Init PROVE TypeOK
    OBVIOUS
  <2>1. /\ pc \in [Thread -> PC] /\ to \in [Thread -> Nat]
        /\ tx_buffer_ \in [cs : Nat, body : Nat]
    BY DEF Init, PC, None
  <2>2. /\ tx_queue \in Seq(Nat) /\ Len(tx_queue) = 0
        /\ sent \in Seq(Frame) /\ tried \in Seq(Nat) /\ pushed \in Seq(Nat)
    BY DEF Init
  <2>3. in_isr \in BOOLEAN /\ direct \in BOOLEAN /\ jams \in BOOLEAN
    BY ThreadAssumption DEF Init
  <2>4. /\ packet \in Nat /\ own \in Nat /\ tx_cs \in Nat
        /\ count \in Nat /\ rx \in Nat /\ 0 <= QueueSlots
    BY ThreadAssumption DEF Init, None
  <2> QED
    BY <2>1, <2>2, <2>3, <2>4 DEF TypeOK, Message
<1> QED
  BY <1>1, TypeStep, PTL DEF Spec

-----------------------------------------------------------------------------
(***************************************************************************)
(* While the only dispatcher is inside a packet in_isr is set, so its Send *)
(* cannot take the direct way.                                             *)
(***************************************************************************)
InIsrInv ==
  Dispatcher = {"uart"} =>
    /\ pc["uart"] \in {"idle", "callback", "copied"}
    /\ pc["uart"] # "idle" => in_isr

LEMMA InIsrStep == TypeOK /\ InIsrInv /\ [Next]_vars => InIsrInv'
<1> SUFFICES ASSUME TypeOK, InIsrInv, [Next]_vars, Dispatcher = {"uart"}
             PROVE  /\ pc'["uart"] \in {"idle", "callback", "copied"}
                    /\ pc'["uart"] # "idle" => in_isr'
  BY DEF InIsrInv
<1>0. /\ "uart" \in Thread /\ "uart" \notin App /\ "uart" # Tx
      /\ pc \in [Thread -> PC]
  BY ThreadFacts DEF Thread, TypeOK
<1> USE <1>0 DEF InIsrInv, Go, Sending
<1>1. ASSUME NEW d \in Dispatcher, RxBegin(d) \/ RxEnd(d)
      PROVE  /\ pc'["uart"] \in {"idle", "callback", "copied"}
             /\ pc'["uart"] # "idle" => in_isr'
  BY <1>1 DEF RxBegin, RxEnd
<1>2. ASSUME NEW t \in App \cup Dispatcher,
             SendCopy(t) \/ SendDirect(t) \/ SendQueued(t)
      PROVE  /\ pc'["uart"] \in {"idle", "callback", "copied"}
             /\ pc'["uart"] # "idle" => in_isr'
  BY <1>2 DEF SendCopy, SendDirect, SendQueued, Home
<1>3. CASE TxPop
  BY <1>3 DEF TxPop
<1>4. ASSUME NEW t \in Thread, Transmit(t)
      PROVE  /\ pc'["uart"] \in {"idle", "callback", "copied"}
             /\ pc'["uart"] # "idle" => in_isr'
  BY <1>4 DEF Transmit, Checksum, Body, Write, Refused, Answer
<1>5. CASE UNCHANGED vars
  BY <1>5 DEF vars
<1> QED
  BY <1>1, <1>2, <1>3, <1>4, <1>5 DEF Next

\* The thread that delivers the modem's results never waits for one.
THEOREM NeverWaits == Spec => []ReceiverNeverWaits
<1>1. Init => InIsrInv
  BY ThreadFacts DEF Init, InIsrInv, Thread
<1>2. InIsrInv => ReceiverNeverWaits
  BY DEF InIsrInv, ReceiverNeverWaits, Sending
<1> QED
  BY <1>1, <1>2, InIsrStep, Types, PTL DEF Spec

-----------------------------------------------------------------------------
(***************************************************************************)
(* While the transmit thread is the only one that has been inside _Send,   *)
(* what it put into the calculator and the buffer is its own, and the      *)
(* driver refuses it only of its own accord.                               *)
(***************************************************************************)
Intact(f) == f.cs = f.body /\ f.to = f.body

\* The frames are the tries, one for one.
Matches(fs, ts) == Len(fs) = Len(ts) /\ \A i \in DOMAIN fs : fs[i].to = ts[i]

OneSenderInv ==
  OnlyTxSends =>
    /\ \A t \in Thread \ {Tx} : pc[t] \notin Sending
    /\ pc[Tx] = "body" => tx_cs = own
    /\ pc[Tx] = "write" => tx_buffer_ = [cs |-> own, body |-> own] /\ to[Tx] = own
    /\ \A i \in DOMAIN sent : Intact(sent[i])
    /\ ~jams => Matches(sent, tried)

\* A step that hands no frame over and touches no buffer keeps the invariant.
LEMMA QuietStep ==
  ASSUME TypeOK, OneSenderInv, UNCHANGED <<jams, direct, own, tx_cs, tx_buffer_, to, sent, tried>>,
         NEW t \in Thread, NEW where \in PC, Go(t, where),
         where \notin Sending \/ (pc[t] \in Sending /\ where \notin {"body", "write"})
  PROVE  OneSenderInv'
<1>0. pc \in [Thread -> PC] /\ Tx \in Thread
  BY ThreadFacts DEF TypeOK
<1>1. pc' = [pc EXCEPT ![t] = where]
  BY DEF Go
<1>2. OnlyTxSends' = OnlyTxSends
  BY DEF OnlyTxSends
<1>3. ASSUME OnlyTxSends, NEW u \in Thread \ {Tx}
      PROVE  pc'[u] \notin Sending
  BY <1>0, <1>1, <1>3 DEF OneSenderInv
<1>4. OnlyTxSends => (pc'[Tx] = "body" => tx_cs = own)
  BY <1>0, <1>1 DEF OneSenderInv, Sending
<1>5. OnlyTxSends => (pc'[Tx] = "write" => tx_buffer_ = [cs |-> own, body |-> own] /\ to[Tx] = own)
  BY <1>0, <1>1 DEF OneSenderInv, Sending
<1> QED
  BY <1>2, <1>3, <1>4, <1>5 DEF OneSenderInv

LEMMA MatchesMore ==
  ASSUME NEW fs \in Seq(Frame), NEW ts \in Seq(Nat), Matches(fs, ts),
         NEW f \in Frame, NEW n \in Nat, f.to = n
  PROVE  Matches(Append(fs, f), Append(ts, n))
<1> DEFINE ff == Append(fs, f)
           tt == Append(ts, n)
<1>1. /\ Len(fs) \in Nat /\ Len(ts) \in Nat /\ DOMAIN fs = 1..Len(fs)
      /\ Len(ff) = Len(fs) + 1 /\ DOMAIN ff = 1..(Len(fs) + 1)
      /\ Len(tt) = Len(ts) + 1
      /\ ff[Len(fs) + 1] = f /\ \A i \in 1..Len(fs) : ff[i] = fs[i]
      /\ tt[Len(ts) + 1] = n /\ \A i \in 1..Len(ts) : tt[i] = ts[i]
  OBVIOUS
<1>2. Len(fs) = Len(ts) /\ \A i \in DOMAIN fs : fs[i].to = ts[i]
  BY DEF Matches
<1> HIDE DEF ff, tt
<1>3. \A i \in DOMAIN ff : ff[i].to = tt[i]
  BY <1>1, <1>2
<1>4. Matches(ff, tt)
  BY <1>1, <1>2, <1>3 DEF Matches
<1> QED
  BY <1>4 DEF ff, tt

LEMMA OneSenderStep == TypeOK /\ OneSenderInv /\ [Next]_vars => OneSenderInv'
<1> SUFFICES ASSUME TypeOK, OneSenderInv, [Next]_vars PROVE OneSenderInv'
  OBVIOUS
<1>0. /\ Tx \in Thread /\ pc \in [Thread -> PC] /\ to \in [Thread -> Nat]
      /\ sent \in Seq(Frame) /\ tried \in Seq(Nat)
      /\ tx_buffer_ \in [cs : Nat, body : Nat]
  BY ThreadFacts DEF TypeOK, Message
<1>9. jams' = jams
  BY DEF Next, vars
<1>1. ASSUME NEW d \in Dispatcher, RxBegin(d) \/ RxEnd(d) PROVE OneSenderInv'
  BY <1>1, <1>9, QuietStep DEF RxBegin, RxEnd, sendVars, written, Thread, PC, Sending
<1>2. ASSUME NEW t \in App \cup Dispatcher, SendCopy(t) \/ SendQueued(t)
      PROVE  OneSenderInv'
  BY <1>2, <1>9, QuietStep DEF SendCopy, SendQueued, Home, sendVars, written,
     Thread, PC, Sending
<1>3. ASSUME NEW t \in App \cup Dispatcher, SendDirect(t) PROVE OneSenderInv'
  BY <1>3 DEF SendDirect, OneSenderInv, OnlyTxSends
<1>4. CASE TxPop
  <2>1. /\ UNCHANGED <<direct, sent, tried, tx_cs, tx_buffer_, to>>
        /\ pc' = [pc EXCEPT ![Tx] = "checksum"]
    BY <1>4 DEF TxPop, Go, written
  <2> QED
    BY <1>0, <1>9, <2>1 DEF OneSenderInv, OnlyTxSends
<1>5. ASSUME NEW t \in Thread, Transmit(t) PROVE OneSenderInv'
  <2> SUFFICES ASSUME OnlyTxSends PROVE OneSenderInv'
    BY <1>5 DEF OneSenderInv, OnlyTxSends, Transmit, Checksum, Body, Write, Refused,
       Answer, written
  <2>1. t = Tx
    BY <1>5 DEF OneSenderInv, Transmit, Checksum, Body, Write, Refused, Answer, Sending
  <2>2. CASE Checksum(Tx)
    <3>1. /\ UNCHANGED <<direct, sent, tried, own, tx_buffer_, to>> /\ tx_cs' = own
          /\ pc' = [pc EXCEPT ![Tx] = "body"]
      BY <2>2 DEF Checksum, Go, Current, written
    <3> QED
      BY <1>0, <1>9, <3>1 DEF OneSenderInv, OnlyTxSends
  <2>3. CASE Body(Tx)
    <3>1. /\ UNCHANGED <<direct, sent, tried, own>>
          /\ tx_buffer_' = [cs |-> tx_cs, body |-> own] /\ to' = [to EXCEPT ![Tx] = own]
          /\ pc' = [pc EXCEPT ![Tx] = "write"] /\ pc[Tx] = "body"
      BY <2>3 DEF Body, Go, Current, written
    <3>2. tx_cs = own
      BY <3>1 DEF OneSenderInv
    <3> QED
      BY <1>0, <1>9, <3>1, <3>2 DEF OneSenderInv, OnlyTxSends
  <2>4. CASE Write(Tx)
    <3> DEFINE f == [to |-> to[Tx], cs |-> tx_buffer_.cs, body |-> tx_buffer_.body]
    <3>1. /\ sent' = Append(sent, f) /\ tried' = Append(tried, to[Tx])
          /\ pc' = [pc EXCEPT ![Tx] = "answer"] /\ pc[Tx] = "write"
          /\ UNCHANGED direct
      BY <2>4 DEF Write, HandedOver, Go
    <3>2. Intact(f)
      BY <3>1 DEF OneSenderInv, Intact
    <3>3. f \in Frame /\ to[Tx] \in Nat /\ f.to = to[Tx]
      BY <1>0 DEF Frame, Message
    <3> HIDE DEF f
    <3>4. \A i \in DOMAIN sent' : Intact(sent'[i])
      <4>1. /\ DOMAIN sent' = 1..(Len(sent) + 1) /\ DOMAIN sent = 1..Len(sent)
            /\ sent'[Len(sent) + 1] = f /\ \A i \in 1..Len(sent) : sent'[i] = sent[i]
            /\ Len(sent) \in Nat
        BY <1>0, <3>1, <3>3
      <4>2. \A i \in 1..(Len(sent) + 1) : i \in 1..Len(sent) \/ i = Len(sent) + 1
        BY <4>1
      <4>3. \A i \in DOMAIN sent : Intact(sent[i])
        BY DEF OneSenderInv
      <4> QED
        BY <3>2, <4>1, <4>2, <4>3
    <3>5. ~jams' => Matches(sent', tried')
      <4>1. SUFFICES ASSUME ~jams PROVE Matches(Append(sent, f), Append(tried, to[Tx]))
        BY <1>9, <3>1
      <4>2. Matches(sent, tried)
        BY <4>1 DEF OneSenderInv
      <4> QED
        BY ONLY <1>0, <3>3, <4>2, MatchesMore
    <3>6. /\ pc'[Tx] = "answer"
          /\ \A u \in Thread \ {Tx} : pc'[u] = pc[u]
      BY <1>0, <3>1
    <3>7. \A u \in Thread \ {Tx} : pc'[u] \notin Sending
      BY <3>6 DEF OneSenderInv
    <3> QED
      BY <3>4, <3>5, <3>6, <3>7 DEF OneSenderInv
  <2>5. CASE Refused(Tx)
    <3>1. jams
      BY <2>5 DEF Refused, Busy, OneSenderInv, Sending
    <3>2. UNCHANGED <<direct, sent>> /\ pc' = [pc EXCEPT ![Tx] = "idle"]
      BY <2>5, ThreadFacts DEF Refused, Go, Home
    <3> QED
      BY <1>0, <1>9, <3>1, <3>2 DEF OneSenderInv, OnlyTxSends, Sending
  <2>6. CASE Answer(Tx)
    BY <1>9, <2>6, QuietStep, ThreadFacts DEF Answer, Home, sendVars, PC, Sending, written
  <2> QED
    BY <1>5, <2>1, <2>2, <2>3, <2>4, <2>5, <2>6 DEF Transmit
<1>6. CASE UNCHANGED vars
  BY <1>6 DEF vars, sendVars, OneSenderInv, OnlyTxSends, written
<1> QED
  BY <1>1, <1>2, <1>3, <1>4, <1>5, <1>6 DEF Next

\* While only the transmit thread sends, every frame carries its own checksum,
\* goes to its own receiver, and none is missing but by a busy driver.
THEOREM IntactFrames == Spec => []FramesIntact
<1>1. Init => OneSenderInv
  <2> SUFFICES ASSUME Init PROVE OneSenderInv
    OBVIOUS
  <2>1. \A t \in Thread : pc[t] = "idle"
    BY DEF Init
  <2>2. DOMAIN sent = {} /\ Len(sent) = 0 /\ Len(tried) = 0
    BY DEF Init
  <2>3. Matches(sent, tried)
    BY <2>2 DEF Matches
  <2> QED
    BY <2>1, <2>2, <2>3, ThreadFacts DEF OneSenderInv, Sending
<1>2. OneSenderInv => FramesIntact
  BY DEF OneSenderInv, FramesIntact, Intact, Matches
<1> QED
  BY <1>1, <1>2, OneSenderStep, Types, PTL DEF Spec
-----------------------------------------------------------------------------
(***************************************************************************)
(* The replies.  Rep implements InOrderLink: a message is put in when      *)
(* tx_queue accepts it, and handed over when the transmit thread passes it *)
(* to the driver.  What was accepted and not tried yet is the packet in    *)
(* the thread's hand and then the queue, in the order of acceptance.       *)
(***************************************************************************)
InHand == pc[Tx] \in {"checksum", "body", "write"}

\* Behind the first n messages of p come those of q, and no more.
EndsWith(p, n, q) ==
  /\ Len(p) = n + Len(q)
  /\ \A i \in 1..Len(q) : p[n + i] = q[i]

Held ==
  /\ pushed[Len(tried) + 1] = own
  /\ pc[Tx] = "write" => to[Tx] = own
  /\ EndsWith(pushed, Len(tried) + 1, tx_queue)

InTurn ==
  /\ InHand => Held
  /\ ~InHand => EndsWith(pushed, Len(tried), tx_queue)

LEMMA BothGrow ==
  ASSUME NEW n \in Nat, NEW p \in Seq(Nat), NEW q \in Seq(Nat), NEW x \in Nat,
         EndsWith(p, n, q)
  PROVE  EndsWith(Append(p, x), n, Append(q, x))
<1> DEFINE pp == Append(p, x)
           qq == Append(q, x)
<1>1. /\ Len(pp) = Len(p) + 1 /\ Len(qq) = Len(q) + 1
      /\ Len(p) \in Nat /\ Len(q) \in Nat
  OBVIOUS
<1>2. /\ pp[Len(p) + 1] = x /\ \A i \in 1..Len(p) : pp[i] = p[i]
      /\ qq[Len(q) + 1] = x /\ \A i \in 1..Len(q) : qq[i] = q[i]
  OBVIOUS
<1>3. Len(p) = n + Len(q) /\ \A i \in 1..Len(q) : p[n + i] = q[i]
  BY DEF EndsWith
<1> HIDE DEF pp, qq
<1>4. ASSUME NEW i \in 1..Len(qq) PROVE pp[n + i] = qq[i]
  <2>1. CASE i \in 1..Len(q)
    <3>1. n + i \in 1..Len(p)
      BY <1>1, <1>3, <2>1
    <3> QED
      BY ONLY <1>2, <1>3, <2>1, <3>1
  <2>2. CASE i = Len(q) + 1
    <3>1. n + i = Len(p) + 1
      BY <1>1, <1>3, <2>2
    <3> QED
      BY <1>2, <2>2, <3>1
  <2> QED
    BY <1>1, <2>1, <2>2
<1>5. EndsWith(pp, n, qq)
  BY <1>1, <1>3, <1>4 DEF EndsWith
<1> QED
  BY <1>5 DEF pp, qq

LEMMA FirstIsTaken ==
  ASSUME NEW n \in Nat, NEW p \in Seq(Nat), NEW q \in Seq(Nat), q # <<>>,
         EndsWith(p, n, q)
  PROVE  p[n + 1] = Head(q) /\ EndsWith(p, n + 1, Tail(q))
<1>1. /\ Len(q) \in Nat /\ Len(q) > 0 /\ Head(q) = q[1] /\ Len(Tail(q)) = Len(q) - 1
      /\ \A i \in 1..Len(Tail(q)) : Tail(q)[i] = q[i + 1]
  OBVIOUS
<1>2. Len(p) = n + Len(q) /\ \A i \in 1..Len(q) : p[n + i] = q[i]
  BY DEF EndsWith
<1>3. p[n + 1] = Head(q)
  BY <1>1, <1>2
<1>4. ASSUME NEW i \in 1..Len(Tail(q)) PROVE p[n + 1 + i] = Tail(q)[i]
  <2>1. i + 1 \in 1..Len(q) /\ n + 1 + i = n + (i + 1)
    BY <1>1
  <2> QED
    BY <1>1, <1>2, <2>1
<1>5. Len(p) = n + 1 + Len(Tail(q))
  BY <1>1, <1>2
<1> QED
  BY <1>3, <1>4, <1>5 DEF EndsWith

\* A step that leaves the queues alone and does not move a packet.
LEMMA NothingMoves ==
  ASSUME InTurn, UNCHANGED <<pushed, tried, tx_queue, own>>,
         InHand' <=> InHand, pc'[Tx] = "write" => to'[Tx] = own
  PROVE  InTurn'
BY DEF InTurn, Held, EndsWith

LEMMA InTurnStep ==
  ASSUME TypeOK, InTurn, [Next]_vars
  PROVE  InTurn' /\ [Replies!Send \/ Replies!Deliver]_(Replies!vars)
<1> DEFINE Goal == InTurn' /\ [Replies!Send \/ Replies!Deliver]_(Replies!vars)
<1>0. /\ Tx \in Thread /\ pc \in [Thread -> PC] /\ to \in [Thread -> Nat]
      /\ pushed \in Seq(Nat) /\ tried \in Seq(Nat) /\ tx_queue \in Seq(Nat)
      /\ packet \in Nat /\ Len(tried) \in Nat
  BY ThreadFacts DEF TypeOK, Message
<1>1. ASSUME NEW t \in Thread, NEW where \in PC, Go(t, where), t # Tx,
             UNCHANGED <<pushed, tried, tx_queue, own>>, to'[Tx] = to[Tx]
      PROVE  Goal
  <2>1. pc'[Tx] = pc[Tx]
    BY <1>0, <1>1 DEF Go
  <2>2. InHand' <=> InHand
    BY <2>1 DEF InHand
  <2>3. pc'[Tx] = "write" => to'[Tx] = own
    BY <1>1, <2>1 DEF InTurn, InHand, Held
  <2> QED
    BY <1>1, <2>2, <2>3, NothingMoves DEF Replies!vars
<1>2. ASSUME NEW d \in Dispatcher, RxBegin(d) \/ RxEnd(d) PROVE Goal
  BY <1>1, <1>2, ThreadFacts DEF RxBegin, RxEnd, sendVars, written, Thread, PC
<1>3. ASSUME NEW t \in App \cup Dispatcher, SendCopy(t) \/ SendDirect(t) PROVE Goal
  BY <1>1, <1>3, ThreadFacts DEF SendCopy, SendDirect, sendVars, written, Thread, PC, Sending
<1>4. ASSUME NEW t \in App \cup Dispatcher, SendQueued(t) PROVE Goal
  <2>1. t \in Thread /\ t # Tx /\ Home(t) \in PC
    BY ThreadFacts DEF Thread, Home, PC
  <2>2. CASE ~HasRoom(tx_queue)
    BY <1>1, <1>4, <2>1, <2>2 DEF SendQueued, sendVars, written
  <2>3. CASE HasRoom(tx_queue)
    <3>1. /\ tx_queue' = Append(tx_queue, packet) /\ pushed' = Append(pushed, packet)
          /\ UNCHANGED <<tried, own, to>> /\ pc'[Tx] = pc[Tx]
      BY <1>0, <1>4, <2>1, <2>3 DEF SendQueued, Go, sendVars, written
    <3>2. /\ Len(pushed') = Len(pushed) + 1
          /\ SubSeq(pushed', 1, Len(pushed)) = pushed
      BY <1>0, <3>1
    <3>3. Replies!Send
      BY <3>1, <3>2 DEF Replies!Send
    <3>4. CASE InHand
      <4>1. Len(pushed) = Len(tried) + 1 + Len(tx_queue)
        BY <3>4 DEF InTurn, Held, EndsWith
      <4>2. pushed'[Len(tried) + 1] = pushed[Len(tried) + 1]
        BY <1>0, <3>1, <4>1
      <4>3. EndsWith(pushed', Len(tried) + 1, tx_queue')
        BY <1>0, <3>1, <3>4, BothGrow DEF InTurn, Held
      <4>4. Held'
        BY <3>1, <3>4, <4>2, <4>3 DEF InTurn, Held
      <4> QED
        BY <3>1, <3>3, <3>4, <4>4 DEF InTurn, InHand
    <3>5. CASE ~InHand
      <4>1. EndsWith(pushed', Len(tried'), tx_queue')
        BY <1>0, <3>1, <3>5, BothGrow DEF InTurn
      <4> QED
        BY <3>1, <3>3, <3>5, <4>1 DEF InTurn, InHand
    <3> QED
      BY <3>4, <3>5
  <2> QED
    BY <2>2, <2>3
<1>5. CASE TxPop
  <2>1. /\ tx_queue # <<>> /\ tx_queue' = Tail(tx_queue) /\ own' = Head(tx_queue)
        /\ UNCHANGED <<pushed, tried>> /\ pc[Tx] = "idle" /\ pc'[Tx] = "checksum"
    BY <1>0, <1>5 DEF TxPop, Go, written
  <2>2. /\ pushed[Len(tried) + 1] = Head(tx_queue)
        /\ EndsWith(pushed, Len(tried) + 1, Tail(tx_queue))
    BY <1>0, <2>1, FirstIsTaken DEF InTurn, InHand
  <2>3. InTurn'
    BY <2>1, <2>2 DEF InTurn, Held, InHand
  <2> QED
    BY <2>1, <2>3 DEF Replies!vars
<1>6. ASSUME NEW t \in Thread, Transmit(t), t # Tx PROVE Goal
  <2>1. Home(t) \in PC
    BY DEF Home, PC
  <2>2. \E where \in PC : Go(t, where)
    BY <1>6, <2>1 DEF Transmit, Checksum, Body, Write, Refused, Answer, PC, Sending
  <2>3. UNCHANGED <<pushed, tried, tx_queue, own>> /\ to'[Tx] = to[Tx]
    BY <1>0, <1>6 DEF Transmit, Checksum, Body, Write, Refused, HandedOver, Answer,
       sendVars, written
  <2> QED
    BY <1>1, <1>6, <2>2, <2>3
<1>7. CASE Checksum(Tx)
  <2>1. /\ UNCHANGED <<pushed, tried, tx_queue, own>>
        /\ pc[Tx] = "checksum" /\ pc'[Tx] = "body"
    BY <1>0, <1>7 DEF Checksum, Go, written
  <2> QED
    BY <2>1, NothingMoves DEF InHand, Replies!vars
<1>8. CASE Body(Tx)
  <2>1. /\ UNCHANGED <<pushed, tried, tx_queue, own>> /\ to'[Tx] = own
        /\ pc[Tx] = "body" /\ pc'[Tx] = "write"
    BY <1>0, <1>8 DEF Body, Go, Current, written
  <2> QED
    BY <2>1, NothingMoves DEF InHand, Replies!vars
<1>9. CASE Write(Tx) \/ Refused(Tx)
  <2>1. /\ UNCHANGED <<pushed, tx_queue>> /\ tried' = Append(tried, to[Tx])
        /\ pc[Tx] = "write" /\ pc'[Tx] \in {"answer", "idle"}
    BY <1>0, <1>9, ThreadFacts DEF Write, Refused, HandedOver, Home, Go, sendVars
  <2>2. /\ to[Tx] = pushed[Len(tried) + 1]
        /\ EndsWith(pushed, Len(tried) + 1, tx_queue)
    BY <2>1 DEF InTurn, InHand, Held
  <2>3. Len(tried') = Len(tried) + 1
    BY <1>0, <2>1
  <2>4. InTurn'
    BY <2>1, <2>2, <2>3 DEF InTurn, InHand
  <2>5. Len(tried) < Len(pushed)
    <3>1. Len(pushed) = Len(tried) + 1 + Len(tx_queue) /\ Len(tx_queue) \in Nat
      BY <1>0, <2>2 DEF EndsWith
    <3> QED
      BY <1>0, <3>1
  <2>6. Replies!Deliver
    BY <2>1, <2>2, <2>5 DEF Replies!Deliver
  <2> QED
    BY <2>4, <2>6
<1>10. CASE Answer(Tx)
  <2>1. /\ UNCHANGED <<pushed, tried, tx_queue, own>>
        /\ pc[Tx] = "answer" /\ pc'[Tx] = "idle"
    BY <1>0, <1>10, ThreadFacts DEF Answer, Go, Home, sendVars, written
  <2> QED
    BY <2>1, NothingMoves DEF InHand, Replies!vars
<1>11. CASE UNCHANGED vars
  <2>1. UNCHANGED <<pc, pushed, tried, tx_queue, own, to>>
    BY <1>11 DEF vars, sendVars, written
  <2>2. InTurn'
    BY <2>1 DEF InTurn, InHand, Held
  <2> QED
    BY <2>1, <2>2 DEF Replies!vars
<1> QED
  BY <1>2, <1>3, <1>4, <1>5, <1>6, <1>7, <1>8, <1>9, <1>10, <1>11 DEF Next, Transmit

(***************************************************************************)
(* Every packet the queue accepted is handed to the driver with its own    *)
(* receiver, once and in the order of the queue, be it written or refused: *)
(* each step of Rep is one of InOrderLink, or leaves the link as it is.    *)
(* (IntactFrames says when what is handed over is also written.)           *)
(***************************************************************************)
THEOREM InOrder == Spec => RepliesInOrder
<1>1. Init => InTurn /\ Replies!Init
  <2> SUFFICES ASSUME Init PROVE InTurn /\ Replies!Init
    OBVIOUS
  <2>1. /\ pc[Tx] = "idle" /\ tried = <<>> /\ pushed = <<>> /\ tx_queue = <<>>
    BY ThreadFacts DEF Init
  <2>2. EndsWith(pushed, Len(tried), tx_queue)
    BY <2>1 DEF EndsWith
  <2> QED
    BY <2>1, <2>2 DEF InTurn, InHand, Replies!Init
<1>2. TypeOK /\ InTurn /\ [Next]_vars => InTurn'
  BY InTurnStep
<1>3. TypeOK /\ InTurn /\ [Next]_vars => [Replies!Send \/ Replies!Deliver]_(Replies!vars)
  BY InTurnStep
<1> QED
  BY <1>1, <1>2, <1>3, Types, PTL DEF Spec, RepliesInOrder, Replies!InOrder
=============================================================================
