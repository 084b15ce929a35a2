---------------------------- MODULE FepRxProofs ----------------------------
(***************************************************************************)
(* FepRx for every capacity, chunking and byte stream: types, the bound on *)
(* payloads, the pairing of EnterProcessing and ExitProcessing, and the    *)
(* finality of a full queue; for every script of packets that survive      *)
(* their encoding: it is cut into exactly these packets, in order, and fed *)
(* byte by byte the receiver implements the safety half of InOrderLink.    *)
(***************************************************************************)
(* What concerns the wire of a whole script is proved by induction over    *)
(* its packets (Least), the rest by invariants of a step.                  *)
(***************************************************************************)
EXTENDS FepRx, SequenceTheorems, WellFoundedInduction, TLAPS

\* What holds before anything is known of the packets the modem sends.
RxSound == TypeOK /\ BusyExactlyWhileParsing /\ PayloadFitsPacket

\* What the handlers keep, apart from the environment's own variables.
RxOK ==
  /\ rx_queue_ \in Seq(Byte) /\ Len(rx_queue_) <= Capacity
  /\ rx_data_address_ \in Byte /\ rx_data_length_ \in Byte
  /\ state_ \in RxState
  /\ dispatched \in Seq(Packet)
  /\ driver_state_ \in {"kIdle", "kProcessing"}
  /\ overrun \in {"none", "survived", "fatal"}
  /\ BusyExactlyWhileParsing
  /\ PayloadFitsPacket

\* A queue the handlers may leave behind.
Fitting(q) == q \in Seq(Byte) /\ Len(q) <= Capacity

LEMMA ConsumeFits ==
  ASSUME NEW q, Fitting(q), NEW n \in Nat, n <= Len(q)
  PROVE  Fitting(Consume(q, n)) /\ Len(Consume(q, n)) = Len(q) - n
BY SizeAssumption DEF Fitting, Consume

LEMMA WaitOK ==
  ASSUME RxOK, NEW st \in RxState \ {"kNone"}, NEW q, Fitting(q), Wait(st, q),
         rx_data_address_' \in Byte, rx_data_length_' \in Byte
  PROVE  RxOK'
<1>1. driver_state_' = "kProcessing"
  BY DEF RxOK, BusyExactlyWhileParsing, Wait
<1> QED
  BY <1>1 DEF RxOK, Wait, Fitting, RxState, BusyExactlyWhileParsing, PayloadFitsPacket

LEMMA ExitOK ==
  ASSUME RxOK, NEW p \in Packet, NEW rest, Fitting(rest), DispatchAndExit(p, rest),
         p.type = "kData" => Len(p.data) <= Capacity - 2,
         overrun' \in {"none", "survived", "fatal"}
  PROVE  RxOK'
<1>1. dispatched' \in Seq(Packet)
  BY DEF RxOK, DispatchAndExit
<1>2. PayloadFitsPacket'
  BY DEF RxOK, DispatchAndExit, PayloadFitsPacket
<1> QED
  BY <1>1, <1>2 DEF RxOK, DispatchAndExit, Fitting, RxState, BusyExactlyWhileParsing

\* What is dispatched is a packet.
LEMMA PacketTypes ==
  /\ \A from \in Byte, data \in Seq(Byte) : Data(from, data) \in Packet
  /\ \A ok \in BOOLEAN, value \in Int : Result(ok, value) \in Packet
  /\ \A text \in Seq(Byte) : Line(text) \in Packet
<1>1. ASSUME NEW text \in Seq(Byte) PROVE Line(text) \in Packet
  <2> DEFINE n == IF Len(text) < LineSize THEN Len(text) ELSE LineSize
  <2>1. n \in Nat /\ n <= Len(text)
    BY SizeAssumption
  <2>2. SubSeq(text, 1, n) \in Seq(Byte)
    BY <2>1
  <2> QED
    BY <2>2 DEF Line, Packet
<1> QED
  BY <1>1 DEF Data, Result, Packet

LEMMA QueuedInt == \A q \in Seq(Byte) : \A i \in 1..Len(q) : q[i] \in Int
<1> SUFFICES ASSUME NEW q \in Seq(Byte), NEW i \in 1..Len(q) PROVE q[i] \in Int
  OBVIOUS
<1>1. q[i] \in Byte
  OBVIOUS
<1>2. Byte \subseteq Int
  BY DEF Byte
<1> QED
  BY <1>1, <1>2

LEMMA ModByte == \A x \in Int : x % 256 \in Byte
BY SMT DEF Byte

-----------------------------------------------------------------------------
LEMMA OnDataHeaderOK ==
  ASSUME RxOK, NEW q, Fitting(q), OnDataHeader(q)
  PROVE  RxOK'
<1>1. CASE Len(q) >= 6 /\ ISR_ParseBinaryHeader(q)
  <2>1. Fitting(Consume(q, 6))
    BY <1>1, ConsumeFits DEF Fitting
  <2>2. Number(q, 1) \in Int /\ Number(q, 4) \in Int
    <3>1. \A i \in 1..6 : q[i] \in Int
      BY <1>1, QueuedInt DEF Fitting
    <3> QED
      BY <3>1 DEF Number, Zero
  <2>3. rx_data_address_' \in Byte /\ rx_data_length_' \in Byte
    BY <1>1, <2>2, ModByte DEF ISR_ParseBinaryHeader
  <2> QED
    BY <1>1, <2>1, <2>3, WaitOK DEF ISR_ParseBinaryHeader, RxState
<1>2. CASE Len(q) < 6 /\ Wait("kDataHeader", q) /\ KeepHeader
  BY <1>2, WaitOK DEF KeepHeader, RxState, RxOK
<1> QED
  BY <1>1, <1>2 DEF OnDataHeader

LEMMA OnDataContentOK ==
  ASSUME RxOK, NEW q, Fitting(q), OnDataContent(q)
  PROVE  RxOK'
<1> DEFINE n == rx_data_length_
<1>0. n \in Nat
  BY DEF RxOK, Byte
<1>1. CASE Len(q) >= n + 2 /\ ISR_ParseBinaryData(q)
  <2>1. Fitting(Consume(q, n + 2))
    BY <1>0, <1>1, ConsumeFits DEF Fitting
  <2>2. SubSeq(q, 1, n) \in Seq(Byte) /\ Len(SubSeq(q, 1, n)) = n
    BY <1>0, <1>1 DEF Fitting
  <2>3. n <= Capacity - 2
    BY <1>0, <1>1, SizeAssumption DEF Fitting
  <2>4. Data(rx_data_address_, SubSeq(q, 1, n)) \in Packet
    BY <2>2, PacketTypes DEF RxOK
  <2>5. Data(rx_data_address_, SubSeq(q, 1, n)).data = SubSeq(q, 1, n)
    BY DEF Data
  <2> QED
    BY <1>1, <2>1, <2>2, <2>3, <2>4, <2>5, ExitOK DEF ISR_ParseBinaryData, RxOK
<1>2. CASE Len(q) < n + 2 /\ Wait("kDataContent", q) /\ KeepHeader
  BY <1>2, WaitOK DEF KeepHeader, RxState, RxOK
<1> QED
  BY <1>1, <1>2 DEF OnDataContent

LEMMA OnResultOK ==
  ASSUME RxOK, NEW q, Fitting(q), OnResult(q)
  PROVE  RxOK'
<1>1. CASE EndsResult(q) /\ ISR_ParseResult(q)
  <2> DEFINE p == Result(q[1] = Letter.P, q[2] - Zero)
  <2>1. Fitting(Consume(q, 4))
    BY <1>1, ConsumeFits DEF Fitting, EndsResult
  <2>2. q[2] - Zero \in Int
    <3>1. q[2] \in Int
      BY <1>1, QueuedInt DEF EndsResult, Fitting
    <3> QED
      BY <3>1 DEF Zero
  <2>3. (q[1] = Letter.P) \in BOOLEAN
    OBVIOUS
  <2>4. p \in Packet
    BY <2>2, <2>3, PacketTypes
  <2>5. p.type # "kData"
    BY DEF Result
  <2> QED
    BY <1>1, <2>1, <2>4, <2>5, ExitOK DEF ISR_ParseResult, RxOK
<1>2. CASE ~EndsResult(q) /\ Wait("kResult", q) /\ KeepHeader
  BY <1>2, WaitOK DEF KeepHeader, RxState, RxOK
<1> QED
  BY <1>1, <1>2 DEF OnResult

LEMMA OnRawLineOK ==
  ASSUME RxOK, NEW chunk, NEW q, Fitting(q), OnRawLine(chunk, q)
  PROVE  RxOK'
<1>1. CASE /\ DispatchAndExit(Line(q), <<>>)
           /\ overrun' = IF Len(q) < Capacity THEN overrun ELSE "survived"
  <2>1. Fitting(<<>>)
    BY SizeAssumption DEF Fitting
  <2>2. Line(q) \in Packet /\ Line(q).type # "kData"
    BY PacketTypes DEF Fitting, Line
  <2>3. overrun' \in {"none", "survived", "fatal"}
    BY <1>1 DEF RxOK
  <2> QED
    BY <1>1, <2>1, <2>2, <2>3, ExitOK
<1>3. CASE /\ overrun' = "fatal"
           /\ UNCHANGED <<rx_queue_, rx_data_address_, rx_data_length_, state_,
                          dispatched, driver_state_>>
  BY <1>3 DEF RxOK, BusyExactlyWhileParsing, PayloadFitsPacket
<1>2. CASE Wait("kRawLine", q) /\ KeepHeader
  BY <1>2, WaitOK DEF KeepHeader, RxState, RxOK
<1> QED
  BY <1>1, <1>2, <1>3 DEF OnRawLine, ISR_ParseRawLine

LEMMA OnDetectingOK ==
  ASSUME RxOK, NEW q, Fitting(q), OnDetecting(q)
  PROVE  RxOK'
<1>1. CASE StartsData(q) /\ OnDataHeader(Consume(q, 3))
  <2>1. Fitting(Consume(q, 3))
    BY <1>1, ConsumeFits DEF Fitting, StartsData
  <2> QED
    BY <1>1, <2>1, OnDataHeaderOK
<1>2. CASE StartsResult(q) /\ OnResult(q)
  BY <1>2, OnResultOK
<1>3. CASE Wait(IF Len(q) >= 3 THEN "kRawLine" ELSE "kDetecting", q) /\ KeepHeader
  BY <1>3, WaitOK DEF KeepHeader, RxState, RxOK
<1> QED
  BY <1>1, <1>2, <1>3 DEF OnDetecting

-----------------------------------------------------------------------------
LEMMA ChunkType ==
  ASSUME TypeOK, NEW n \in 1..feed.chunk, pos + n <= Len(Wire(script))
  PROVE  /\ SubSeq(Wire(script), pos + 1, pos + n) \in Seq(Byte)
         /\ Len(SubSeq(Wire(script), pos + 1, pos + n)) = n
<1>1. Wire(script) \in Seq(Byte)
  BY FeedAssumption DEF TypeOK, script
<1>2. feed.chunk \in Nat
  BY FeedAssumption DEF TypeOK
<1> QED
  BY <1>1, <1>2 DEF TypeOK

LEMMA HandlerOK ==
  ASSUME RxOK, dropped \in BOOLEAN, NEW chunk \in Seq(Byte), ISR_OnUARTData(chunk)
  PROVE  RxOK' /\ dropped' \in BOOLEAN
<1> DEFINE q == rx_queue_ \o chunk
<1>1. CASE ~Fits(q) /\ Overflow
  BY <1>1 DEF Overflow, rxVars, RxOK, BusyExactlyWhileParsing, PayloadFitsPacket
<1>2. CASE Fits(q) /\ UNCHANGED dropped
  <2>1. Fitting(q)
    BY <1>2 DEF RxOK, Fits, Fitting
  <2> QED
    BY <1>2, <2>1, OnDetectingOK, OnDataHeaderOK, OnDataContentOK, OnResultOK,
       OnRawLineOK DEF ISR_OnUARTData
<1> QED
  BY <1>1, <1>2 DEF ISR_OnUARTData

LEMMA InvStep == RxSound /\ [Next]_vars => RxSound'
<1> SUFFICES ASSUME RxSound, [Next]_vars PROVE RxSound'
  OBVIOUS
<1>0. RxOK
  BY DEF RxSound, TypeOK, RxOK
<1>1. ASSUME NEW n \in 1..feed.chunk, Receive(n) PROVE RxSound'
  <2>1. RxOK' /\ dropped' \in BOOLEAN
    BY <1>0, <1>1, ChunkType, HandlerOK DEF Receive, RxSound, TypeOK
  <2>2. pos' \in Nat /\ lost' \in Nat /\ feed' \in Feeds
    <3>1. feed.chunk \in Nat
      BY FeedAssumption DEF RxSound, TypeOK
    <3> QED
      BY <1>1, <3>1 DEF Receive, RxSound, TypeOK
  <2> QED
    BY <2>1, <2>2 DEF RxSound, TypeOK, RxOK
<1>2. ASSUME LoseByte PROVE RxSound'
  <2>1. pos' \in Nat /\ lost' \in Nat /\ feed' \in Feeds
    BY <1>2 DEF LoseByte, RxSound, TypeOK
  <2>2. dropped' \in BOOLEAN
    BY <1>2 DEF LoseByte
  <2> QED
    BY <1>2, <2>1, <2>2
    DEF LoseByte, rxVars, RxSound, TypeOK, BusyExactlyWhileParsing, PayloadFitsPacket
<1>3. CASE UNCHANGED vars
  BY <1>3 DEF vars, rxVars, RxSound, TypeOK, BusyExactlyWhileParsing, PayloadFitsPacket
<1> QED
  BY <1>1, <1>2, <1>3 DEF Next

LEMMA Sound == Spec => []RxSound
<1>1. Init => RxSound
  <2> SUFFICES ASSUME Init PROVE RxSound
    OBVIOUS
  <2>1. /\ rx_queue_ \in Seq(Byte) /\ Len(rx_queue_) = 0
        /\ dispatched \in Seq(Packet) /\ DOMAIN dispatched = {}
    BY DEF Init
  <2>2. dropped \in BOOLEAN /\ driver_state_ \in {"kIdle", "kProcessing"}
    BY DEF Init
  <2>3. 0 <= Capacity /\ 0 \in Byte
    BY SizeAssumption DEF Byte
  <2> QED
    BY <2>1, <2>2, <2>3
    DEF Init, RxSound, TypeOK, RxState, BusyExactlyWhileParsing, PayloadFitsPacket
<1> QED
  BY <1>1, InvStep, PTL DEF Spec

-----------------------------------------------------------------------------
(***************************************************************************)
(* A full queue accepts no chunk, so no handler runs; a header that        *)
(* announces more than the queue can hold is never satisfied.              *)
(***************************************************************************)
LEMMA FinalStep ==
  ASSUME RxSound, [Next]_vars
  PROVE  /\ Len(rx_queue_) = Capacity => UNCHANGED rxVars
         /\ state_ = "kDataContent" /\ NeedToDispatch > Capacity
              => UNCHANGED <<state_, dispatched>>
<1>1. CASE UNCHANGED vars
  BY <1>1 DEF vars, rxVars
<1>2. ASSUME NEW n \in 1..feed.chunk, Receive(n)
      PROVE  /\ Len(rx_queue_) = Capacity => UNCHANGED rxVars
             /\ state_ = "kDataContent" /\ NeedToDispatch > Capacity
                  => UNCHANGED <<state_, dispatched>>
  <2> DEFINE chunk == SubSeq(Wire(script), pos + 1, pos + n)
             q == rx_queue_ \o chunk
  <2>0. feed.chunk \in Nat
    BY FeedAssumption DEF RxSound, TypeOK
  <2>1. chunk \in Seq(Byte) /\ Len(chunk) = n /\ n >= 1 /\ n \in Nat
    BY <1>2, <2>0, ChunkType DEF RxSound, Receive
  <2>2. q \in Seq(Byte) /\ Len(q) = Len(rx_queue_) + n
    BY <2>1 DEF RxSound, TypeOK
  <2>3. ISR_OnUARTData(chunk)
    BY <1>2 DEF Receive
  <2>4. ~Fits(q) => UNCHANGED rxVars
    BY <2>3 DEF ISR_OnUARTData, Overflow
  <2>5. ASSUME Len(rx_queue_) = Capacity PROVE UNCHANGED rxVars
    BY <2>1, <2>2, <2>4, <2>5, SizeAssumption DEF Fits
  <2>6. ASSUME state_ = "kDataContent", NeedToDispatch > Capacity
        PROVE  UNCHANGED <<state_, dispatched>>
    <3>1. CASE ~Fits(q)
      BY <2>4, <3>1 DEF rxVars
    <3>2. CASE Fits(q)
      <4>1. OnDataContent(q)
        BY <2>3, <2>6, <3>2 DEF ISR_OnUARTData
      <4>0. rx_data_length_ \in Nat
        BY DEF RxSound, TypeOK, Byte
      <4>2. NeedToDispatch = rx_data_length_ + 2 /\ rx_data_length_ \in Nat
        BY <2>6, <4>0 DEF NeedToDispatch
      <4>3. Len(q) < rx_data_length_ + 2
        BY <2>2, <2>6, <3>2, <4>2, SizeAssumption DEF Fits
      <4>4. Wait("kDataContent", q)
        BY <2>2, <4>1, <4>2, <4>3 DEF OnDataContent
      <4> QED
        BY <2>6, <4>4 DEF Wait
    <3> QED
      BY <3>1, <3>2
  <2> QED
    BY <2>5, <2>6
<1>3. ASSUME LoseByte PROVE UNCHANGED rxVars
  BY <1>3 DEF LoseByte
<1> QED
  BY <1>1, <1>2, <1>3 DEF Next, rxVars

\* The receiver has no way out of a full queue.
THEOREM FullIsFinal == Spec => FullQueueIsFinal
<1>1. RxSound /\ [Next]_vars =>
        [/\ Len(rx_queue_) = Capacity => UNCHANGED rxVars
         /\ state_ = "kDataContent" /\ NeedToDispatch > Capacity
              => UNCHANGED <<state_, dispatched>>]_vars
  BY FinalStep
<1> QED
  BY <1>1, Sound, PTL DEF Spec, FullQueueIsFinal

-----------------------------------------------------------------------------
(***************************************************************************)
(* Induction: what fails for some number fails for a least one.            *)
(***************************************************************************)
Less == {pair \in Nat \X Nat : pair[1] < pair[2]}

LEMMA LessWellFounded == IsWellFoundedOn(Less, Nat)
BY NatLessThanWellFounded DEF OpToRel, Less

LEMMA Least ==
  ASSUME NEW T \in SUBSET Nat, T # {}
  PROVE  \E m \in T : \A k \in T : m <= k
<1>1. PICK m \in T : \A k \in T : ~ (<<k, m>> \in Less)
  BY LessWellFounded, WFMin
<1>2. \A k \in T : k \in Nat /\ m \in Nat /\ ~(k < m)
  BY <1>1 DEF Less
<1> QED
  BY <1>2

(***************************************************************************)
(* The wire of a script is the wire of its beginning and one packet more.  *)
(* FlattenSeq is a recursive function: first that there is one, then that  *)
(* two of them agree as far as both are defined.                           *)
(***************************************************************************)
Flattens(f, ss) ==
  f = [i \in 1..Len(ss) |-> IF i = 1 THEN ss[i] ELSE f[i - 1] \o ss[i]]

LEMMA FlattensExists ==
  ASSUME NEW S, NEW ss \in Seq(S)
  PROVE  \E f : Flattens(f, ss)
<1> DEFINE Upto(f, n) == f = [i \in 1..n |-> IF i = 1 THEN ss[i] ELSE f[i - 1] \o ss[i]]
           T == {n \in Nat : ~ \E f : Upto(f, n)}
<1>1. Upto([i \in 1..0 |-> ss], 0)
  OBVIOUS
<1>2. ASSUME NEW n \in Nat, NEW f, Upto(f, n) PROVE \E g : Upto(g, n + 1)
  <2> DEFINE g == [i \in 1..n + 1 |-> IF i <= n THEN f[i]
                                      ELSE IF i = 1 THEN ss[i] ELSE f[i - 1] \o ss[i]]
  <2>1. \A i \in 1..n + 1 : g[i] = IF i = 1 THEN ss[i] ELSE g[i - 1] \o ss[i]
    <3> SUFFICES ASSUME NEW i \in 1..n + 1
                 PROVE g[i] = IF i = 1 THEN ss[i] ELSE g[i - 1] \o ss[i]
      OBVIOUS
    <3>1. CASE i = 1
      BY <1>2, <3>1
    <3>2. CASE i # 1
      <4>1. i - 1 \in 1..n /\ i - 1 \in 1..n + 1
        BY <3>2
      <4>2. g[i - 1] = f[i - 1]
        BY <4>1
      <4>3. CASE i <= n
        <5>0. i \in 1..n
          BY <4>3
        <5>1. f[i] = IF i = 1 THEN ss[i] ELSE f[i - 1] \o ss[i]
          BY <1>2, <5>0
        <5>2. g[i] = f[i]
          BY <4>3
        <5>3. f[i] = f[i - 1] \o ss[i]
          BY <3>2, <5>1
        <5> QED
          BY <3>2, <4>2, <5>2, <5>3
      <4>4. CASE ~(i <= n)
        BY <3>2, <4>2, <4>4
      <4> QED
        BY <4>3, <4>4
    <3> QED
      BY <3>1, <3>2
  <2>2. Upto(g, n + 1)
    BY <2>1
  <2> QED
    BY <2>2
<1> HIDE DEF Upto
<1>3. T = {}
  <2> SUFFICES ASSUME T # {} PROVE FALSE
    OBVIOUS
  <2>1. PICK m \in T : \A k \in T : m <= k
    BY Least
  <2>2. m # 0 /\ m \in Nat
    BY <1>1
  <2>3. m - 1 \in Nat /\ m - 1 \notin T
    <3>1. m - 1 \in Nat /\ ~(m <= m - 1)
      BY <2>2
    <3> QED
      BY <2>1, <3>1
  <2>4. PICK f : Upto(f, m - 1)
    BY <2>3
  <2>5. \E g : Upto(g, (m - 1) + 1)
    BY <1>2, <2>3, <2>4
  <2>6. (m - 1) + 1 = m
    OBVIOUS
  <2> QED
    BY <2>1, <2>5, <2>6
<1>4. \A n \in Nat : \E f : Upto(f, n)
  BY <1>3
<1>5. PICK f : Upto(f, Len(ss))
  BY <1>4
<1>6. Flattens(f, ss)
  BY <1>5 DEF Flattens, Upto
<1> QED
  BY <1>6

\* tt is a beginning of ss.
Begins(tt, ss) ==
  /\ Len(tt) \in Nat /\ Len(ss) \in Nat /\ Len(tt) <= Len(ss)
  /\ \A i \in 1..Len(tt) : ss[i] = tt[i]

LEMMA FlattensAgree ==
  ASSUME NEW ss, NEW tt, Begins(tt, ss), NEW f, Flattens(f, ss), NEW g, Flattens(g, tt)
  PROVE  \A i \in 1..Len(tt) : f[i] = g[i]
<1> DEFINE T == {i \in Nat : i \in 1..Len(tt) /\ f[i] # g[i]}
<1>1. T = {}
  <2> SUFFICES ASSUME T # {} PROVE FALSE
    OBVIOUS
  <2>1. PICK m \in T : \A k \in T : m <= k
    BY Least
  <2>0. m \in Nat /\ m \in 1..Len(tt) /\ m \in 1..Len(ss) /\ f[m] # g[m] /\ ss[m] = tt[m]
    BY DEF Begins
  <2>2. f[m] = IF m = 1 THEN ss[m] ELSE f[m - 1] \o ss[m]
    BY <2>0 DEF Flattens
  <2>3. g[m] = IF m = 1 THEN tt[m] ELSE g[m - 1] \o tt[m]
    BY <2>0 DEF Flattens
  <2>4. m # 1
    BY <2>0, <2>2, <2>3
  <2>5. m - 1 \in Nat /\ m - 1 \in 1..Len(tt) /\ ~(m <= m - 1)
    BY <2>0, <2>4 DEF Begins
  <2>6. f[m - 1] = g[m - 1]
    BY <2>1, <2>5
  <2> QED
    BY <2>0, <2>2, <2>3, <2>4, <2>6
<1> QED
  BY <1>1

LEMMA FlattenIsLast ==
  ASSUME NEW S, NEW ss \in Seq(S), Len(ss) # 0
  PROVE  \E f : Flattens(f, ss) /\ FlattenSeq(ss) = f[Len(ss)]
<1> DEFINE flatten[i \in 1..Len(ss)] ==
             IF i = 1 THEN ss[i] ELSE flatten[i - 1] \o ss[i]
<1>1. Flattens(flatten, ss)
  BY FlattensExists DEF Flattens
<1>2. FlattenSeq(ss) = flatten[Len(ss)]
  BY DEF FlattenSeq
<1> QED
  BY <1>1, <1>2

LEMMA FlattenGrows ==
  ASSUME NEW S, NEW ss \in Seq(Seq(S)), NEW e \in Seq(S)
  PROVE  FlattenSeq(Append(ss, e)) = FlattenSeq(ss) \o e
<1> DEFINE tt == Append(ss, e)
<1>1. tt \in Seq(Seq(S)) /\ Len(tt) = Len(ss) + 1 /\ Len(ss) \in Nat
  BY AppendProperties
<1>2. tt[Len(ss) + 1] = e /\ \A i \in 1..Len(ss) : tt[i] = ss[i]
  BY AppendProperties
<1> HIDE DEF tt
<1>3. PICK f : Flattens(f, tt) /\ FlattenSeq(tt) = f[Len(tt)]
  BY <1>1, FlattenIsLast
<1>4. CASE Len(ss) = 0
  <2>1. f[1] = tt[1]
    BY <1>1, <1>3, <1>4 DEF Flattens
  <2>2. FlattenSeq(ss) = <<>>
    BY <1>4 DEF FlattenSeq
  <2> QED
    BY <1>1, <1>2, <1>3, <1>4, <2>1, <2>2, ConcatEmptySeq DEF tt
<1>5. CASE Len(ss) # 0
  <2>1. PICK g : Flattens(g, ss) /\ FlattenSeq(ss) = g[Len(ss)]
    BY <1>5, FlattenIsLast
  <2>2. f[Len(ss)] = g[Len(ss)]
    <3>1. Len(ss) <= Len(tt) /\ Len(ss) \in 1..Len(ss)
      BY <1>1, <1>5
    <3>0. Begins(ss, tt) /\ Flattens(f, tt) /\ Flattens(g, ss)
      BY <1>1, <1>2, <1>3, <2>1, <3>1 DEF Begins
    <3>2. \A i \in 1..Len(ss) : f[i] = g[i]
      BY ONLY <3>0, FlattensAgree
    <3> QED
      BY <3>1, <3>2
  <2>3. f[Len(tt)] = f[Len(tt) - 1] \o tt[Len(tt)]
    <3>1. Len(tt) \in 1..Len(tt) /\ Len(tt) # 1
      BY <1>1, <1>5
    <3> QED
      BY <1>3, <3>1 DEF Flattens
  <2>4. Len(tt) - 1 = Len(ss) /\ tt[Len(tt)] = e
    BY <1>1, <1>2
  <2>5. FlattenSeq(tt) = FlattenSeq(ss) \o e
    BY <1>3, <2>1, <2>2, <2>3, <2>4
  <2> QED
    BY <2>5 DEF tt
<1> QED
  BY <1>4, <1>5

EndOf(s, k) == Len(Wire(SubSeq(s, 1, k)))
Encodes(s) == s \in Seq(Packet) /\ \A i \in DOMAIN s : Encode(s[i]) \in Seq(Byte)

LEMMA WireGrows ==
  ASSUME NEW s, Encodes(s), NEW k \in 0..Len(s) - 1
  PROVE  Wire(SubSeq(s, 1, k + 1)) = Wire(SubSeq(s, 1, k)) \o Encode(s[k + 1])
<1> DEFINE t == SubSeq(s, 1, k)
           u == SubSeq(s, 1, k + 1)
           enct == [i \in DOMAIN t |-> Encode(t[i])]
           encu == [i \in DOMAIN u |-> Encode(u[i])]
<1>0. s \in Seq(Packet) /\ Len(s) \in Nat /\ k \in Nat /\ k + 1 <= Len(s) /\ k + 1 \in Nat
  BY DEF Encodes
<1>1. DOMAIN t = 1..k /\ DOMAIN u = 1..k + 1
  BY <1>0
<1>2. \A i \in 1..k : t[i] = s[i]
  BY <1>0
<1>3. \A i \in 1..k + 1 : u[i] = s[i]
  BY <1>0
<1> HIDE DEF t, u
<1>4. \A i \in 1..k + 1 : Encode(s[i]) \in Seq(Byte)
  BY <1>0 DEF Encodes
<1>5. enct \in Seq(Seq(Byte)) /\ Len(enct) = k
  <2>1. \A i \in 1..k : Encode(t[i]) \in Seq(Byte)
    BY <1>0, <1>2, <1>4
  <2>2. enct = [i \in 1..k |-> Encode(t[i])]
    BY <1>1
  <2> QED
    BY <1>0, <2>1, <2>2
<1>6. encu \in Seq(Seq(Byte)) /\ Len(encu) = k + 1
  <2>1. \A i \in 1..k + 1 : Encode(u[i]) \in Seq(Byte)
    BY <1>3, <1>4
  <2>2. encu = [i \in 1..k + 1 |-> Encode(u[i])]
    BY <1>1
  <2> QED
    BY <1>0, <2>1, <2>2
<1>7. Encode(s[k + 1]) \in Seq(Byte)
  BY <1>0, <1>4
<1>8. encu = Append(enct, Encode(s[k + 1]))
  <2> DEFINE a == Append(enct, Encode(s[k + 1]))
  <2>1. /\ a \in Seq(Seq(Byte)) /\ Len(a) = k + 1
        /\ \A i \in 1..k : a[i] = enct[i]
        /\ a[k + 1] = Encode(s[k + 1])
    BY <1>5, <1>7, AppendProperties
  <2>2. \A i \in 1..k : enct[i] = Encode(s[i])
    BY <1>1, <1>2
  <2>3. \A i \in 1..k + 1 : encu[i] = Encode(s[i])
    BY <1>1, <1>3
  <2>4. \A i \in 1..k + 1 : i \in 1..k \/ i = k + 1
    BY <1>0
  <2> HIDE DEF a, encu, enct
  <2>5. \A i \in 1..Len(encu) : encu[i] = a[i]
    BY <1>6, <2>1, <2>2, <2>3, <2>4
  <2>6. encu = a
    BY <1>6, <2>1, <2>5, SeqEqual
  <2> QED
    BY <2>6 DEF a
<1>9. FlattenSeq(encu) = FlattenSeq(enct) \o Encode(s[k + 1])
  BY <1>5, <1>7, <1>8, FlattenGrows
<1> QED
  BY <1>9 DEF Wire, t, u

LEMMA WireEmpty == ASSUME NEW s PROVE Wire(SubSeq(s, 1, 0)) = <<>>
<1>1. SubSeq(s, 1, 0) = <<>>
  OBVIOUS
<1>2. Len([i \in DOMAIN <<>> |-> Encode(<<>>[i])]) = 0
  OBVIOUS
<1>3. [i \in DOMAIN <<>> |-> Encode(<<>>[i])] = <<>>
  OBVIOUS
<1> QED
  BY <1>1, <1>2, <1>3 DEF Wire, FlattenSeq

LEMMA WireType ==
  ASSUME NEW s, Encodes(s)
  PROVE  \A k \in 0..Len(s) : Wire(SubSeq(s, 1, k)) \in Seq(Byte)
<1> DEFINE T == {k \in Nat : k <= Len(s) /\ Wire(SubSeq(s, 1, k)) \notin Seq(Byte)}
<1>0. Len(s) \in Nat /\ DOMAIN s = 1..Len(s)
  BY DEF Encodes
<1>1. T = {}
  <2> SUFFICES ASSUME T # {} PROVE FALSE
    OBVIOUS
  <2>1. PICK m \in T : \A k \in T : m <= k
    BY Least
  <2>2. m \in Nat /\ m <= Len(s) /\ Wire(SubSeq(s, 1, m)) \notin Seq(Byte)
    OBVIOUS
  <2>3. m # 0
    <3>1. Wire(SubSeq(s, 1, 0)) \in Seq(Byte)
      BY WireEmpty, EmptySeq
    <3> QED
      BY <2>2, <3>1
  <2>4. m - 1 \in 0..Len(s) - 1 /\ (m - 1) + 1 = m /\ ~(m <= m - 1) /\ m \in 1..Len(s)
    BY <1>0, <2>2, <2>3
  <2>5. Wire(SubSeq(s, 1, m - 1)) \in Seq(Byte)
    BY <1>0, <2>1, <2>4
  <2>6. Encode(s[m]) \in Seq(Byte)
    BY <1>0, <2>4 DEF Encodes
  <2>7. Wire(SubSeq(s, 1, m)) = Wire(SubSeq(s, 1, m - 1)) \o Encode(s[m])
    BY <2>4, WireGrows
  <2>8. Wire(SubSeq(s, 1, m)) \in Seq(Byte)
    BY <2>5, <2>6, <2>7, ConcatProperties
  <2> QED
    BY <2>2, <2>8
<1> QED
  BY <1>0, <1>1

\* What has been sent stays where it is.
LEMMA WireAgrees ==
  ASSUME NEW s, Encodes(s), NEW k \in 0..Len(s)
  PROVE  \A j \in k..Len(s) :
           /\ EndOf(s, k) <= EndOf(s, j)
           /\ \A i \in 1..EndOf(s, k) : Wire(SubSeq(s, 1, j))[i] = Wire(SubSeq(s, 1, k))[i]
<1> DEFINE Fine(j) ==
             /\ EndOf(s, k) <= EndOf(s, j)
             /\ \A i \in 1..EndOf(s, k) : Wire(SubSeq(s, 1, j))[i] = Wire(SubSeq(s, 1, k))[i]
           T == {j \in Nat : j \in k..Len(s) /\ ~Fine(j)}
<1>0. Len(s) \in Nat /\ DOMAIN s = 1..Len(s) /\ k \in Nat
  BY DEF Encodes
<1>1. \A j \in 0..Len(s) : Wire(SubSeq(s, 1, j)) \in Seq(Byte) /\ EndOf(s, j) \in Nat
  BY WireType DEF EndOf
<1>2. Fine(k)
  BY <1>1
<1>3. ASSUME NEW j \in k..Len(s) - 1, Fine(j) PROVE Fine(j + 1)
  <2>1. j \in 0..Len(s) - 1 /\ j \in 0..Len(s) /\ j + 1 \in 1..Len(s) /\ j + 1 \in 0..Len(s)
    BY <1>0
  <2> DEFINE w == Wire(SubSeq(s, 1, j))
             e == Encode(s[j + 1])
  <2>2. Wire(SubSeq(s, 1, j + 1)) = w \o e
    BY <2>1, WireGrows
  <2>3. w \in Seq(Byte) /\ e \in Seq(Byte)
    BY <1>0, <1>1, <2>1 DEF Encodes
  <2>4. Len(w) = EndOf(s, j)
    BY DEF EndOf
  <2>5. EndOf(s, j + 1) = Len(w) + Len(e)
    BY <2>2, <2>3 DEF EndOf
  <2> HIDE DEF w, e
  <2>6. \A i \in 1..EndOf(s, k) : i \in 1..Len(w)
    BY <1>1, <1>3, <2>1, <2>4
  <2>7. \A i \in 1..Len(w) : (w \o e)[i] = w[i]
    BY <2>3
  <2>8. EndOf(s, k) <= EndOf(s, j + 1)
    <3>1. EndOf(s, k) \in Nat /\ Len(w) \in Nat /\ Len(e) \in Nat
      BY <1>1, <2>3
    <3> QED
      BY <1>3, <2>4, <2>5, <3>1
  <2>9. \A i \in 1..EndOf(s, k) : Wire(SubSeq(s, 1, j + 1))[i] = w[i]
    BY <2>2, <2>6, <2>7
  <2> QED
    BY <1>3, <2>8, <2>9 DEF w
<1> HIDE DEF Fine
<1>4. T = {}
  <2> SUFFICES ASSUME T # {} PROVE FALSE
    OBVIOUS
  <2>1. PICK m \in T : \A j \in T : m <= j
    BY Least
  <2>2. m \in Nat /\ m \in k..Len(s) /\ ~Fine(m)
    OBVIOUS
  <2>3. m # k
    BY <1>2, <2>2
  <2>4. m - 1 \in k..Len(s) - 1 /\ (m - 1) + 1 = m /\ ~(m <= m - 1)
        /\ m - 1 \in Nat /\ m - 1 \in k..Len(s)
    BY <1>0, <2>2, <2>3
  <2>5. Fine(m - 1)
    BY <2>1, <2>4
  <2> QED
    BY <1>3, <2>2, <2>4, <2>5
<1>5. \A j \in k..Len(s) : Fine(j)
  BY <1>0, <1>4
<1> QED
  BY <1>5 DEF Fine

(***************************************************************************)
(* Where a packet of the script lies on the wire.                          *)
(***************************************************************************)
LEMMA OnTheWire ==
  ASSUME NEW s, Encodes(s), NEW k \in 0..Len(s) - 1
  PROVE  /\ EndOf(s, k) \in Nat
         /\ EndOf(s, k + 1) = EndOf(s, k) + Len(Encode(s[k + 1]))
         /\ EndOf(s, k + 1) <= Len(Wire(s))
         /\ \A j \in 1..Len(Encode(s[k + 1])) :
              Wire(s)[EndOf(s, k) + j] = Encode(s[k + 1])[j]
<1> DEFINE w == Wire(SubSeq(s, 1, k))
           e == Encode(s[k + 1])
<1>0. Len(s) \in Nat /\ DOMAIN s = 1..Len(s) /\ k \in Nat /\ s \in Seq(Packet)
  BY DEF Encodes
<1>1. k \in 0..Len(s) /\ k + 1 \in 0..Len(s) /\ k + 1 \in 1..Len(s) /\ Len(s) \in k + 1..Len(s)
  BY <1>0
<1>2. w \in Seq(Byte) /\ e \in Seq(Byte)
  BY <1>0, <1>1, WireType DEF Encodes
<1>3. Wire(SubSeq(s, 1, k + 1)) = w \o e
  BY WireGrows
<1>4. SubSeq(s, 1, Len(s)) = s
  BY <1>0, SubSeqFull
<1>5. /\ EndOf(s, k + 1) <= EndOf(s, Len(s))
      /\ \A i \in 1..EndOf(s, k + 1) :
           Wire(SubSeq(s, 1, Len(s)))[i] = Wire(SubSeq(s, 1, k + 1))[i]
  BY <1>1, WireAgrees
<1>6. EndOf(s, k) = Len(w)
  BY DEF EndOf
<1> HIDE DEF w, e
<1>7. EndOf(s, k + 1) = Len(w) + Len(e)
  BY <1>2, <1>3 DEF EndOf
<1>8. EndOf(s, Len(s)) = Len(Wire(s))
  BY <1>4 DEF EndOf
<1>9. ASSUME NEW j \in 1..Len(e) PROVE Wire(s)[Len(w) + j] = e[j]
  <2>1. Len(w) + j \in 1..Len(w) + Len(e)
    BY <1>2
  <2>2. Wire(s)[Len(w) + j] = (w \o e)[Len(w) + j]
    BY <1>3, <1>4, <1>5, <1>7, <2>1
  <2>3. (w \o e)[Len(w) + j] = e[j]
    BY <1>2
  <2> QED
    BY <2>2, <2>3
<1> QED
  BY <1>2, <1>5, <1>6, <1>7, <1>8, <1>9 DEF e

-----------------------------------------------------------------------------
(***************************************************************************)
(* What Encode makes of the three kinds of packet.                         *)
(***************************************************************************)
LEMMA DigitsOfByte ==
  ASSUME NEW n \in Byte
  PROVE  /\ Digits(n) \in Seq(Byte) /\ Len(Digits(n)) = 3
         /\ Number(Digits(n), 1) = n
<1> DEFINE a == n \div 100
           b == (n \div 10) % 10
           c == n % 10
<1>1. n \in Int /\ 0 <= n /\ n <= 255
  BY DEF Byte
<1>2. a \in 0..9
  BY <1>1
<1>3. b \in 0..9 /\ c \in 0..9
  BY <1>1
<1>4. a * 100 + b * 10 + c = n
  BY <1>1
<1>5. Digits(n) = <<Zero + a, Zero + b, Zero + c>>
  BY DEF Digits
<1> HIDE DEF a, b, c
<1>6. Zero + a \in Byte /\ Zero + b \in Byte /\ Zero + c \in Byte
  BY <1>2, <1>3 DEF Zero, Byte
<1>7. Digits(n)[1] = Zero + a /\ Digits(n)[2] = Zero + b /\ Digits(n)[3] = Zero + c
  BY <1>5
<1>8. Number(Digits(n), 1) = n
  BY <1>2, <1>3, <1>4, <1>7 DEF Number, Zero
<1>9. Digits(n) \in Seq(Byte) /\ Len(Digits(n)) = 3
  BY <1>5, <1>6
<1> QED
  BY <1>8, <1>9

LEMMA NumberElsewhere ==
  ASSUME NEW q, NEW d, NEW i \in Nat,
         q[i] = d[1], q[i + 1] = d[2], q[i + 2] = d[3]
  PROVE  Number(q, i) = Number(d, 1)
<1>1. 1 + 1 = 2 /\ 1 + 2 = 3
  OBVIOUS
<1> QED
  BY <1>1 DEF Number

LEMMA Concat ==
  ASSUME NEW s \in Seq(Byte), NEW t \in Seq(Byte)
  PROVE  /\ s \o t \in Seq(Byte) /\ Len(s \o t) = Len(s) + Len(t)
         /\ \A i \in 1..Len(s) : (s \o t)[i] = s[i]
         /\ \A i \in 1..Len(t) : (s \o t)[Len(s) + i] = t[i]
<1>1. /\ s \o t \in Seq(Byte) /\ Len(s \o t) = Len(s) + Len(t)
      /\ Len(s) \in Nat /\ Len(t) \in Nat
  BY ConcatProperties
<1>2. \A i \in 1..Len(s) : (s \o t)[i] = s[i]
  OBVIOUS
<1>3. \A i \in 1..Len(t) : (s \o t)[Len(s) + i] = t[i]
  OBVIOUS
<1> QED
  BY <1>1, <1>2, <1>3

LEMMA Joined ==
  ASSUME NEW s \in Seq(Byte), NEW t \in Seq(Byte), NEW u, u = s \o t
  PROVE  /\ u \in Seq(Byte) /\ Len(u) = Len(s) + Len(t)
         /\ \A i \in 1..Len(s) : u[i] = s[i]
         /\ \A i \in 1..Len(t) : u[Len(s) + i] = t[i]
BY Concat, Zenon

\* e is a header of three threes, a body d and a trailer of two.
Parts(a, b, c, d, z, e) ==
  /\ a \in Seq(Byte) /\ b \in Seq(Byte) /\ c \in Seq(Byte)
  /\ d \in Seq(Byte) /\ z \in Seq(Byte)
  /\ Len(a) = 3 /\ Len(b) = 3 /\ Len(c) = 3 /\ Len(z) = 2
  /\ e = a \o b \o c \o d \o z

Layout(a, b, c, d, e) ==
  /\ e \in Seq(Byte) /\ Len(e) = 11 + Len(d)
  /\ \A i \in 1..3 : e[i] = a[i] /\ e[3 + i] = b[i] /\ e[6 + i] = c[i]
  /\ \A i \in 1..Len(d) : e[9 + i] = d[i]

LEMMA FiveParts ==
  ASSUME NEW a, NEW b, NEW c, NEW d, NEW z, NEW e, Parts(a, b, c, d, z, e)
  PROVE  Layout(a, b, c, d, e)
<1> DEFINE n == Len(d)
<1>l. Len(a) = 3 /\ Len(b) = 3 /\ Len(c) = 3 /\ Len(z) = 2
  BY DEF Parts
<1>a. a \in Seq(Byte) /\ b \in Seq(Byte)
  BY DEF Parts
<1>c. c \in Seq(Byte)
  BY DEF Parts
<1>d. d \in Seq(Byte) /\ n \in Nat
  BY DEF Parts
<1>z. z \in Seq(Byte)
  BY DEF Parts
<1>e. e = a \o b \o c \o d \o z
  BY DEF Parts
<1>1. PICK e2 : e2 = a \o b
  OBVIOUS
<1>2. PICK e3 : e3 = e2 \o c
  OBVIOUS
<1>3. PICK e4 : e4 = e3 \o d
  OBVIOUS
<1>4. e = e4 \o z
  BY <1>e, <1>1, <1>2, <1>3
<1>5. /\ e2 \in Seq(Byte) /\ Len(e2) = Len(a) + Len(b)
      /\ \A i \in 1..Len(a) : e2[i] = a[i]
      /\ \A i \in 1..Len(b) : e2[Len(a) + i] = b[i]
  BY ONLY <1>1, <1>a, Joined
<1>6. /\ Len(e2) = 6 /\ \A i \in 1..3 : e2[i] = a[i] /\ e2[3 + i] = b[i]
  BY <1>l, <1>5
<1>7. /\ e3 \in Seq(Byte) /\ Len(e3) = Len(e2) + Len(c)
      /\ \A i \in 1..Len(e2) : e3[i] = e2[i]
      /\ \A i \in 1..Len(c) : e3[Len(e2) + i] = c[i]
  <2>1. e2 \in Seq(Byte)
    BY <1>5
  <2> QED
    BY ONLY <1>2, <1>c, <2>1, Joined
<1>8. /\ Len(e3) = 9
      /\ \A i \in 1..6 : e3[i] = e2[i]
      /\ \A i \in 1..3 : e3[6 + i] = c[i]
  BY <1>l, <1>6, <1>7
<1>9. /\ e4 \in Seq(Byte) /\ Len(e4) = Len(e3) + Len(d)
      /\ \A i \in 1..Len(e3) : e4[i] = e3[i]
      /\ \A i \in 1..Len(d) : e4[Len(e3) + i] = d[i]
  <2>1. e3 \in Seq(Byte)
    BY <1>7
  <2> QED
    BY ONLY <1>3, <1>d, <2>1, Joined
<1>10. /\ Len(e4) = 9 + n
       /\ \A i \in 1..9 : e4[i] = e3[i]
       /\ \A i \in 1..n : e4[9 + i] = d[i]
  BY <1>8, <1>9
<1>11. /\ e \in Seq(Byte) /\ Len(e) = Len(e4) + Len(z)
       /\ \A i \in 1..Len(e4) : e[i] = e4[i]
  <2>1. e4 \in Seq(Byte)
    BY <1>9
  <2> QED
    BY ONLY <1>4, <1>z, <2>1, Joined
<1>12. Len(e) = 11 + n /\ \A i \in 1..9 + n : e[i] = e4[i]
  <2>1. Len(e) = (9 + n) + 2
    BY <1>l, <1>10, <1>11
  <2>2. (9 + n) + 2 = 11 + n
    BY <1>d
  <2>3. \A i \in 1..9 + n : e[i] = e4[i]
    BY <1>10, <1>11
  <2> QED
    BY <2>1, <2>2, <2>3
<1>13. \A i \in 1..n : e[9 + i] = d[i]
  <2>1. \A i \in 1..n : 9 + i \in 1..9 + n
    BY <1>d
  <2> QED
    BY <1>10, <1>12, <2>1
<1>14. \A i \in 1..9 : e[i] = e3[i]
  <2>1. \A i \in 1..9 : i \in 1..9 + n
    BY <1>d
  <2> QED
    BY <1>10, <1>12, <2>1
<1>15. \A i \in 1..3 : i \in 1..6 /\ i \in 1..9 /\ 3 + i \in 1..6 /\ 3 + i \in 1..9
                       /\ 6 + i \in 1..9
  OBVIOUS
<1>16. \A i \in 1..3 : e[i] = a[i] /\ e[3 + i] = b[i] /\ e[6 + i] = c[i]
  BY <1>6, <1>8, <1>14, <1>15
<1> QED
  BY <1>11, <1>12, <1>13, <1>16 DEF Layout

LEMMA DataEncoded ==
  ASSUME NEW p \in Packet, p.type = "kData", Sendable(p)
  PROVE  /\ p.from \in Byte /\ p.data \in Seq(Byte) /\ Len(p.data) \in Byte
         /\ p = Data(p.from, p.data)
         /\ Encode(p) \in Seq(Byte) /\ Len(Encode(p)) = 11 + Len(p.data)
         /\ Encode(p)[1] = Letter.R /\ Encode(p)[2] = Letter.B /\ Encode(p)[3] = Letter.N
         /\ Number(Encode(p), 4) = p.from
         /\ Number(Encode(p), 7) = Len(p.data)
         /\ \A j \in 1..Len(p.data) : Encode(p)[9 + j] = p.data[j]
<1> DEFINE n == Len(p.data)
           rbn == <<Letter.R, Letter.B, Letter.N>>
           from == Digits(p.from)
           len == Digits(Len(p.data))
           end == <<Cr, Lf>>
           e == Encode(p)
<1>1. p.from \in Byte /\ p.data \in Seq(Byte)
  BY DEF Packet
<1>2. n \in Byte /\ n \in Nat
  <2>1. n \in Byte
    BY DEF Sendable
  <2> QED
    BY <1>1, <2>1
<1>3. p = Data(p.from, p.data)
  BY DEF Packet, Data
<1>4. rbn \in Seq(Byte) /\ Len(rbn) = 3
      /\ rbn[1] = Letter.R /\ rbn[2] = Letter.B /\ rbn[3] = Letter.N
  BY DEF Letter, Byte
<1>5. end \in Seq(Byte) /\ Len(end) = 2
  BY DEF Cr, Lf, Byte
<1>6. /\ from \in Seq(Byte) /\ Len(from) = 3 /\ Number(from, 1) = p.from
      /\ len \in Seq(Byte) /\ Len(len) = 3 /\ Number(len, 1) = n
  BY <1>1, <1>2, DigitsOfByte
<1>7. e = rbn \o from \o len \o p.data \o end
  BY DEF Encode
<1> HIDE DEF rbn, from, len, end, e
<1>8. /\ e \in Seq(Byte) /\ Len(e) = 11 + n
      /\ \A i \in 1..3 : e[i] = rbn[i] /\ e[3 + i] = from[i] /\ e[6 + i] = len[i]
      /\ \A i \in 1..n : e[9 + i] = p.data[i]
  <2>1. Parts(rbn, from, len, p.data, end, e)
    BY <1>1, <1>4, <1>5, <1>6, <1>7 DEF Parts
  <2>2. Layout(rbn, from, len, p.data, e)
    BY ONLY <2>1, FiveParts
  <2> QED
    BY ONLY <2>2 DEF Layout, n
<1>9. Number(e, 4) = p.from
  <2>1. e[4] = from[1] /\ e[4 + 1] = from[2] /\ e[4 + 2] = from[3]
    BY <1>8
  <2> QED
    BY <1>6, <2>1, NumberElsewhere
<1>10. Number(e, 7) = n
  <2>1. e[7] = len[1] /\ e[7 + 1] = len[2] /\ e[7 + 2] = len[3]
    BY <1>8
  <2> QED
    BY <1>6, <2>1, NumberElsewhere
<1>11. e[1] = Letter.R /\ e[2] = Letter.B /\ e[3] = Letter.N
  BY <1>4, <1>8
<1> QED
  BY <1>1, <1>2, <1>3, <1>8, <1>9, <1>10, <1>11, Zenon DEF e

LEMMA ResultEncoded ==
  ASSUME NEW p \in Packet, p.type = "kResult", Sendable(p)
  PROVE  /\ p = Result(p.ok, p.value) /\ p.ok \in BOOLEAN /\ p.value \in Int
         /\ Encode(p) \in Seq(Byte) /\ Len(Encode(p)) = 4
         /\ Encode(p)[1] \in {Letter.N, Letter.P}
         /\ (Encode(p)[1] = Letter.P) = p.ok
         /\ Encode(p)[2] - Zero = p.value
         /\ Encode(p)[3] = Cr /\ Encode(p)[4] = Lf
<1> DEFINE first == IF p.ok THEN Letter.P ELSE Letter.N
           e == Encode(p)
<1>1. p.ok \in BOOLEAN /\ p.value \in Int
  BY DEF Packet
<1>2. p = Result(p.ok, p.value)
  BY DEF Packet, Result
<1>3. e = <<first, Zero + p.value, Cr, Lf>>
  BY DEF Encode
<1>4. first \in {Letter.N, Letter.P} /\ first \in Byte
  BY DEF Letter, Byte
<1>5. (first = Letter.P) = p.ok
  <2>1. CASE p.ok
    BY <1>1, <2>1
  <2>2. CASE ~p.ok
    <3>1. first # Letter.P
      BY <2>2 DEF Letter
    <3> QED
      BY <1>1, <2>2, <3>1
  <2> QED
    BY <2>1, <2>2
<1> HIDE DEF first, e
<1>6. Zero + p.value \in Byte
  BY DEF Sendable
<1>7. Cr \in Byte /\ Lf \in Byte
  BY DEF Cr, Lf, Byte
<1>8. e \in Seq(Byte) /\ Len(e) = 4
  BY <1>3, <1>4, <1>6, <1>7
<1>9. e[1] = first /\ e[2] = Zero + p.value /\ e[3] = Cr /\ e[4] = Lf
  BY <1>3
<1>10. e[2] - Zero = p.value
  BY <1>1, <1>9 DEF Zero
<1>11. (e[1] = Letter.P) = p.ok
  BY <1>5, <1>9
<1> QED
  BY <1>1, <1>2, <1>4, <1>8, <1>9, <1>10, <1>11 DEF e

LEMMA LineEncoded ==
  ASSUME NEW p \in Packet, p.type = "kLine", Sendable(p)
  PROVE  /\ p.line \in Seq(Byte) /\ Encode(p) = p.line
         /\ Len(p.line) >= 4 /\ p = Line(p.line)
         /\ \A i \in 1..Len(p.line) : p.line[i] = Lf <=> i = Len(p.line)
         /\ ~StartsData(p.line) /\ ~StartsResult(p.line)
<1>1. p.line \in Seq(Byte) /\ p = [type |-> "kLine", line |-> p.line]
  BY DEF Packet
<1>2. Encode(p) = p.line
  BY DEF Encode
<1>3. /\ Len(p.line) >= 4 /\ Len(p.line) <= LineSize
      /\ \A i \in DOMAIN p.line : p.line[i] = Lf <=> i = Len(p.line)
      /\ ~StartsData(p.line) /\ ~StartsResult(p.line)
  BY DEF Sendable
<1>4. (IF Len(p.line) < LineSize THEN Len(p.line) ELSE LineSize) = Len(p.line)
  BY <1>1, <1>3, SizeAssumption
<1>5. SubSeq(p.line, 1, Len(p.line)) = p.line
  BY <1>1, SubSeqFull
<1>6. p = Line(p.line)
  BY <1>1, <1>4, <1>5 DEF Line
<1>7. DOMAIN p.line = 1..Len(p.line)
  BY <1>1
<1> QED
  BY <1>1, <1>2, <1>3, <1>6, <1>7

\* Every packet has at least four bytes.
LEMMA Encoded ==
  ASSUME NEW p \in Packet, Sendable(p)
  PROVE  Encode(p) \in Seq(Byte) /\ Len(Encode(p)) >= 4 /\ Len(Encode(p)) \in Nat
<1>1. p.type \in {"kData", "kResult", "kLine"}
  BY DEF Packet
<1>2. CASE p.type = "kData"
  <2>1. Len(p.data) \in Nat
    BY <1>2, DataEncoded
  <2> QED
    BY <1>2, <2>1, DataEncoded
<1>3. CASE p.type = "kResult"
  BY <1>3, ResultEncoded
<1>4. CASE p.type = "kLine"
  BY <1>4, LineEncoded
<1> QED
  BY <1>1, <1>2, <1>3, <1>4

-----------------------------------------------------------------------------
(***************************************************************************)
(* The inductive invariant of the cutting.  The queue holds a piece of the *)
(* wire; where that piece begins depends on the state alone: between       *)
(* packets and while one is told from another, at the end of what was      *)
(* dispatched; in a data packet, behind RBN or behind its header.  Fed     *)
(* byte by byte (prompt) the queue never holds a packet's last byte.       *)
(***************************************************************************)
OnWire(s, q, base) ==
  /\ q \in Seq(Byte) /\ base \in Nat /\ base + Len(q) <= Len(Wire(s))
  /\ \A i \in 1..Len(q) : q[i] = Wire(s)[base + i]

Prompt(st, q, len) ==
  /\ st = "kNone" => Len(q) = 0
  /\ st = "kDetecting" => Len(q) < 3
  /\ st = "kDataHeader" => Len(q) < 6
  /\ st = "kDataContent" => Len(q) < len + 2
  /\ st = "kResult" => Len(q) < 4

Placed(s, prompt, st, q, base, k, from, len) ==
  /\ st \in {"kNone", "kDetecting", "kResult", "kRawLine"} => base = EndOf(s, k)
  /\ st # "kNone" => k < Len(s)
  /\ st = "kDataHeader" => s[k + 1].type = "kData" /\ base = EndOf(s, k) + 3
  /\ st = "kDataContent" =>
       /\ s[k + 1].type = "kData" /\ base = EndOf(s, k) + 9
       /\ from = s[k + 1].from /\ len = Len(s[k + 1].data)
  /\ st = "kResult" => s[k + 1].type = "kResult"
  /\ st = "kRawLine" => prompt /\ s[k + 1].type = "kLine" /\ Len(q) < Len(s[k + 1].line)
  /\ prompt => Prompt(st, q, len)

AllSendable == \A i \in DOMAIN script : Sendable(script[i])
NoLines == \A i \in DOMAIN script : script[i].type # "kLine"
Covered == AllSendable /\ (Bytewise \/ (~dropped /\ NoLines))

CutOK ==
  /\ Len(dispatched) <= Len(script)
  /\ \A i \in 1..Len(dispatched) : dispatched[i] = script[i]
  /\ OnWire(script, rx_queue_, pos - Len(rx_queue_))
  /\ Placed(script, Bytewise, state_, rx_queue_, pos - Len(rx_queue_), Len(dispatched),
            rx_data_address_, rx_data_length_)

CutInv == (Bytewise => ~dropped) /\ (Covered => CutOK)

\* What a handler finds: the queue q, the new chunk included.
Fed(q) ==
  /\ Encodes(script) /\ AllSendable /\ (Bytewise \/ NoLines)
  /\ rx_data_address_ \in Byte /\ rx_data_length_ \in Byte
  /\ dispatched \in Seq(Packet) /\ Len(dispatched) <= Len(script)
  /\ \A i \in 1..Len(dispatched) : dispatched[i] = script[i]
  /\ OnWire(script, q, pos' - Len(q))
  /\ feed' = feed /\ pos' \in Nat

Onward ==
  /\ overrun' = overrun
  /\ \/ dispatched' = dispatched
     \/ /\ Len(dispatched) < Len(script)
        /\ dispatched' = Append(dispatched, script[Len(dispatched) + 1])

\* The packet under way, and its bytes.
Current == script[Len(dispatched) + 1]
Start == EndOf(script, Len(dispatched))

LEMMA SendableEncodes ==
  ASSUME RxSound, AllSendable
  PROVE  Encodes(script)
<1>1. script \in Seq(Packet) /\ DOMAIN script = 1..Len(script)
  BY FeedAssumption DEF RxSound, TypeOK, script
<1>2. \A i \in DOMAIN script : script[i] \in Packet
  BY <1>1
<1> QED
  BY <1>1, <1>2, Encoded DEF Encodes, AllSendable

LEMMA CurrentPacket ==
  ASSUME NEW q, Fed(q), Len(dispatched) < Len(script)
  PROVE  /\ Current \in Packet /\ Sendable(Current)
         /\ Start \in Nat
         /\ EndOf(script, Len(dispatched) + 1) = Start + Len(Encode(Current))
         /\ \A j \in 1..Len(Encode(Current)) : Wire(script)[Start + j] = Encode(Current)[j]
         /\ EndOf(script, Len(dispatched) + 1) <= Len(Wire(script))
<1>1. /\ Encodes(script) /\ script \in Seq(Packet) /\ Len(script) \in Nat
      /\ DOMAIN script = 1..Len(script) /\ Len(dispatched) \in Nat
  BY DEF Fed, Encodes
<1>2. Len(dispatched) \in 0..Len(script) - 1 /\ Len(dispatched) + 1 \in DOMAIN script
  BY <1>1
<1>3. Current \in Packet
  BY <1>1, <1>2 DEF Current
<1>4. Sendable(Current)
  BY <1>2 DEF Current, Fed, AllSendable
<1> QED
  BY <1>1, <1>2, <1>3, <1>4, OnTheWire DEF Current, Start

\* The queue shows the current packet from its d-th byte on.
LEMMA Shows ==
  ASSUME NEW q, Fed(q), Len(dispatched) < Len(script), NEW d \in Nat,
         pos' - Len(q) = Start + d
  PROVE  \A i \in 1..Len(q) : d + i <= Len(Encode(Current)) => q[i] = Encode(Current)[d + i]
<1> SUFFICES ASSUME NEW i \in 1..Len(q), d + i <= Len(Encode(Current))
             PROVE  q[i] = Encode(Current)[d + i]
  OBVIOUS
<1>1. q[i] = Wire(script)[(Start + d) + i] /\ Len(q) \in Nat
  BY DEF Fed, OnWire
<1>2. Start \in Nat /\ Encode(Current) \in Seq(Byte)
  BY CurrentPacket, Encoded
<1>3. (Start + d) + i = Start + (d + i)
  BY <1>1, <1>2
<1>4. d + i \in 1..Len(Encode(Current))
  BY <1>1, <1>2
<1>5. Wire(script)[Start + (d + i)] = Encode(Current)[d + i]
  BY <1>4, CurrentPacket
<1> QED
  BY <1>1, <1>3, <1>5

LEMMA ConsumeOnWire ==
  ASSUME NEW s, NEW q, NEW base, OnWire(s, q, base), NEW n \in Nat, n <= Len(q)
  PROVE  /\ OnWire(s, Consume(q, n), base + n)
         /\ Len(Consume(q, n)) = Len(q) - n
<1> DEFINE r == Consume(q, n)
<1>0. q \in Seq(Byte) /\ base \in Nat /\ base + Len(q) <= Len(Wire(s)) /\ Len(q) \in Nat
  BY DEF OnWire
<1>1. r \in Seq(Byte) /\ Len(r) = Len(q) - n /\ \A i \in 1..Len(r) : r[i] = q[n + i]
  BY <1>0 DEF Consume
<1> HIDE DEF r
<1>2. base + n \in Nat /\ (base + n) + Len(r) <= Len(Wire(s))
  <2>1. (base + n) + Len(r) = base + Len(q)
    BY <1>0, <1>1
  <2> QED
    BY <1>0, <2>1
<1>3. ASSUME NEW i \in 1..Len(r) PROVE r[i] = Wire(s)[(base + n) + i]
  <2>1. n + i \in 1..Len(q) /\ base + (n + i) = (base + n) + i
    BY <1>0, <1>1
  <2>2. q[n + i] = Wire(s)[base + (n + i)]
    BY <2>1 DEF OnWire
  <2> QED
    BY <1>1, <2>1, <2>2
<1> QED
  BY <1>1, <1>2, <1>3 DEF OnWire, r

LEMMA FeedKept ==
  ASSUME feed' = feed
  PROVE  script' = script /\ (Bytewise' <=> Bytewise)
<1>1. script' = script
  BY DEF script
<1> QED
  BY <1>1 DEF Bytewise

LEMMA WaitCut ==
  ASSUME NEW q0, Fed(q0), NEW q, OnWire(script, q, pos' - Len(q)), NEW st, Wait(st, q),
         Placed(script, Bytewise, st, q, pos' - Len(q), Len(dispatched),
                rx_data_address_', rx_data_length_')
  PROVE  CutOK' /\ Onward
<1>1. script' = script /\ (Bytewise' <=> Bytewise)
  BY FeedKept DEF Fed
<1>2. state_' = st /\ rx_queue_' = q /\ dispatched' = dispatched /\ overrun' = overrun
  BY DEF Wait
<1>3. Placed(script, Bytewise, state_', rx_queue_', pos' - Len(rx_queue_'),
             Len(dispatched'), rx_data_address_', rx_data_length_')
  BY <1>2
<1>4. Placed(script', Bytewise', state_', rx_queue_', pos' - Len(rx_queue_'),
             Len(dispatched'), rx_data_address_', rx_data_length_')
  BY <1>1, <1>3 DEF Placed
<1> QED
  BY <1>1, <1>2, <1>4 DEF CutOK, Onward, Fed

LEMMA ExitCut ==
  ASSUME NEW q0, Fed(q0), Len(dispatched) < Len(script),
         NEW rest, OnWire(script, rest, pos' - Len(rest)),
         pos' - Len(rest) = EndOf(script, Len(dispatched) + 1),
         Bytewise => Len(rest) = 0, DispatchAndExit(Current, rest),
         overrun' = overrun
  PROVE  CutOK' /\ Onward
<1> DEFINE k == Len(dispatched)
<1>1. script' = script /\ (Bytewise' <=> Bytewise)
  BY FeedKept DEF Fed
<1>2. /\ state_' = "kNone" /\ rx_queue_' = rest
      /\ dispatched' = Append(dispatched, script[k + 1])
  BY DEF DispatchAndExit, Current
<1>3. dispatched \in Seq(Packet) /\ k \in Nat /\ Len(script) \in Nat
  BY DEF Fed, Encodes
<1>4. Current \in Packet
  BY CurrentPacket
<1>5. Len(dispatched') = k + 1 /\ \A i \in 1..k + 1 : dispatched'[i] = script[i]
  <2>1. /\ Len(dispatched') = k + 1
        /\ \A i \in 1..k : dispatched'[i] = dispatched[i]
        /\ dispatched'[k + 1] = script[k + 1]
    BY <1>2, <1>3, <1>4, AppendProperties DEF Current
  <2>2. \A i \in 1..k : dispatched[i] = script[i]
    BY DEF Fed
  <2>3. \A i \in 1..k + 1 : i \in 1..k \/ i = k + 1
    BY <1>3
  <2> QED
    BY <2>1, <2>2, <2>3
<1>6. Placed(script', Bytewise', state_', rx_queue_', pos' - Len(rx_queue_'),
             Len(dispatched'), rx_data_address_', rx_data_length_')
  BY <1>1, <1>2, <1>5 DEF Placed, Prompt
<1> QED
  BY <1>1, <1>2, <1>3, <1>5, <1>6 DEF CutOK, Onward

LEMMA DataContentCut ==
  ASSUME NEW q, Fed(q), Len(dispatched) < Len(script), Current.type = "kData",
         pos' - Len(q) = Start + 9,
         rx_data_address_ = Current.from, rx_data_length_ = Len(Current.data),
         Bytewise => Len(q) <= Len(Current.data) + 2,
         OnDataContent(q)
  PROVE  CutOK' /\ Onward
<1> DEFINE n == Len(Current.data)
           rest == Consume(q, n + 2)
<1>1. /\ Current \in Packet /\ Sendable(Current) /\ Start \in Nat
      /\ EndOf(script, Len(dispatched) + 1) = Start + Len(Encode(Current))
  BY CurrentPacket
<1>2. /\ Current.data \in Seq(Byte) /\ n \in Nat
      /\ Current = Data(Current.from, Current.data)
      /\ Len(Encode(Current)) = 11 + n
      /\ \A j \in 1..n : Encode(Current)[9 + j] = Current.data[j]
  BY <1>1, DataEncoded
<1>3. OnWire(script, q, pos' - Len(q)) /\ q \in Seq(Byte) /\ Len(q) \in Nat
  BY DEF Fed, OnWire
<1>4. CASE Len(q) >= n + 2 /\ ISR_ParseBinaryData(q)
  <2>1. SubSeq(q, 1, n) \in Seq(Byte) /\ Len(SubSeq(q, 1, n)) = n
        /\ \A j \in 1..n : SubSeq(q, 1, n)[j] = q[j]
    BY <1>2, <1>3, <1>4
  <2>2. \A j \in 1..n : j \in 1..Len(q) /\ 9 + j <= Len(Encode(Current))
    BY <1>2, <1>3, <1>4
  <2>3. \A j \in 1..n : q[j] = Encode(Current)[9 + j]
    BY <2>2, Shows
  <2>4. SubSeq(q, 1, n) = Current.data
    BY <1>2, <2>1, <2>3, SeqEqual
  <2>5. DispatchAndExit(Current, rest) /\ overrun' = overrun
    BY <1>2, <1>4, <2>4 DEF ISR_ParseBinaryData
  <2>a. Bytewise => Len(q) <= n + 2
    OBVIOUS
  <2> HIDE DEF n
  <2>6. n + 2 \in Nat /\ n + 2 <= Len(q)
    BY <1>2, <1>4
  <2>7. OnWire(script, rest, (pos' - Len(q)) + (n + 2)) /\ Len(rest) = Len(q) - (n + 2)
    BY <1>3, <2>6, ConsumeOnWire
  <2> HIDE DEF rest
  <2>8. pos' \in Int
    BY DEF Fed
  <2>9. (pos' - Len(q)) + (n + 2) = pos' - Len(rest)
    BY <1>3, <2>6, <2>7, <2>8
  <2>10. pos' - Len(rest) = EndOf(script, Len(dispatched) + 1)
    <3>1. (Start + 9) + (n + 2) = Start + (11 + n)
      BY <1>1, <1>2
    <3> QED
      BY <1>1, <1>2, <2>9, <3>1
  <2>11. Bytewise => Len(rest) = 0
    BY <1>2, <1>3, <1>4, <2>a, <2>7
  <2>12. OnWire(script, rest, pos' - Len(rest))
    BY <2>7, <2>9
  <2> QED
    BY <2>5, <2>10, <2>11, <2>12, ExitCut
<1>5. CASE Len(q) < n + 2 /\ Wait("kDataContent", q) /\ KeepHeader
  <2>1. Placed(script, Bytewise, "kDataContent", q, pos' - Len(q), Len(dispatched),
               rx_data_address_', rx_data_length_')
    BY <1>5 DEF Placed, Prompt, Current, Start, KeepHeader
  <2> QED
    BY <1>3, <1>5, <2>1, WaitCut
<1> QED
  BY <1>4, <1>5 DEF OnDataContent

LEMMA DataHeaderCut ==
  ASSUME NEW q, Fed(q), Len(dispatched) < Len(script), Current.type = "kData",
         pos' - Len(q) = Start + 3, Bytewise => Len(q) <= 6,
         OnDataHeader(q)
  PROVE  CutOK' /\ Onward
<1> DEFINE n == Len(Current.data)
           e == Encode(Current)
           rest == Consume(q, 6)
<1>1. Current \in Packet /\ Sendable(Current) /\ Start \in Nat
  BY CurrentPacket
<1>2. /\ n \in Byte /\ Current.from \in Byte /\ Len(e) = 11 + n
      /\ Number(e, 4) = Current.from /\ Number(e, 7) = n
  BY <1>1, DataEncoded
<1>3. OnWire(script, q, pos' - Len(q)) /\ q \in Seq(Byte) /\ Len(q) \in Nat
  BY DEF Fed, OnWire
<1>4. CASE Len(q) >= 6 /\ ISR_ParseBinaryHeader(q)
  <2>1. \A i \in 1..6 : i \in 1..Len(q) /\ 3 + i <= Len(e)
    BY <1>2, <1>3, <1>4 DEF Byte
  <2>2. \A i \in 1..6 : q[i] = e[3 + i]
    BY <2>1, Shows
  <2> HIDE DEF e, n
  <2>3. Number(q, 1) = Current.from
    <3>1. q[1] = e[4] /\ q[1 + 1] = e[4 + 1] /\ q[1 + 2] = e[4 + 2]
      BY <2>2
    <3> QED
      BY <1>2, <3>1 DEF Number
  <2>4. Number(q, 4) = n
    <3>1. q[4] = e[7] /\ q[4 + 1] = e[7 + 1] /\ q[4 + 2] = e[7 + 2]
      BY <2>2
    <3> QED
      BY <1>2, <3>1 DEF Number
  <2>5. \A x \in Byte : x % 256 = x
    BY DEF Byte
  <2>6. rx_data_address_' = Current.from /\ rx_data_length_' = n
    BY <1>2, <1>4, <2>3, <2>4, <2>5 DEF ISR_ParseBinaryHeader
  <2>7. OnWire(script, rest, (pos' - Len(q)) + 6) /\ Len(rest) = Len(q) - 6
    BY <1>3, <1>4, ConsumeOnWire
  <2>8. Wait("kDataContent", rest)
    BY <1>4 DEF ISR_ParseBinaryHeader
  <2> HIDE DEF rest
  <2>9. pos' - Len(q) \in Nat
    BY <1>3 DEF OnWire
  <2>10. pos' \in Int
    BY DEF Fed
  <2>11. (pos' - Len(q)) + 6 = pos' - Len(rest) /\ pos' - Len(rest) = Start + 9
    BY <1>1, <1>3, <2>7, <2>9, <2>10
  <2>12. Bytewise => Len(rest) < n + 2
    <3>1. n \in Nat
      BY <1>2 DEF Byte
    <3> QED
      BY <1>3, <1>4, <2>7, <3>1
  <2>13. Placed(script, Bytewise, "kDataContent", rest, pos' - Len(rest), Len(dispatched),
                rx_data_address_', rx_data_length_')
    BY <2>6, <2>11, <2>12 DEF Placed, Prompt, Current, Start, n
  <2>14. OnWire(script, rest, pos' - Len(rest))
    BY <2>7, <2>11
  <2> QED
    BY <2>8, <2>13, <2>14, WaitCut
<1>5. CASE Len(q) < 6 /\ Wait("kDataHeader", q) /\ KeepHeader
  <2>1. Placed(script, Bytewise, "kDataHeader", q, pos' - Len(q), Len(dispatched),
               rx_data_address_', rx_data_length_')
    BY <1>5 DEF Placed, Prompt, Current, Start, KeepHeader
  <2> QED
    BY <1>3, <1>5, <2>1, WaitCut
<1> QED
  BY <1>4, <1>5 DEF OnDataHeader

LEMMA ResultCut ==
  ASSUME NEW q, Fed(q), Len(dispatched) < Len(script), Current.type = "kResult",
         pos' - Len(q) = Start, Bytewise => Len(q) <= 4,
         OnResult(q)
  PROVE  CutOK' /\ Onward
<1> DEFINE e == Encode(Current)
           rest == Consume(q, 4)
<1>1. /\ Current \in Packet /\ Sendable(Current) /\ Start \in Nat
      /\ EndOf(script, Len(dispatched) + 1) = Start + Len(e)
  BY CurrentPacket
<1>2. /\ Current = Result(Current.ok, Current.value) /\ Len(e) = 4
      /\ (e[1] = Letter.P) = Current.ok /\ e[2] - Zero = Current.value
      /\ e[3] = Cr /\ e[4] = Lf
  BY <1>1, ResultEncoded
<1>3. OnWire(script, q, pos' - Len(q)) /\ q \in Seq(Byte) /\ Len(q) \in Nat
  BY DEF Fed, OnWire
<1>4. \A i \in 1..Len(q) : 0 + i <= Len(e) => q[i] = e[0 + i]
  <2>1. pos' - Len(q) = Start + 0
    BY <1>1
  <2> QED
    BY <2>1, Shows
<1> HIDE DEF e
<1>5. \A i \in 1..4 : i <= Len(q) => q[i] = e[i]
  BY <1>2, <1>3, <1>4
<1>6. CASE EndsResult(q) /\ ISR_ParseResult(q)
  <2>0. Len(q) >= 4
    BY <1>6 DEF EndsResult
  <2>1. q[1] = e[1] /\ q[2] = e[2]
    BY <1>3, <1>5, <2>0
  <2>2. Result(q[1] = Letter.P, q[2] - Zero) = Current
    BY <1>2, <2>1 DEF Result
  <2>3. DispatchAndExit(Current, rest) /\ overrun' = overrun
    BY <1>6, <2>2 DEF ISR_ParseResult
  <2>4. OnWire(script, rest, (pos' - Len(q)) + 4) /\ Len(rest) = Len(q) - 4
    BY <1>3, <2>0, ConsumeOnWire
  <2> HIDE DEF rest
  <2>5. pos' \in Int /\ pos' - Len(q) \in Nat
    BY <1>3 DEF OnWire, Fed
  <2>6. (pos' - Len(q)) + 4 = pos' - Len(rest)
    BY <1>3, <2>4, <2>5
  <2>7. pos' - Len(rest) = EndOf(script, Len(dispatched) + 1)
    BY <1>1, <1>2, <2>6
  <2>8. Bytewise => Len(rest) = 0
    BY <1>3, <2>0, <2>4
  <2>9. OnWire(script, rest, pos' - Len(rest))
    BY <2>4, <2>6
  <2> QED
    BY <2>3, <2>7, <2>8, <2>9, ExitCut
<1>7. CASE ~EndsResult(q) /\ Wait("kResult", q) /\ KeepHeader
  <2>1. Len(q) < 4
    <3> SUFFICES ASSUME ~(Len(q) < 4) PROVE FALSE
      OBVIOUS
    <3>1. q[3] = e[3] /\ q[4] = e[4] /\ Len(q) >= 4
      BY <1>3, <1>5
    <3> QED
      BY <1>2, <1>7, <3>1 DEF EndsResult
  <2>2. Placed(script, Bytewise, "kResult", q, pos' - Len(q), Len(dispatched),
               rx_data_address_', rx_data_length_')
    BY <2>1 DEF Placed, Prompt, Current, Start
  <2> QED
    BY <1>3, <1>7, <2>2, WaitCut
<1> QED
  BY <1>6, <1>7 DEF OnResult

LEMMA RawLineCut ==
  ASSUME NEW chunk, NEW q, Fed(q), Len(dispatched) < Len(script), Current.type = "kLine",
         Bytewise, pos' - Len(q) = Start,
         Len(q) >= 1, Len(q) <= Len(Current.line), chunk[1] = q[Len(q)],
         OnRawLine(chunk, q)
  PROVE  CutOK' /\ Onward
<1> DEFINE line == Current.line
<1>1. /\ Current \in Packet /\ Sendable(Current) /\ Start \in Nat
      /\ EndOf(script, Len(dispatched) + 1) = Start + Len(Encode(Current))
      /\ EndOf(script, Len(dispatched) + 1) <= Len(Wire(script))
  BY CurrentPacket
<1>2. /\ line \in Seq(Byte) /\ Encode(Current) = line /\ Current = Line(line)
      /\ \A i \in 1..Len(line) : line[i] = Lf <=> i = Len(line)
  BY <1>1, LineEncoded
<1>3. OnWire(script, q, pos' - Len(q)) /\ q \in Seq(Byte) /\ Len(q) \in Nat /\ pos' \in Nat
  <2>1. OnWire(script, q, pos' - Len(q)) /\ pos' \in Nat
    BY DEF Fed
  <2>2. q \in Seq(Byte)
    BY ONLY <2>1 DEF OnWire
  <2>3. Len(q) \in Nat
    BY ONLY <2>2
  <2> QED
    BY ONLY <2>1, <2>2, <2>3
<1>4. \A i \in 1..Len(q) : 0 + i <= Len(Encode(Current)) => q[i] = Encode(Current)[0 + i]
  <2>1. pos' - Len(q) = Start + 0
    BY <1>1
  <2> QED
    BY <2>1, Shows
<1>5. \A i \in 1..Len(q) : i \in 1..Len(line) /\ q[i] = line[i]
  <2>1. \A i \in 1..Len(q) : 0 + i = i /\ i <= Len(line) /\ i \in 1..Len(line)
    BY <1>2, <1>3
  <2> QED
    BY <1>2, <1>4, <2>1
<1>6. chunk[1] = Lf <=> Len(q) = Len(line)
  <2>1. Len(q) \in 1..Len(q)
    BY <1>3
  <2> QED
    BY <1>2, <1>5, <2>1
<1>7. CASE chunk[1] = Lf /\ ISR_ParseRawLine(q)
  <2>1. Len(q) = Len(line)
    BY <1>6, <1>7
  <2>2. q = line
    BY <1>2, <1>3, <1>5, <2>1, SeqEqual
  <2>a. PICK rest : rest = <<>>
    OBVIOUS
  <2>b. rest \in Seq(Byte) /\ Len(rest) = 0
    BY <2>a, EmptySeq
  <2>d. Len(q) < Capacity /\ overrun' = overrun
    <3>1. Len(line) <= LineSize
      BY <1>1, <1>2 DEF Sendable, Line
    <3>2. Len(q) < Capacity
      BY <1>3, <2>1, <3>1, SizeAssumption
    <3> QED
      BY <1>7, <3>2, SizeAssumption DEF ISR_ParseRawLine
  <2>3. DispatchAndExit(Current, rest)
    <3>1. DispatchAndExit(Line(q), <<>>)
      BY <1>7, <2>d, SizeAssumption DEF ISR_ParseRawLine
    <3> QED
      BY <1>2, <2>2, <2>a, <3>1
  <2>c. pos' - Len(rest) = pos' /\ pos' + Len(rest) = pos'
    <3>1. Len(rest) = 0
      BY <2>b
    <3>2. pos' \in Nat
      BY <1>3
    <3>3. \A x \in Nat : x - 0 = x /\ x + 0 = x
      OBVIOUS
    <3> QED
      BY ONLY <3>1, <3>2, <3>3, Zenon
  <2>4. pos' = EndOf(script, Len(dispatched) + 1)
    <3>1. pos' - Len(line) = Start /\ Len(line) \in Nat
      BY <1>2, <2>1
    <3>2. EndOf(script, Len(dispatched) + 1) = Start + Len(line)
      BY <1>1, <1>2
    <3> HIDE DEF line
    <3> QED
      BY <1>1, <1>3, <3>1, <3>2
  <2>5. OnWire(script, rest, pos' - Len(rest))
    <3>1. pos' <= Len(Wire(script))
      BY <1>1, <2>4
    <3>2. 1..Len(rest) = {}
      BY <2>b
    <3> QED
      BY <1>3, <2>b, <2>c, <3>1, <3>2 DEF OnWire
  <2> QED
    BY <2>3, <2>4, <2>5, <2>b, <2>c, <2>d, ExitCut
<1>8. CASE chunk[1] # Lf /\ Wait("kRawLine", q) /\ KeepHeader
  <2>1. Len(q) < Len(line)
    BY <1>2, <1>3, <1>6, <1>8
  <2>2. Placed(script, Bytewise, "kRawLine", q, pos' - Len(q), Len(dispatched),
               rx_data_address_', rx_data_length_')
    BY <2>1 DEF Placed, Prompt, Current, Start
  <2> QED
    BY <1>3, <1>8, <2>2, WaitCut
<1> QED
  BY <1>7, <1>8 DEF OnRawLine

LEMMA WireEnds ==
  ASSUME Encodes(script)
  PROVE  EndOf(script, Len(script)) = Len(Wire(script))
BY SubSeqFull DEF EndOf, Encodes

\* Two bytes or three are enough to tell a packet's kind.
LEMMA Kinds ==
  ASSUME NEW q, Fed(q), Len(dispatched) < Len(script), pos' - Len(q) = Start
  PROVE  /\ StartsData(q) => Current.type = "kData"
         /\ StartsResult(q) => Current.type = "kResult"
         /\ Len(q) >= 3 /\ ~StartsData(q) /\ ~StartsResult(q) => Current.type = "kLine"
<1> DEFINE e == Encode(Current)
<1>1. /\ Current \in Packet /\ Sendable(Current) /\ Start \in Nat
      /\ Current.type \in {"kData", "kResult", "kLine"}
  BY CurrentPacket DEF Packet
<1>2. q \in Seq(Byte) /\ Len(q) \in Nat
  BY DEF Fed, OnWire
<1>3. Len(e) \in Nat /\ Len(e) >= 4
  BY <1>1, Encoded
<1>4. \A i \in 1..Len(q) : 0 + i <= Len(e) => q[i] = e[0 + i]
  <2>1. pos' - Len(q) = Start + 0
    BY <1>1
  <2> QED
    BY <2>1, Shows
<1> HIDE DEF e
<1>5. \A i \in 1..3 : i <= Len(q) => q[i] = e[i]
  BY <1>2, <1>3, <1>4
<1>6. CASE Current.type = "kData"
  <2>1. e[1] = Letter.R /\ e[2] = Letter.B /\ e[3] = Letter.N
    BY <1>1, <1>6, DataEncoded DEF e
  <2>2. ~StartsResult(q)
    <3> SUFFICES ASSUME StartsResult(q) PROVE FALSE
      OBVIOUS
    <3>1. q[1] = e[1]
      BY <1>2, <1>5 DEF StartsResult
    <3> QED
      BY <2>1, <3>1 DEF StartsResult, Letter
  <2>3. Len(q) >= 3 => StartsData(q)
    BY <1>2, <1>5, <2>1 DEF StartsData
  <2> QED
    BY <1>6, <2>2, <2>3
<1>7. CASE Current.type = "kResult"
  <2>1. e[1] \in {Letter.N, Letter.P}
    BY <1>1, <1>7, ResultEncoded DEF e
  <2>2. ~StartsData(q)
    <3> SUFFICES ASSUME StartsData(q) PROVE FALSE
      OBVIOUS
    <3>1. q[1] = e[1]
      BY <1>2, <1>5 DEF StartsData
    <3> QED
      BY <2>1, <3>1 DEF StartsData, Letter
  <2>3. Len(q) >= 3 => StartsResult(q)
    BY <1>2, <1>5, <2>1 DEF StartsResult
  <2> QED
    BY <1>7, <2>2, <2>3
<1>8. CASE Current.type = "kLine"
  <2>1. e = Current.line /\ ~StartsData(Current.line) /\ ~StartsResult(Current.line)
    BY <1>1, <1>8, LineEncoded DEF e
  <2>2. ~StartsData(q)
    <3> SUFFICES ASSUME StartsData(q) PROVE FALSE
      OBVIOUS
    <3>1. q[1] = e[1] /\ q[2] = e[2] /\ q[3] = e[3]
      BY <1>2, <1>5 DEF StartsData
    <3> QED
      BY <1>3, <2>1, <3>1 DEF StartsData
  <2>3. ~StartsResult(q)
    <3> SUFFICES ASSUME StartsResult(q) PROVE FALSE
      OBVIOUS
    <3>1. q[1] = e[1]
      BY <1>2, <1>5 DEF StartsResult
    <3> QED
      BY <1>3, <2>1, <3>1 DEF StartsResult
  <2> QED
    BY <1>8, <2>2, <2>3
<1> QED
  BY <1>1, <1>6, <1>7, <1>8

LEMMA DetectingCut ==
  ASSUME NEW q, Fed(q), pos' - Len(q) = Start, Len(q) >= 1, Bytewise => Len(q) <= 3,
         OnDetecting(q)
  PROVE  CutOK' /\ Onward
<1>1. OnWire(script, q, pos' - Len(q)) /\ q \in Seq(Byte) /\ Len(q) \in Nat /\ pos' \in Nat
  BY DEF Fed, OnWire
<1>2. Len(dispatched) < Len(script)
  <2> SUFFICES ASSUME ~(Len(dispatched) < Len(script)) PROVE FALSE
    OBVIOUS
  <2>1. Len(dispatched) = Len(script)
    BY DEF Fed, Encodes
  <2>2. Start = Len(Wire(script))
    BY <2>1, WireEnds DEF Start, Fed
  <2>3. Start + Len(q) <= Len(Wire(script)) /\ Start \in Nat
    BY <1>1 DEF OnWire
  <2> QED
    BY <1>1, <2>2, <2>3
<1>3. Start \in Nat /\ Current \in Packet /\ Sendable(Current)
  BY <1>2, CurrentPacket
<1>4. CASE StartsData(q) /\ OnDataHeader(Consume(q, 3))
  <2> DEFINE rest == Consume(q, 3)
  <2>1. Current.type = "kData" /\ Len(q) >= 3
    BY <1>2, <1>4, Kinds DEF StartsData
  <2>2. OnWire(script, rest, (pos' - Len(q)) + 3) /\ Len(rest) = Len(q) - 3
    BY <1>1, <2>1, ConsumeOnWire
  <2> HIDE DEF rest
  <2>3. (pos' - Len(q)) + 3 = pos' - Len(rest) /\ pos' - Len(rest) = Start + 3
    BY <1>1, <1>3, <2>2
  <2>4. Fed(rest)
    BY <2>2, <2>3 DEF Fed
  <2>5. Bytewise => Len(rest) <= 6
    BY <1>1, <2>1, <2>2
  <2> QED
    BY <1>2, <1>4, <2>1, <2>3, <2>4, <2>5, DataHeaderCut DEF rest
<1>5. CASE StartsResult(q) /\ OnResult(q)
  <2>1. Current.type = "kResult"
    BY <1>2, <1>5, Kinds
  <2>2. Bytewise => Len(q) <= 4
    BY <1>1
  <2> QED
    BY <1>2, <1>5, <2>1, <2>2, ResultCut
<1>6. CASE /\ ~StartsData(q) /\ ~StartsResult(q)
           /\ Wait(IF Len(q) >= 3 THEN "kRawLine" ELSE "kDetecting", q) /\ KeepHeader
  <2>1. CASE Len(q) >= 3
    <3>1. Current.type = "kLine"
      BY <1>2, <1>6, <2>1, Kinds
    <3>2. Bytewise
      <4>1. Len(dispatched) + 1 \in DOMAIN script
        BY <1>2 DEF Fed, Encodes
      <4>2. ~NoLines
        BY <3>1, <4>1 DEF NoLines, Current
      <4> QED
        BY <4>2 DEF Fed
    <3>3. Len(q) < Len(Current.line)
      <4>1. Len(Current.line) >= 4 /\ Current.line \in Seq(Byte)
        BY <1>3, <3>1, LineEncoded
      <4> QED
        BY <1>1, <3>2, <4>1
    <3>4. Placed(script, Bytewise, "kRawLine", q, pos' - Len(q), Len(dispatched),
                 rx_data_address_', rx_data_length_')
      BY <1>2, <3>1, <3>2, <3>3 DEF Placed, Prompt, Current, Start
    <3> QED
      BY <1>1, <1>6, <2>1, <3>4, WaitCut
  <2>2. CASE ~(Len(q) >= 3)
    <3>1. Len(q) < 3
      BY <1>1, <2>2
    <3>2. Placed(script, Bytewise, "kDetecting", q, pos' - Len(q), Len(dispatched),
                 rx_data_address_', rx_data_length_')
      BY <1>2, <3>1 DEF Placed, Prompt, Start
    <3> QED
      BY <1>1, <1>6, <2>2, <3>2, WaitCut
  <2> QED
    BY <2>1, <2>2
<1> QED
  BY <1>4, <1>5, <1>6 DEF OnDetecting

\* Fed byte by byte, what is queued is less than the packet under way.
LEMMA PromptBound ==
  ASSUME RxSound, AllSendable, Bytewise, CutOK
  PROVE  /\ Len(rx_queue_) + 1 <= Capacity
         /\ Len(dispatched) < Len(script) => pos < EndOf(script, Len(dispatched) + 1)
<1> DEFINE k == Len(dispatched)
           n == Len(rx_queue_)
<1>0. Encodes(script) /\ script \in Seq(Packet) /\ Len(script) \in Nat /\ k \in Nat
      /\ n \in Nat /\ pos \in Nat /\ Capacity \in Nat /\ Capacity >= 1
  BY SendableEncodes, SizeAssumption DEF Encodes, RxSound, TypeOK
<1>1. Prompt(state_, rx_queue_, rx_data_length_)
  BY DEF CutOK, Placed
<1>2. state_ \in RxState /\ pos - n \in Nat
  BY DEF RxSound, TypeOK, CutOK, OnWire
<1>3. CASE k < Len(script)
  <2> DEFINE p == script[k + 1]
             e == Encode(p)
  <2>1. k + 1 \in DOMAIN script /\ k \in 0..Len(script) - 1
    BY <1>0, <1>3
  <2>2. p \in Packet /\ Sendable(p) /\ Len(e) <= Capacity
    BY <1>0, <2>1 DEF AllSendable, Bytewise
  <2>3. Len(e) >= 4 /\ Len(e) \in Nat
    BY <2>2, Encoded
  <2>4. EndOf(script, k + 1) = EndOf(script, k) + Len(e) /\ EndOf(script, k) \in Nat
    BY <1>0, <2>1, OnTheWire
  <2>5. p.type = "kData" => Len(e) = 11 + Len(p.data) /\ Len(p.data) \in Nat
    BY <2>2, DataEncoded
  <2>6. p.type = "kLine" => Len(e) = Len(p.line)
    BY <2>2, LineEncoded
  <2>7. Placed(script, Bytewise, state_, rx_queue_, pos - n, k,
               rx_data_address_, rx_data_length_)
    BY DEF CutOK
  <2>8. \E d \in Nat : pos - n = EndOf(script, k) + d /\ d + n < Len(e)
    <3>1. CASE state_ \in {"kNone", "kDetecting", "kResult"}
      <4>1. pos - n = EndOf(script, k) + 0 /\ n < 4
        BY <1>0, <1>1, <2>4, <2>7, <3>1 DEF Placed, Prompt
      <4> HIDE DEF n, e, k, p
      <4> QED
        BY <1>0, <2>3, <4>1
    <3>2. CASE state_ = "kRawLine"
      <4>1. pos - n = EndOf(script, k) + 0 /\ n < Len(p.line) /\ Len(e) = Len(p.line)
        BY <2>4, <2>6, <2>7, <3>2 DEF Placed
      <4> HIDE DEF n, e, k, p
      <4> QED
        BY <1>0, <2>3, <4>1
    <3>3. CASE state_ = "kDataHeader"
      <4>1. pos - n = EndOf(script, k) + 3 /\ n < 6 /\ Len(e) = 11 + Len(p.data)
            /\ Len(p.data) \in Nat
        BY <1>1, <2>5, <2>7, <3>3 DEF Placed, Prompt
      <4> HIDE DEF n, e, k, p
      <4> QED
        BY <1>0, <2>3, <4>1
    <3>4. CASE state_ = "kDataContent"
      <4>1. pos - n = EndOf(script, k) + 9 /\ n < Len(p.data) + 2
            /\ Len(e) = 11 + Len(p.data) /\ Len(p.data) \in Nat
        BY <1>1, <2>5, <2>7, <3>4 DEF Placed, Prompt
      <4> HIDE DEF n, e, k, p
      <4> QED
        BY <1>0, <2>3, <4>1
    <3> QED
      BY <1>2, <3>1, <3>2, <3>3, <3>4 DEF RxState
  <2>9. PICK d \in Nat : pos - n = EndOf(script, k) + d /\ d + n < Len(e)
    BY <2>8
  <2> HIDE DEF n, e, k, p
  <2>10. n + 1 <= Capacity /\ pos < EndOf(script, k + 1)
    BY <1>0, <2>2, <2>3, <2>4, <2>9
  <2> QED
    BY <2>10 DEF n, k
<1>4. CASE ~(k < Len(script))
  <2>1. state_ = "kNone"
    BY <1>4 DEF CutOK, Placed
  <2>2. n = 0
    BY <1>1, <2>1 DEF Prompt
  <2> QED
    BY <1>0, <1>4, <2>2
<1> QED
  BY <1>3, <1>4

\* A chunk extends the piece of the wire that is queued.
LEMMA FedChunk ==
  ASSUME RxSound, AllSendable, Bytewise \/ NoLines, CutOK,
         NEW n \in 1..feed.chunk, Receive(n)
  PROVE  LET chunk == SubSeq(Wire(script), pos + 1, pos + n)
             q     == rx_queue_ \o chunk
         IN  /\ Fed(q) /\ pos' - Len(q) = pos - Len(rx_queue_)
             /\ Len(q) = Len(rx_queue_) + n /\ n \in Nat /\ n >= 1
             /\ q \in Seq(Byte) /\ q[Len(q)] = chunk[n]
<1> DEFINE w == Wire(script)
           chunk == SubSeq(w, pos + 1, pos + n)
           q == rx_queue_ \o chunk
           m == Len(rx_queue_)
           base == pos - m
<1>1. feed.chunk \in Nat /\ w \in Seq(Byte)
  BY FeedAssumption DEF RxSound, TypeOK, script
<1>2. /\ pos \in Nat /\ rx_queue_ \in Seq(Byte) /\ m \in Nat /\ n \in Nat /\ n >= 1
      /\ pos + n <= Len(w) /\ pos' = pos + n /\ feed' = feed /\ Len(w) \in Nat
  BY <1>1 DEF RxSound, TypeOK, Receive
<1>3. base \in Nat /\ \A i \in 1..m : rx_queue_[i] = w[base + i]
  BY DEF CutOK, OnWire
<1>4. chunk \in Seq(Byte) /\ Len(chunk) = n
  BY <1>2, ChunkType DEF RxSound
<1>5. \A i \in 1..n : chunk[i] = w[pos + i]
  <2> HIDE DEF w
  <2> QED
    BY <1>1, <1>2
<1> HIDE DEF w, chunk
<1>6. /\ q \in Seq(Byte) /\ Len(q) = m + Len(chunk)
      /\ \A i \in 1..m : q[i] = rx_queue_[i]
      /\ \A i \in 1..Len(chunk) : q[m + i] = chunk[i]
  BY <1>2, <1>4, Concat
<1> HIDE DEF q
<1>7. \A i \in 1..m + n : q[i] = w[base + i]
  <2> SUFFICES ASSUME NEW i \in 1..m + n PROVE q[i] = w[base + i]
    OBVIOUS
  <2>1. CASE i <= m
    BY <1>2, <1>3, <1>6, <2>1
  <2>2. CASE ~(i <= m)
    <3>1. i - m \in 1..n /\ m + (i - m) = i /\ pos + (i - m) = base + i
      BY <1>2, <2>2
    <3>2. q[m + (i - m)] = chunk[i - m]
      BY <1>4, <1>6, <3>1
    <3>3. chunk[i - m] = w[pos + (i - m)]
      BY <1>5, <3>1
    <3> QED
      BY <3>1, <3>2, <3>3
  <2> QED
    BY <2>1, <2>2
<1>8. Len(q) = m + n
  BY <1>4, <1>6
<1>9. pos' - Len(q) = base /\ base + Len(q) <= Len(w)
  <2>1. base + (m + n) = pos + n /\ (pos + n) - (m + n) = base
    BY <1>2
  <2> QED
    BY <1>2, <1>8, <2>1
<1>10. OnWire(script, q, pos' - Len(q))
  BY <1>3, <1>6, <1>7, <1>8, <1>9 DEF OnWire, w
<1>11. q[Len(q)] = chunk[n]
  <2>1. n \in 1..Len(chunk)
    BY <1>2, <1>4
  <2> QED
    BY <1>6, <1>8, <2>1
<1>12. Fed(q)
  <2>1. Encodes(script)
    BY SendableEncodes
  <2>2. pos' \in Nat
    BY <1>2
  <2> QED
    BY <1>2, <1>10, <2>1, <2>2 DEF Fed, CutOK, RxSound, TypeOK
<1> QED
  BY <1>2, <1>6, <1>8, <1>9, <1>11, <1>12 DEF q, chunk, w

LEMMA ReceiveCut ==
  ASSUME RxSound, Covered, CutOK, NEW n \in 1..feed.chunk, Receive(n),
         Bytewise => dropped = FALSE, ~dropped'
  PROVE  CutOK' /\ Onward
<1> DEFINE chunk == SubSeq(Wire(script), pos + 1, pos + n)
           q == rx_queue_ \o chunk
           base == pos - Len(rx_queue_)
<1>1. /\ Fed(q) /\ pos' - Len(q) = base
      /\ Len(q) = Len(rx_queue_) + n /\ n \in Nat /\ n >= 1
      /\ q \in Seq(Byte) /\ q[Len(q)] = chunk[n]
  BY FedChunk DEF Covered
<1>2. ISR_OnUARTData(chunk)
  BY DEF Receive
<1>3. Fits(q)
  BY <1>2 DEF ISR_OnUARTData, Overflow
<1>4. Len(rx_queue_) \in Nat /\ Len(q) \in Nat
  BY DEF RxSound, TypeOK
<1>5. Bytewise => n = 1
  BY <1>1 DEF Bytewise
<1>6. Placed(script, Bytewise, state_, rx_queue_, base, Len(dispatched),
             rx_data_address_, rx_data_length_)
  BY DEF CutOK
<1> HIDE DEF q, chunk, base
<1>7. Bytewise => Len(q) = Len(rx_queue_) + 1 /\ chunk[1] = q[Len(q)]
  BY <1>1, <1>5
<1>8. CASE state_ \in {"kNone", "kDetecting"} /\ OnDetecting(q)
  <2>1. pos' - Len(q) = Start
    BY <1>1, <1>6, <1>8 DEF Placed, Start
  <2>2. Bytewise => Len(q) <= 3
    BY <1>4, <1>6, <1>7, <1>8 DEF Placed, Prompt
  <2>3. Len(q) >= 1
    BY <1>1, <1>4
  <2> QED
    BY <1>1, <1>8, <2>1, <2>2, <2>3, DetectingCut
<1>9. CASE state_ = "kDataHeader" /\ OnDataHeader(q)
  <2>1. /\ Len(dispatched) < Len(script) /\ Current.type = "kData"
        /\ pos' - Len(q) = Start + 3
    BY <1>1, <1>6, <1>9 DEF Placed, Start, Current
  <2>2. Bytewise => Len(q) <= 6
    BY <1>4, <1>6, <1>7, <1>9 DEF Placed, Prompt
  <2> QED
    BY <1>1, <1>9, <2>1, <2>2, DataHeaderCut
<1>10. CASE state_ = "kDataContent" /\ OnDataContent(q)
  <2>1. /\ Len(dispatched) < Len(script) /\ Current.type = "kData"
        /\ pos' - Len(q) = Start + 9
        /\ rx_data_address_ = Current.from /\ rx_data_length_ = Len(Current.data)
    BY <1>1, <1>6, <1>10 DEF Placed, Start, Current
  <2>2. Bytewise => Len(q) <= Len(Current.data) + 2
    <3>1. rx_data_length_ \in Nat
      BY DEF RxSound, TypeOK, Byte
    <3>2. Bytewise => Len(rx_queue_) < rx_data_length_ + 2
      BY <1>6, <1>10 DEF Placed, Prompt
    <3> QED
      BY <1>4, <1>7, <2>1, <3>1, <3>2
  <2> QED
    BY <1>1, <1>10, <2>1, <2>2, DataContentCut
<1>11. CASE state_ = "kResult" /\ OnResult(q)
  <2>1. /\ Len(dispatched) < Len(script) /\ Current.type = "kResult"
        /\ pos' - Len(q) = Start
    BY <1>1, <1>6, <1>11 DEF Placed, Start, Current
  <2>2. Bytewise => Len(q) <= 4
    BY <1>4, <1>6, <1>7, <1>11 DEF Placed, Prompt
  <2> QED
    BY <1>1, <1>11, <2>1, <2>2, ResultCut
<1>12. CASE state_ = "kRawLine" /\ OnRawLine(chunk, q)
  <2>1. /\ Len(dispatched) < Len(script) /\ Current.type = "kLine"
        /\ pos' - Len(q) = Start /\ Bytewise /\ Len(rx_queue_) < Len(Current.line)
    BY <1>1, <1>6, <1>12 DEF Placed, Start, Current
  <2>2. Current.line \in Seq(Byte)
    BY <1>1, <2>1, CurrentPacket, LineEncoded
  <2>3. Len(q) <= Len(Current.line) /\ Len(q) >= 1
    BY <1>1, <1>4, <1>7, <2>1, <2>2
  <2> QED
    BY <1>1, <1>7, <1>12, <2>1, <2>3, RawLineCut
<1> QED
  BY <1>2, <1>3, <1>8, <1>9, <1>10, <1>11, <1>12 DEF ISR_OnUARTData, q

LEMMA StepCut ==
  ASSUME RxSound, CutInv, [Next]_vars
  PROVE  CutInv' /\ (Covered' => Onward)
<1>1. CASE UNCHANGED vars
  <2>1. CutOK <=> CutOK'
    BY <1>1 DEF vars, rxVars, CutOK, script, Bytewise
  <2>2. (Covered <=> Covered') /\ (Bytewise <=> Bytewise') /\ dropped' = dropped
    BY <1>1 DEF vars, rxVars, Covered, AllSendable, NoLines, script, Bytewise
  <2> QED
    BY <1>1, <2>1, <2>2 DEF vars, rxVars, Onward, CutInv
<1>2. ASSUME LoseByte PROVE ~Bytewise' /\ ~Covered'
  <2>1. feed' = feed /\ dropped' = TRUE /\ lost < feed.losses /\ lost \in Nat
    BY <1>2 DEF LoseByte, RxSound, TypeOK
  <2>2. ~(feed.losses = 0)
    BY <2>1
  <2>3. ~Bytewise
    BY <2>2 DEF Bytewise
  <2> QED
    BY <2>1, <2>3, FeedKept DEF Covered
<1>3. ASSUME NEW n \in 1..feed.chunk, Receive(n) PROVE CutInv' /\ (Covered' => Onward)
  <2>1. feed' = feed
    BY <1>3 DEF Receive
  <2>2. script' = script /\ (Bytewise' <=> Bytewise)
    BY <2>1, FeedKept
  <2>3. (AllSendable' <=> AllSendable) /\ (NoLines' <=> NoLines)
    BY <2>2 DEF AllSendable, NoLines
  <2>4. Bytewise => AllSendable
    BY DEF Bytewise, AllSendable
  <2>5. Bytewise => Covered /\ CutOK
    BY <2>4 DEF Covered, CutInv
  <2>6. Bytewise => ~dropped'
    <3> SUFFICES ASSUME Bytewise PROVE ~dropped'
      OBVIOUS
    <3> DEFINE chunk == SubSeq(Wire(script), pos + 1, pos + n)
               q == rx_queue_ \o chunk
    <3>1. Len(q) = Len(rx_queue_) + n /\ n = 1
      <4>1. n \in Nat /\ n = 1
        BY DEF Bytewise
      <4> QED
        BY <1>3, <2>4, <2>5, <4>1, FedChunk
    <3>2. Fits(q)
      BY <2>4, <2>5, <3>1, PromptBound DEF Fits
    <3>3. dropped' = dropped
      BY <1>3, <3>2 DEF Receive, ISR_OnUARTData
    <3> QED
      BY <3>3 DEF CutInv
  <2>7. ~dropped' => ~dropped
    BY <1>3 DEF Receive, ISR_OnUARTData, Overflow
  <2>8. ASSUME Covered' PROVE CutOK' /\ Onward
    <3>1. ~dropped'
      BY <2>2, <2>6, <2>8 DEF Covered
    <3>2. Covered
      BY <2>2, <2>3, <2>7, <2>8, <3>1 DEF Covered
    <3>3. CutOK /\ (Bytewise => dropped = FALSE)
      BY <3>2 DEF CutInv
    <3> QED
      BY <1>3, <3>1, <3>2, <3>3, ReceiveCut
  <2> QED
    BY <2>2, <2>6, <2>8 DEF CutInv
<1> QED
  BY <1>1, <1>2, <1>3 DEF Next, CutInv

LEMMA InitCut == Init => CutInv
<1> SUFFICES ASSUME Init PROVE CutInv
  OBVIOUS
<1>1. /\ pos = 0 /\ Len(rx_queue_) = 0 /\ rx_queue_ \in Seq(Byte)
      /\ Len(dispatched) = 0 /\ state_ = "kNone" /\ dropped = FALSE
  BY EmptySeq DEF Init
<1>2. script \in Seq(Packet) /\ Wire(script) \in Seq(Byte)
  BY FeedAssumption DEF Init, script
<1>3. EndOf(script, 0) = 0
  BY WireEmpty, EmptySeq DEF EndOf
<1>4. 0 <= Len(script) /\ 0 <= Len(Wire(script))
  BY <1>2
<1>5. OnWire(script, rx_queue_, pos - Len(rx_queue_))
  BY <1>1, <1>4 DEF OnWire
<1>6. Placed(script, Bytewise, state_, rx_queue_, pos - Len(rx_queue_), Len(dispatched),
             rx_data_address_, rx_data_length_)
  BY <1>1, <1>3 DEF Placed, Prompt
<1>7. CutOK
  BY <1>1, <1>4, <1>5, <1>6 DEF CutOK
<1> QED
  BY <1>1, <1>7 DEF CutInv

\* Of the packets of which the last byte has come, none is missing.
LEMMA PromptComplete ==
  ASSUME RxSound, CutInv, Bytewise
  PROVE  Len(dispatched) = Complete
<1> DEFINE k == Len(dispatched)
           done == {j \in 0..Len(script) : Len(Wire(SubSeq(script, 1, j))) <= pos}
<1>1. AllSendable
  BY DEF Bytewise, AllSendable
<1>2. CutOK
  BY <1>1 DEF CutInv, Covered
<1>3. Encodes(script) /\ Len(script) \in Nat /\ k \in Nat /\ k <= Len(script) /\ pos \in Nat
  BY <1>1, <1>2, SendableEncodes DEF Encodes, CutOK, RxSound, TypeOK
<1>4. \A j \in 0..Len(script) : EndOf(script, j) \in Nat
  BY <1>3, WireType DEF EndOf
<1>5. EndOf(script, k) <= pos
  <2>1. Placed(script, Bytewise, state_, rx_queue_, pos - Len(rx_queue_), k,
               rx_data_address_, rx_data_length_)
    BY <1>2 DEF CutOK
  <2>2. state_ \in RxState /\ Len(rx_queue_) \in Nat
    BY DEF RxSound, TypeOK
  <2>3. \/ pos - Len(rx_queue_) = EndOf(script, k)
        \/ pos - Len(rx_queue_) = EndOf(script, k) + 3
        \/ pos - Len(rx_queue_) = EndOf(script, k) + 9
    BY <2>1, <2>2 DEF Placed, RxState
  <2>4. EndOf(script, k) \in Nat
    BY <1>3, <1>4
  <2> HIDE DEF k
  <2> QED
    BY <1>3, <2>2, <2>3, <2>4
<1>6. \A j \in 0..Len(script) : j > k => EndOf(script, j) > pos
  <2> SUFFICES ASSUME NEW j \in 0..Len(script), j > k PROVE EndOf(script, j) > pos
    OBVIOUS
  <2>1. k < Len(script) /\ k + 1 \in 0..Len(script) /\ j \in k + 1..Len(script)
    BY <1>3
  <2>2. pos < EndOf(script, k + 1)
    BY <1>1, <1>2, <2>1, PromptBound
  <2>3. EndOf(script, k + 1) <= EndOf(script, j)
    BY <1>3, <2>1, WireAgrees
  <2>4. EndOf(script, k + 1) \in Nat /\ EndOf(script, j) \in Nat
    BY <1>4, <2>1
  <2> HIDE DEF k
  <2> QED
    BY <1>3, <2>2, <2>3, <2>4
<1> HIDE DEF k
<1>7. k \in done
  BY <1>3, <1>5 DEF EndOf
<1>8. \A j \in done : j <= k
  <2> SUFFICES ASSUME NEW j \in done, ~(j <= k) PROVE FALSE
    OBVIOUS
  <2>1. j \in 0..Len(script) /\ EndOf(script, j) <= pos
    BY DEF EndOf
  <2>2. j > k
    BY <1>3, <2>1
  <2>3. EndOf(script, j) > pos /\ EndOf(script, j) \in Nat
    BY <1>4, <1>6, <2>1, <2>2
  <2> QED
    BY <1>3, <2>1, <2>3
<1>9. Complete = CHOOSE c \in done : \A j \in done : j <= c
  BY DEF Complete
<1>10. done \subseteq Nat
  BY <1>3
<1> HIDE DEF done
<1>11. PICK c : c = Complete
  OBVIOUS
<1>12. c \in done /\ \A j \in done : j <= c
  BY <1>7, <1>8, <1>9, <1>11
<1>13. c <= k /\ k <= c /\ c \in Nat /\ k \in Nat
  BY <1>7, <1>8, <1>10, <1>12
<1> QED
  BY <1>11, <1>13 DEF k

LEMMA CutMeans == RxSound /\ CutInv => CutsAtPacketBoundaries
<1> SUFFICES ASSUME RxSound, CutInv PROVE CutsAtPacketBoundaries
  OBVIOUS
<1>1. ASSUME ~dropped, \A i \in DOMAIN script : Sendable(script[i]) /\ script[i].type # "kLine"
      PROVE  IsPrefix(dispatched, script)
  <2>1. CutOK
    BY <1>1 DEF CutInv, Covered, AllSendable, NoLines
  <2>2. /\ dispatched \in Seq(Packet) /\ script \in Seq(Packet)
        /\ Len(dispatched) \in Nat /\ Len(dispatched) <= Len(script) /\ Len(script) \in Nat
        /\ \A i \in 1..Len(dispatched) : dispatched[i] = script[i]
    BY <2>1, FeedAssumption DEF CutOK, RxSound, TypeOK, script
  <2> DEFINE begin == SubSeq(script, 1, Len(dispatched))
  <2>3. /\ begin \in Seq(Packet) /\ Len(begin) = Len(dispatched)
        /\ \A i \in 1..Len(dispatched) : begin[i] = script[i]
    BY <2>2
  <2> HIDE DEF begin
  <2>4. dispatched = begin
    BY <2>2, <2>3, SeqEqual
  <2>5. SubSeq(dispatched, 1, Len(dispatched)) = dispatched
    BY <2>2, SubSeqFull
  <2> QED
    BY <2>2, <2>4, <2>5 DEF IsPrefix, begin
<1>2. Bytewise => Len(dispatched) = Complete
  BY PromptComplete
<1> QED
  BY <1>1, <1>2 DEF CutsAtPacketBoundaries

\* Any chunking is cut into the packets sent; byte by byte, each at once.
THEOREM Cuts == Spec => []CutsAtPacketBoundaries
<1>1. RxSound /\ CutInv /\ [Next]_vars => CutInv'
  BY StepCut
<1> QED
  BY <1>1, InitCut, Sound, CutMeans, PTL DEF Spec

(***************************************************************************)
(* Fed byte by byte, the receiver implements the link: a step of the       *)
(* parser hands over the next packet or leaves the link as it is.          *)
(***************************************************************************)
THEOREM InOrder == Spec => LinkInOrder
<1>1. Init => Link!Init
  BY DEF Init, Link!Init
<1>2. RxSound /\ CutInv /\ [Next]_vars => [Link!Send \/ Link!Deliver]_Link!vars
  <2> SUFFICES ASSUME RxSound, CutInv, [Next]_vars
               PROVE  [Link!Send \/ Link!Deliver]_Link!vars
    OBVIOUS
  <2>1. feed' = feed
    BY DEF Next, Receive, LoseByte, vars
  <2>2. script' = script /\ (Bytewise' <=> Bytewise)
    BY <2>1, FeedKept
  <2>3. CASE ~Bytewise
    BY <2>2, <2>3 DEF Link!vars
  <2>4. CASE Bytewise
    <3>1. Onward
      <4>1. CutInv' /\ (Covered' => Onward)
        BY StepCut
      <4>2. Bytewise'
        BY <2>2, <2>4
      <4>3. Covered'
        BY <4>2 DEF Covered, AllSendable, Bytewise
      <4> QED
        BY <4>1, <4>3
    <3>2. CASE dispatched' = dispatched
      BY <2>2, <2>4, <3>2 DEF Link!vars
    <3>3. CASE /\ Len(dispatched) < Len(script)
               /\ dispatched' = Append(dispatched, script[Len(dispatched) + 1])
      BY <2>2, <2>4, <3>3 DEF Link!Deliver
    <3> QED
      BY <3>1, <3>2, <3>3 DEF Onward
  <2> QED
    BY <2>3, <2>4
<1>3. RxSound /\ CutInv /\ [Next]_vars => CutInv'
  BY StepCut
<1> QED
  BY <1>1, <1>2, <1>3, InitCut, Sound, PTL DEF Spec, LinkInOrder, Link!InOrder

(***************************************************************************)
(* A line that the modem sends whole and that is fed byte by byte is no    *)
(* longer than the packet under way (CutInv), hence than FEPRawLine, hence *)
(* shorter than the array.                                                 *)
(***************************************************************************)
LEMMA LineFitsStep == RxSound /\ CutInv /\ LineFitsArray /\ [Next]_vars => LineFitsArray'
<1> SUFFICES ASSUME RxSound, CutInv, LineFitsArray, [Next]_vars, Bytewise'
             PROVE  overrun' = "none"
  BY DEF LineFitsArray
<1>1. Bytewise' <=> Bytewise
  <2>1. feed' = feed
    BY DEF Next, Receive, LoseByte, vars
  <2> QED
    BY <2>1, FeedKept
<1>2. Covered'
  BY DEF Covered, AllSendable, Bytewise
<1>3. Onward
  BY <1>2, StepCut
<1> QED
  BY <1>1, <1>3 DEF Onward, LineFitsArray

\* Types, paired Enter/ExitProcessing, bounded payloads and lines.
THEOREM Safety == Spec => []ReceiverSound
<1>1. Init => LineFitsArray
  BY DEF Init, LineFitsArray
<1>2. RxSound /\ CutInv /\ [Next]_vars => CutInv'
  BY StepCut
<1>3. RxSound /\ LineFitsArray => ReceiverSound
  BY DEF RxSound, ReceiverSound
<1> QED
  BY <1>1, <1>2, <1>3, InitCut, LineFitsStep, Sound, PTL DEF Spec
=============================================================================
