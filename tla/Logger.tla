--------------------------------- MODULE Logger ---------------------------------
(***************************************************************************)
(* The logger (libs/logger), built with SYNC_PROTECT: GenericLogger        *)
(* formats a line into the scratch buffer all contexts share; a thread     *)
(* hands it to the sink, an interrupt pastes it into a ring of characters  *)
(* and queues where it is, and the logger thread prints what is queued.    *)
(*                                                                         *)
(* One core: a context runs only while none of a higher level is at work,  *)
(* threads (level 0) may interleave at every step.                         *)
(***************************************************************************)
EXTENDS Integers, Sequences, FiniteSetsExt

CONSTANTS Writers,   \* threads and interrupts that log
          Level,     \* the priority of each, 0 for threads
          RingSize,  \* kLogRingBufferSize
          MaxQueue,  \* kMaxLogLines
          TagLength, \* characters of a tag
          Lengths,   \* characters a formatted line may have
          HexSizes,  \* bytes given to Hex
          MaxLines   \* bound: lines logged in a behaviour

ASSUME LoggerAssumption ==
  /\ Level \in [Writers -> Nat]
  /\ RingSize \in Nat \ {0} /\ MaxQueue \in Nat /\ TagLength \in Nat /\ MaxLines \in Nat
  /\ Lengths \subseteq Nat /\ HexSizes \subseteq Nat

Line == 1..MaxLines

VARIABLES
  length,     \* characters of the message of each line formatted so far
  todo,       \* of each writer: the lines it still has to log in this call
  work,       \* of each writer: the line it is logging and how far it is
  scratch,    \* the line that was formatted last
  log_ring,   \* the character in each place: of which line, and which one
  log_head,   \* counted on and on; the code keeps it modulo the size
  reach,      \* history: the furthest log_head came
  log_queue,
  reader,     \* what the logger thread has popped and copied
  printed,    \* what the sink was given, in order
  dropped,    \* history: lines that found the queue full
  disturbed   \* history: lines that others logged in the middle of

writerVars == <<length, todo, work, scratch>>
ringVars == <<log_ring, log_head, reach>>
logVars == <<writerVars, ringVars, log_queue, reader, printed, dropped, disturbed>>

Idle == [step |-> "idle"]
Nothing == [line |-> 0]
Tag(n) == [i \in 1..TagLength |-> <<n, "tag", i>>]
Message(n) == [i \in 1..length[n] |-> <<n, "msg", i>>]

Busy(w) == work[w] # Idle
InNonWaitableContext(w) == Level[w] > 0
Runs(level) == \A w \in Writers : Busy(w) => Level[w] <= level
At(w, step) == work[w].step = step /\ Runs(Level[w])

Calling(w) == At(w, "idle") /\ todo[w] = <<>> /\ Len(length) < MaxLines

\* Info, Error and the others: one line.
Log(w) ==
  /\ Calling(w)
  /\ \E k \in Lengths : todo' = [todo EXCEPT ![w] = <<k>>]
  /\ UNCHANGED <<length, work, scratch, ringVars, log_queue, reader, printed,
                 dropped, disturbed>>

\* Hex: a line for every 16 bytes and one more, which may be empty.
Hex(w) ==
  /\ Calling(w)
  /\ \E size \in HexSizes \ {0} :
       todo' = [todo EXCEPT ![w] =
                  [i \in 1..(size \div 16) + 1 |->
                     IF i <= size \div 16 THEN 16 ELSE size % 16]]
  /\ UNCHANGED <<length, work, scratch, ringVars, log_queue, reader, printed,
                 dropped, disturbed>>

\* Every context formats into the same buffer.
Format(w) ==
  /\ At(w, "idle") /\ todo[w] # <<>> /\ Len(length) < MaxLines
  /\ LET n == Len(length) + 1
         under == {v \in Writers : Busy(v)}
     IN  /\ length' = Append(length, Head(todo[w]))
         /\ work' = [work EXCEPT ![w] = [step |-> "log", line |-> n]]
         /\ scratch' = n
         /\ disturbed' = disturbed \cup {work[v].line : v \in under}
              \cup (IF \E v \in under : InNonWaitableContext(v) THEN {n} ELSE {})
  /\ todo' = [todo EXCEPT ![w] = Tail(@)]
  /\ UNCHANGED <<ringVars, log_queue, reader, printed, dropped>>

\* core::Log of a thread gives the buffer to the sink.
LogDirectly(w) ==
  /\ At(w, "log") /\ ~InNonWaitableContext(w)
  /\ printed' = Append(printed, [line |-> work[w].line, late |-> FALSE,
                                 text |-> Tag(work[w].line) \o Message(scratch)])
  /\ work' = [work EXCEPT ![w] = Idle]
  /\ UNCHANGED <<length, todo, scratch, ringVars, log_queue, reader, dropped, disturbed>>

\* slip: log_head stays one short
SlipPasted(start, text) ==
  /\ log_ring' = [p \in 0..RingSize - 1 |->
                    LET hits == {i \in 1..Len(text) : (start + i - 1) % RingSize = p}
                    IN  IF hits = {} THEN log_ring[p] ELSE text[Max(hits)]]
  /\ log_head' = start + Len(text) - 1
  /\ reach' = Max({reach, start + Len(text)})

(***************************************************************************)
(* PasteToRing reads log_head, as start; then it writes the text from      *)
(* there on and sets log_head behind it.                                   *)
(***************************************************************************)
Pasted(start, text) ==
  /\ log_ring' = [p \in 0..RingSize - 1 |->
                    LET hits == {i \in 1..Len(text) : (start + i - 1) % RingSize = p}
                    IN  IF hits = {} THEN log_ring[p] ELSE text[Max(hits)]]
  /\ log_head' = start + Len(text)
  /\ reach' = Max({reach, start + Len(text)})

\* core::Log of an interrupt makes a LogLine, which pastes the tag ...
BeginTag(w) ==
  /\ At(w, "log") /\ InNonWaitableContext(w)
  /\ work' = [work EXCEPT ![w] = [step |-> "tag", line |-> @.line, tag |-> log_head,
                                  size |-> length[scratch]]]
  /\ UNCHANGED <<length, todo, scratch, ringVars, log_queue, reader, printed,
                 dropped, disturbed>>

PasteTag(w) ==
  /\ At(w, "tag")
  /\ Pasted(work[w].tag, Tag(work[w].line))
  /\ work' = [work EXCEPT ![w].step = "between"]
  /\ UNCHANGED <<length, todo, scratch, log_queue, reader, printed, dropped, disturbed>>

\* ... and then the message: as many characters as it had when core::Log began.
BeginMessage(w) ==
  /\ At(w, "between")
  /\ work' = [work EXCEPT ![w] = [step |-> "message", line |-> @.line, tag |-> @.tag,
                                  size |-> @.size, msg |-> log_head]]
  /\ UNCHANGED <<length, todo, scratch, ringVars, log_queue, reader, printed,
                 dropped, disturbed>>

PasteMessage(w) ==
  /\ At(w, "message")
  /\ Pasted(work[w].msg, [i \in 1..work[w].size |-> <<scratch, "msg", i>>])
  /\ work' = [work EXCEPT ![w].step = "push"]
  /\ UNCHANGED <<length, todo, scratch, log_queue, reader, printed, dropped, disturbed>>

\* PushLine: a full queue refuses the line, and nobody hears of it.
PushLine(w) ==
  /\ At(w, "push")
  /\ \/ /\ Len(log_queue) < MaxQueue
        /\ log_queue' = Append(log_queue, work[w])
        /\ UNCHANGED dropped
     \/ /\ Len(log_queue) >= MaxQueue
        /\ dropped' = dropped \cup {work[w].line}
        /\ UNCHANGED log_queue
  /\ work' = [work EXCEPT ![w] = Idle]
  /\ UNCHANGED <<length, todo, scratch, ringVars, reader, printed, disturbed>>

UseLine(start, size) == [i \in 1..size |-> log_ring[(start + i - 1) % RingSize]]

\* slip: the last line waits for the next one
SlipHasLine == Len(log_queue) > 1

HasLine == log_queue # <<>>

\* LoggerProcess pops a line and copies its tag ...
PopLine ==
  /\ Runs(0) /\ reader = Nothing /\ HasLine
  /\ LET l == Head(log_queue)
     IN  reader' = [line |-> l.line, queued |-> l, tag |-> UseLine(l.tag, TagLength)]
  /\ log_queue' = Tail(log_queue)
  /\ UNCHANGED <<writerVars, ringVars, printed, dropped, disturbed>>

\* ... then its message, and gives both to the sink.
PrintLine ==
  /\ Runs(0) /\ reader # Nothing
  /\ LET l == reader.queued
     IN  printed' = Append(printed, [line |-> l.line, late |-> reach > l.tag + RingSize,
                                     text |-> reader.tag \o UseLine(l.msg, l.size)])
  /\ reader' = Nothing
  /\ UNCHANGED <<writerVars, ringVars, log_queue, dropped, disturbed>>

LoggerProcess == PopLine \/ PrintLine

\* Init clears the queue.
LogInit ==
  /\ length = <<>> /\ scratch = 0
  /\ todo = [w \in Writers |-> <<>>]
  /\ work = [w \in Writers |-> Idle]
  /\ log_ring = [p \in 0..RingSize - 1 |-> <<0, "none", 0>>]
  /\ log_head = 0 /\ reach = 0
  /\ log_queue = <<>> /\ reader = Nothing /\ printed = <<>>
  /\ dropped = {} /\ disturbed = {}

Proceed(w) == \/ Format(w) \/ LogDirectly(w) \/ BeginTag(w) \/ PasteTag(w)
              \/ BeginMessage(w) \/ PasteMessage(w) \/ PushLine(w)

LogNext == LoggerProcess \/ \E w \in Writers : Log(w) \/ Hex(w) \/ Proceed(w)

LogSpec == LogInit /\ [][LogNext]_logVars

\* What has begun goes on: an interrupt returns, a thread gets its turn.
LogFairness == WF_logVars(LoggerProcess) /\ \A w \in Writers : WF_logVars(Proceed(w))

-----------------------------------------------------------------------------
(***************************************************************************)
(* A line reaches the sink whole, tag and message, with two excuses: some  *)
(* context logged while it was being logged, or more characters than the   *)
(* ring holds were pasted since it was.                                    *)
(***************************************************************************)
LinesIntact ==
  \A i \in DOMAIN printed :
    LET p == printed[i]
    IN  p.line \notin disturbed /\ ~p.late => p.text = Tag(p.line) \o Message(p.line)

(***************************************************************************)
(* Every line that is logged reaches the sink, unless the queue was full.  *)
(***************************************************************************)
LinesPrinted ==
  \A n \in Line :
    n \in DOMAIN length ~> n \in dropped \/ \E i \in DOMAIN printed : printed[i].line = n
=============================================================================
