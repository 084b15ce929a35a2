--------------------------------- MODULE SspKv ---------------------------------
(***************************************************************************)
(* KVService of SSP (ssp/kv.hpp) and the keys of IdentitiyService: a node  *)
(* asks another for the value of a key and waits for the answer.           *)
(*                                                                         *)
(* Each node has two threads: the application calls GetRemote, the         *)
(* receiver answers requests and queues answers.  They share tx_buffer and *)
(* the queue, and what is queued is a pointer to the bytes of the packet,  *)
(* where the next packet is received too.                                  *)
(***************************************************************************)
EXTENDS Integers, Sequences

CONSTANTS Nodes,
          Ids,       \* keys a caller may ask for
          kv_callbacks_, \* of each node: the length of the value of each of its keys
          MaxQueue,  \* slots of rx_buffer
          MaxCalls,  \* bound: calls of GetRemote by each node
          MaxLost    \* bound: packets lost on the air

ASSUME KvAssumption ==
  /\ MaxQueue \in Nat /\ MaxCalls \in Nat /\ MaxLost \in Nat
  /\ \A n \in Nodes : kv_callbacks_[n] \in [DOMAIN kv_callbacks_[n] -> Nat \ {0}]

VARIABLES
  air,        \* of each node: the packets under way to it
  packet,     \* of each node: what its receive buffer holds
  rx_buffer,  \* of each node: lengths of the answers queued, and whether the
              \* bytes they point to are still theirs
  tx_buffer,  \* of each node: the key and the value last written to it
  receiver,   \* of each node: the answer its receiver is about to send
  app,        \* of each node: where its application is in GetRemote
  answer,     \* of each node: what GetRemote returned last
  calls,      \* of each node: calls made so far
  lost,       \* packets lost so far
  garbled,    \* history: a call wrote its key over an answer not yet sent
  misnamed,   \* history: an answer was written over a key not yet sent
  overwritten \* history: a packet arrived over an answer that was still queued

kvVars == <<air, packet, rx_buffer, tx_buffer, receiver, app, answer, calls,
            lost, garbled, misnamed, overwritten>>

None == <<>>
Value(n, id) == <<n, id>>
Idle == [step |-> "idle"]

Put(to, p) == air' = [air EXCEPT ![to] = Append(@, p)]

-----------------------------------------------------------------------------
\* GetRemote writes the key ...
GetRemote(n) ==
  /\ app[n] = Idle /\ calls[n] < MaxCalls
  /\ \E to \in Nodes \ {n}, id \in Ids :
       /\ app' = [app EXCEPT ![n] = [step |-> "named", to |-> to, id |-> id]]
       /\ tx_buffer' = [tx_buffer EXCEPT ![n].id = id]
  /\ calls' = [calls EXCEPT ![n] = @ + 1]
  /\ answer' = [answer EXCEPT ![n] = None]
  /\ garbled' = (garbled \/ receiver[n] # Idle)
  /\ UNCHANGED <<air, packet, rx_buffer, receiver, lost, misnamed, overwritten>>

\* ... and sends the first byte of the buffer.
Request(n) ==
  /\ app[n].step = "named"
  /\ Put(app[n].to, [from |-> n, id |-> tx_buffer[n].id, value |-> None, len |-> 1])
  /\ app' = [app EXCEPT ![n].step = "wait"]
  /\ UNCHANGED <<packet, rx_buffer, tx_buffer, receiver, answer, calls, lost,
                 garbled, misnamed, overwritten>>

\* slip: the key of the answer is not compared
SlipIsAnswer(n, res) == res.len > 3

\* slip: the least length is too great
SlipLength(n, res) == res.len > 6 /\ packet[n].id = app[n].id

\* At least three bytes behind the key, and the key asked for.
IsAnswer(n, res) == res.len > 3 /\ packet[n].id = app[n].id

\* The caller gets a pointer to the bytes and their number.
TakeAnswer(n) ==
  /\ app[n].step = "wait" /\ rx_buffer[n] # <<>>
  /\ LET res == Head(rx_buffer[n])
     IN  /\ IsAnswer(n, res)
         /\ answer' = [answer EXCEPT ![n] = [to |-> app[n].to, id |-> app[n].id,
                         value |-> packet[n].value, len |-> res.len - 1, own |-> res.own]]
  /\ rx_buffer' = [rx_buffer EXCEPT ![n] = Tail(@)]
  /\ app' = [app EXCEPT ![n] = Idle]
  /\ UNCHANGED <<air, packet, tx_buffer, receiver, calls, lost, garbled,
                 misnamed, overwritten>>

TakeOther(n) ==
  /\ app[n].step = "wait" /\ rx_buffer[n] # <<>>
  /\ LET res == Head(rx_buffer[n])
     IN  /\ ~IsAnswer(n, res)
         /\ app' = [app EXCEPT ![n] = [step |-> "back", to |-> @.to, id |-> @.id, res |-> res]]
  /\ rx_buffer' = [rx_buffer EXCEPT ![n] = Tail(@)]
  /\ UNCHANGED <<air, packet, tx_buffer, receiver, answer, calls, lost, garbled,
                 misnamed, overwritten>>

Pushed(q, e) == IF Len(q) < MaxQueue THEN Append(q, e) ELSE q

\* What is not the answer goes to the back of the queue, to be looked at again.
PutBack(n) ==
  /\ app[n].step = "back"
  /\ rx_buffer' = [rx_buffer EXCEPT ![n] = Pushed(@, app[n].res)]
  /\ app' = [app EXCEPT ![n] = [step |-> "wait", to |-> @.to, id |-> @.id]]
  /\ UNCHANGED <<air, packet, tx_buffer, receiver, answer, calls, lost, garbled,
                 misnamed, overwritten>>

-----------------------------------------------------------------------------
\* OnReceive_Request: nobody answers for a key that is not known.
OnReceive_Request(n, p) ==
  /\ p.len = 1
  /\ IF p.id \in DOMAIN kv_callbacks_[n]
       THEN /\ tx_buffer' = [tx_buffer EXCEPT ![n] = [id |-> p.id, value |-> Value(n, p.id)]]
            /\ receiver' = [receiver EXCEPT ![n] =
                 [step |-> "answer", to |-> p.from, len |-> kv_callbacks_[n][p.id] + 1]]
            /\ misnamed' = (misnamed \/ app[n].step = "named")
       ELSE UNCHANGED <<tx_buffer, receiver, misnamed>>

OnReceive_Responce(p) == p.len > 1 /\ UNCHANGED <<tx_buffer, receiver, misnamed>>

\* What is queued or held keeps its place and its length, not its bytes.
Gone(e) == [e EXCEPT !.own = FALSE]
Older(n) == [i \in DOMAIN rx_buffer[n] |-> Gone(rx_buffer[n][i])]

Receive(n) ==
  /\ receiver[n] = Idle /\ air[n] # <<>>
  /\ LET p == Head(air[n])
     IN  /\ OnReceive_Request(n, p) \/ OnReceive_Responce(p)
         /\ packet' = [packet EXCEPT ![n] = p]
         /\ rx_buffer' = [rx_buffer EXCEPT ![n] =
              IF p.len > 1 THEN Pushed(Older(n), [len |-> p.len, own |-> TRUE]) ELSE Older(n)]
  /\ app' = IF app[n].step = "back" THEN [app EXCEPT ![n].res = Gone(@)] ELSE app
  /\ overwritten' = (overwritten \/ rx_buffer[n] # <<>> \/ app[n].step = "back")
  /\ air' = [air EXCEPT ![n] = Tail(@)]
  /\ UNCHANGED <<answer, calls, lost, garbled>>

\* The answer is the buffer as it is by now, with the length of the value.
Answer(n) ==
  /\ receiver[n] # Idle
  /\ Put(receiver[n].to, [from |-> n, id |-> tx_buffer[n].id,
                          value |-> tx_buffer[n].value, len |-> receiver[n].len])
  /\ receiver' = [receiver EXCEPT ![n] = Idle]
  /\ UNCHANGED <<packet, rx_buffer, tx_buffer, app, answer, calls, lost, garbled,
                 misnamed, overwritten>>

Lose(n) ==
  /\ lost < MaxLost /\ air[n] # <<>>
  /\ lost' = lost + 1
  /\ air' = [air EXCEPT ![n] = Tail(@)]
  /\ UNCHANGED <<packet, rx_buffer, tx_buffer, receiver, app, answer, calls,
                 garbled, misnamed, overwritten>>

KvInit ==
  /\ air = [n \in Nodes |-> <<>>]
  /\ packet = [n \in Nodes |-> None]
  /\ rx_buffer = [n \in Nodes |-> <<>>]
  /\ tx_buffer = [n \in Nodes |-> [id |-> 0, value |-> None]]
  /\ receiver = [n \in Nodes |-> Idle]
  /\ app = [n \in Nodes |-> Idle]
  /\ answer = [n \in Nodes |-> None]
  /\ calls = [n \in Nodes |-> 0]
  /\ lost = 0 /\ garbled = FALSE /\ misnamed = FALSE /\ overwritten = FALSE

AppStep(n) == Request(n) \/ TakeAnswer(n) \/ TakeOther(n) \/ PutBack(n)
ReceiverStep(n) == Receive(n) \/ Answer(n)

KvNext == \E n \in Nodes : GetRemote(n) \/ AppStep(n) \/ ReceiverStep(n) \/ Lose(n)

KvSpec == KvInit /\ [][KvNext]_kvVars

KvFairness == \A n \in Nodes : WF_kvVars(AppStep(n)) /\ WF_kvVars(ReceiverStep(n))

-----------------------------------------------------------------------------
(***************************************************************************)
(* GetRemote returns the whole value that the node asked has for the key   *)
(* asked, unless a call wrote its key over an answer that was about to be  *)
(* sent, or a packet arrived before the answer was looked at.  A call      *)
(* whose own key was written over asks for another one: it does not take   *)
(* the answer for its own.                                                 *)
(***************************************************************************)
AnswersMatch ==
  \A n \in Nodes :
    answer[n] # None /\ answer[n].own /\ ~garbled =>
      /\ answer[n].value = Value(answer[n].to, answer[n].id)
      /\ answer[n].len = kv_callbacks_[answer[n].to][answer[n].id]

\* What GetRemote waits for can come: the key is known, its value long enough.
Answerable(c) ==
  c.id \in DOMAIN kv_callbacks_[c.to] /\ kv_callbacks_[c.to][c.id] >= 3

(***************************************************************************)
(* GetRemote has no timeout.  It returns all the same when the key is      *)
(* known to the node asked, its value has three bytes or more, nothing is  *)
(* lost, the buffers are not written over and no packet comes between.     *)
(***************************************************************************)
GetRemoteReturns ==
  \A n \in Nodes :
    (app[n] # Idle /\ Answerable(app[n]))
      ~> (app[n] = Idle \/ lost > 0 \/ garbled \/ misnamed \/ overwritten)
=============================================================================
