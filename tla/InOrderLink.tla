---------------------------- MODULE InOrderLink ----------------------------
(***************************************************************************)
(* What a queue or a link promises to the layer above it: of the messages  *)
(* put in, in the order they are put in, each is handed over once,         *)
(* unchanged, and none is skipped.  It says nothing of buffers, bytes or   *)
(* threads.  FepRx implements it when bytes arrive one by one, Rep for the *)
(* replies of a node that only answers.                                    *)
(***************************************************************************)
EXTENDS Naturals, Sequences

VARIABLES sent,       \* the messages put in, in order
          delivered   \* the messages handed over, in order

vars == <<sent, delivered>>

Init == delivered = <<>>

Send == /\ Len(sent') = Len(sent) + 1
        /\ SubSeq(sent', 1, Len(sent)) = sent
        /\ UNCHANGED delivered

Deliver == /\ Len(delivered) < Len(sent)
           /\ delivered' = Append(delivered, sent[Len(delivered) + 1])
           /\ UNCHANGED sent

InOrder == Init /\ [][Send \/ Deliver]_vars

Spec == InOrder /\ WF_vars(Deliver)
=============================================================================
