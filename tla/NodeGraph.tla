----------------------------- MODULE NodeGraph -----------------------------
(***************************************************************************)
(* The graph of Node<bool> objects of a program (node.hpp) with one EMC    *)
(* (emc.hpp), the emergency stop that several places can pull.             *)
(*                                                                         *)
(* SetValue calls the callbacks and the linked nodes of the node, one      *)
(* inside the other, on the thread that called it, and nothing is locked.  *)
(* todo holds, for every thread, the calls it has still to make; each is   *)
(* one step, between which the other threads run.                          *)
(***************************************************************************)
EXTENDS Integers, Sequences, SequencesExt

CONSTANTS Thread,
          Node,
          Links,       \* linked_inputs_ of each node
          EmcInputs,   \* emc_nodes
          Output,      \* EMC::output
          Shared       \* nodes with a second callback, OnChanged

ASSUME GraphAssumption ==
  /\ Links \in [Node -> Seq(Node)] /\ EmcInputs \in Seq(Node)
  /\ Output \in Node /\ Shared \subseteq Node

VARIABLES value,   \* value_ of each node
          todo

-----------------------------------------------------------------------------
SetValue(n, v) == [do |-> "SetValue", node |-> n, v |-> v]
Link(n, m)     == [do |-> "Link", node |-> n, input |-> m]
OnChanged(n)   == [do |-> "OnChanged", node |-> n]
UpdateOutput   == [do |-> "UpdateOutput"]

Place == ToSet(EmcInputs)

Callbacks(n) ==
  (IF n \in Place THEN <<UpdateOutput>> ELSE <<>>)
    \o (IF n \in Shared THEN <<OnChanged(n)>> ELSE <<>>)

Propagate(n) == Callbacks(n) \o [i \in 1..Len(Links[n]) |-> Link(n, Links[n][i])]

\* Thread t has something to do next, of the given kind.
Doing(t, kind) == todo[t] # <<>> /\ Head(todo[t]).do = kind

\* The call at the head of t's todo is replaced by the calls it makes.
Becomes(t, calls) == todo' = [todo EXCEPT ![t] = calls \o Tail(@)]

\* slip: the new value is kept, but only a rising one is passed on
SlipAssign(t, n, v) ==
  /\ value' = [value EXCEPT ![n] = v]
  /\ Becomes(t, IF v /\ ~value[n] THEN Propagate(n) ELSE <<>>)

Assign(t, n, v) ==
  /\ value' = [value EXCEPT ![n] = v]
  /\ Becomes(t, IF v # value[n] THEN Propagate(n) ELSE <<>>)

DoSetValue(t) ==
  /\ Doing(t, "SetValue")
  /\ Assign(t, Head(todo[t]).node, Head(todo[t]).v)

\* A linked node is set to what the value is by then.
DoLink(t) ==
  /\ Doing(t, "Link")
  /\ Assign(t, Head(todo[t]).input, value[Head(todo[t]).node])

DoUpdateOutput(t) ==
  /\ Doing(t, "UpdateOutput")
  /\ Becomes(t, <<SetValue(Output, \A n \in Place : value[n])>>)
  /\ UNCHANGED value

GraphStep(t) == DoSetValue(t) \/ DoLink(t) \/ DoUpdateOutput(t)
=============================================================================
