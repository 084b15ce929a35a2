------------------------------ MODULE MCFepRx ------------------------------
(* Feeds for FepRx: payloads that contain framing bytes, both kinds of     *)
(* result, register lines, a line as long as the queue, and a payload the  *)
(* queue can never hold; byte by byte, or in chunks of up to twelve,       *)
(* without or with the loss of a byte.                                     *)
EXTENDS FepRx

d0 == Data(12, <<>>)
d1 == Data(7, <<82, 66, 78>>)
d2 == Data(201, <<13, 10>>)
p0 == Result(TRUE, 0)
n1 == Result(FALSE, 1)
l1 == Line(<<70, 65, 72, 13, 10>>)
l2 == Line(<<82, 66, 13, 10>>)
endless == [type |-> "kLine", line |-> [i \in 1..15 |-> 70] \o <<10>>]
long == Data(1, [i \in 1..16 |-> 65])

MixedScript == [1..3 -> {d1, d2, p0, n1, l1, l2}]
Clean == [1..2 -> {d0, d1, d2, p0, n1}] \cup {<<d1, p0, n1>>, <<p0, p0, n1, d1>>}
Noisy == {<<d1, d2>>, <<p0, d0, d1>>, <<long, p0, p0>>, <<l1, p0, d1>>}

MCFeeds == [script : MixedScript, chunk : {1}, losses : {0}]
             \cup [script : Clean, chunk : {12}, losses : {0}]
             \cup [script : Noisy, chunk : {8}, losses : {1}]
             \cup [script : {<<endless, p0>>, <<p0, endless>>}, chunk : {1}, losses : {1}]
=============================================================================
