------------------------------ MODULE MCFRoute ------------------------------
(* Three nodes in a line, which a move may close to a triangle; 3 sends to *)
(* 1, which is not its neighbour at first, and 1 sends back.               *)
EXTENDS FRoute

MCLine == {{<<1, 2>>, <<2, 1>>, <<2, 3>>, <<3, 2>>}}
MCFlows == {<<3, 1>>, <<1, 3>>}
=============================================================================
