----------------------------- MODULE MCFepDriver -----------------------------
(* Two configured registers, one of them besides the baud rate register.   *)
EXTENDS FepDriver, TLC

MCConfigured == (7 :> 1) @@ (2 :> 2)
=============================================================================
