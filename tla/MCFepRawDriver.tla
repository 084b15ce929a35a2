--------------------------- MODULE MCFepRawDriver ---------------------------
(* Instances of FepRawDriver: the callers are model values.                *)
EXTENDS FepRawDriver

CONSTANTS app, rep   \* the application's thread and REP's transmit thread
=============================================================================
