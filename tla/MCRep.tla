-------------------------------- MODULE MCRep --------------------------------
(* Instances of Rep.                                                       *)
EXTENDS Rep
=============================================================================
