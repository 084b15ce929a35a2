----------------------------- MODULE MCCanLink -----------------------------
(* One robot; a keep-alive, and a ping of another of the sixteen devices.  *)
EXTENDS CanLink

MCIds == {KeepAliveId, PingId + 3}
=============================================================================
