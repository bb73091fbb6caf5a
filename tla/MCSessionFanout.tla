--------------------------- MODULE MCSessionFanout ---------------------------
(* Small instances of SessionFanout for TLC. *)
EXTENDS SessionFanout
=============================================================================
