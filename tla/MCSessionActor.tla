--------------------------- MODULE MCSessionActor ---------------------------
(* Small instances of SessionActor for TLC. *)
EXTENDS SessionActor
=============================================================================
