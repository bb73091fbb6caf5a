--------------------------- MODULE MCMediaExecution ---------------------------
(* Small instances of MediaExecution for TLC. *)
EXTENDS MediaExecution
=============================================================================
