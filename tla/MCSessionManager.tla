--------------------------- MODULE MCSessionManager ---------------------------
(* Small instances of SessionManager for TLC. *)
EXTENDS SessionManager, TLC

\* Requests are interchangeable.
Symmetry == Permutations(Callers)
=============================================================================
