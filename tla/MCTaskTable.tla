---------------------------- MODULE MCTaskTable ----------------------------
(* Small instances of TaskTable for TLC.  With one lane the keys are alike. *)
EXTENDS TaskTable, TLC

CONSTANT video

MCLaneOf == [k \in Key |-> video]
Symmetric == {f @@ g : f \in Permutations(Session), g \in Permutations(Key)}
=============================================================================
