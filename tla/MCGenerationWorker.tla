------------------------- MODULE MCGenerationWorker -------------------------
(* Small instances of GenerationWorker for TLC. *)
EXTENDS GenerationWorker, TLC

CONSTANTS k1, k2, image, video, w1, w2, s1

OnImage == [k \in Key |-> image]
OnVideo == [k \in Key |-> video]
InWorker == [s \in Session |-> w1]
InBridge == [s \in Session |-> NoWorker]
Symmetric == Permutations(Worker)
OneEach == {[l \in Lane |-> 1]}
ZeroOrOne == {[l \in Lane |-> n] : n \in 0 .. 1}
=============================================================================
