---------------------------- MODULE MCDesktopQueue ----------------------------
(* A small instance of DesktopQueue for TLC. *)
EXTENDS DesktopQueue

CONSTANTS k1, k2, video, w1, w2, s1, c1

OnVideo == [k \in Key |-> video]
InBridge == [s \in Session |-> NoWorker]
OneEach == {[l \in Lane |-> 1]}
=============================================================================
