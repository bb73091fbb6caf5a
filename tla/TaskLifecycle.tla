--------------------------- MODULE TaskLifecycle ---------------------------
(***************************************************************************)
(* What the task queue promises to those who submit work, without the      *)
(* database sessions, the snapshots they read and the attribution of a     *)
(* cancellation: a key has one live task at a time, a task is worked on    *)
(* only after the task it depends on is done, what is over stays over, and *)
(* a task that dies takes with it, in the same step, every waiting task    *)
(* below it.                                                               *)
(***************************************************************************)
EXTENDS Integers

CONSTANTS Row, NoRow, Key, NoKey

VARIABLES phase, key, dep

vars == <<phase, key, dep>>

Live == {"waiting", "working", "stopping"}

Working == {t \in Row : phase[t] = "working"}
Alive == {t \in Row : phase[t] \in Live}

Init ==
  /\ phase = [t \in Row |-> "absent"]
  /\ key = [t \in Row |-> NoKey]
  /\ dep = [t \in Row |-> NoRow]

Submit(t) ==
  /\ phase[t] = "absent"
  /\ phase' = [phase EXCEPT ![t] = "waiting"]
  /\ \E k \in Key : /\ \A r \in Alive : key[r] # k
                    /\ key' = [key EXCEPT ![t] = k]
  /\ \E d \in Row \cup {NoRow} : dep' = [dep EXCEPT ![t] = d]

Move(S, from, to) ==
  /\ \A t \in S : phase[t] = from
  /\ phase' = [t \in Row |-> IF t \in S THEN to ELSE phase[t]]
  /\ UNCHANGED <<key, dep>>

Begin(t) == (dep[t] = NoRow \/ phase[dep[t]] = "done") /\ Move({t}, "waiting", "working")
Finish(t) == Move({t}, "working", "done")
AskToStop(t) == Move({t}, "working", "stopping")
PutBack(S) == Move(S, "working", "waiting")

Perish(S) ==
  /\ \A t \in Row : phase[t] = "waiting" /\ dep[t] \in S => t \in S
  /\ phase' = [t \in Row |-> IF t \in S THEN "dead" ELSE phase[t]]
  /\ UNCHANGED <<key, dep>>

Next ==
  \/ \E t \in Row : Submit(t) \/ Begin(t) \/ Finish(t) \/ AskToStop(t)
  \/ \E S \in SUBSET Working : PutBack(S)
  \/ \E S \in SUBSET Alive : Perish(S)

Spec == Init /\ [][Next]_vars
=============================================================================
