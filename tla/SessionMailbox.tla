--------------------------- MODULE SessionMailbox ---------------------------
(***************************************************************************)
(* What a session promises to those who send it commands: a command is     *)
(* settled once, by an answer or a refusal; a query is answered only after *)
(* the SDK has worked on it, one query at a time.                          *)
(***************************************************************************)
CONSTANTS Query, Order  \* the commands that take a turn, and the others

Command == Query \cup Order

VARIABLE phase

Init == phase = [c \in Command |-> "new"]

Post(c) ==
  /\ phase[c] = "new"
  /\ \E now \in {"waiting", "refused"} : phase' = [phase EXCEPT ![c] = now]

Begin(c) ==
  /\ c \in Query
  /\ phase[c] = "waiting"
  /\ \A q \in Query : phase[q] # "turn"
  /\ phase' = [phase EXCEPT ![c] = "turn"]

Answerable == {c \in Command : phase[c] = "turn" \/ (phase[c] = "waiting" /\ c \in Order)}
Unsettled == {c \in Command : phase[c] \in {"waiting", "turn"}}

Settle(answered, refused) ==
  phase' = [c \in Command |->
    IF c \in refused THEN "refused" ELSE IF c \in answered THEN "answered" ELSE phase[c]]

Next ==
  \/ \E c \in Command : Post(c) \/ Begin(c)
  \/ \E answered \in SUBSET Answerable, refused \in SUBSET Unsettled : Settle(answered, refused)

Spec == Init /\ [][Next]_phase
=============================================================================
