----------------------------- MODULE UsageLedger -----------------------------
(***************************************************************************)
(* The ledger of provider calls: the rows of the "api_calls" table and the *)
(* transactions of UsageRepository on them.  A row is named by its place   *)
(* in the order of the INSERTs (its autoincrement id); of its columns only *)
(* the status is kept, and, for the cost, which provider job's result it   *)
(* was computed from.                                                      *)
(***************************************************************************)
EXTENDS Naturals, Sequences

NoCall == 0
NoJob == 0

VARIABLE calls

Settled == {"success", "failed"}

CallRow == [status : {"pending"} \cup Settled, job : Nat]

StartCall == calls' = Append(calls, [status |-> "pending", job |-> NoJob])

\* The UPDATE of finish_call has no condition on the status.
FinishCall(c, outcome, job) ==
  calls' = [calls EXCEPT ![c] = [status |-> outcome, job |-> job]]

\* Mutant: the resume's UPDATE without its status = 'pending'.
FinalizeAnyCall(c, outcome, job) ==
  IF c = NoCall THEN UNCHANGED calls ELSE FinishCall(c, outcome, job)

\* A resumed task whose payload names no call settles none.
FinalizePendingCall(c, outcome, job) ==
  IF c # NoCall /\ calls[c].status = "pending"
  THEN FinishCall(c, outcome, job)
  ELSE UNCHANGED calls

Pending == {c \in DOMAIN calls : calls[c].status = "pending"}
=============================================================================
