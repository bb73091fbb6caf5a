----------------------------- MODULE TaskTable -----------------------------
(***************************************************************************)
(* The task queue as its database sees it: sessions of the API process and *)
(* of the workers run TaskRepository's operations concurrently.  An        *)
(* operation that reads before it writes holds, between the two, the value *)
(* it read.  Which session calls which operation when is left open: the    *)
(* module GenerationWorker closes that, here any caller the code can have  *)
(* may call at any time, so what holds here does not depend on the worker. *)
(***************************************************************************)
EXTENDS TaskRows

CONSTANT Session  \* concurrent database sessions

VARIABLES
  picked,   \* claim_next: the row its SELECT returned
  seen      \* cancel_task: the row it loaded and the status that object holds

vars == <<rows, picked, seen>>

NotSeen == [row |-> NoRow, status |-> "absent"]

TypeOK ==
  /\ RowsTypeOK
  /\ picked \in [Session -> Row \cup {NoRow}]
  /\ seen \in [Session -> [row : Row \cup {NoRow}, status : Status]]

Init ==
  /\ RowsInit
  /\ picked = [s \in Session |-> NoRow]
  /\ seen = [s \in Session |-> NotSeen]

Idle(s) == picked[s] = NoRow /\ seen[s] = NotSeen

-----------------------------------------------------------------------------
(* enqueue: an INSERT that the unique index accepts.  One that it rejects   *)
(* is rolled back and followed by a read: the table stays as it is.        *)

EnqueueInsert(k, d) ==
  /\ \E t \in Row : Insert(t, k, d)
  /\ UNCHANGED <<picked, seen>>

-----------------------------------------------------------------------------
(* claim_next: the oldest claimable row, then the guarded UPDATE.          *)

ClaimSelect(s, open) ==
  /\ Idle(s)
  /\ \E t \in Claimable(open) :
       /\ \A r \in Claimable(open) : t <= r
       /\ picked' = [picked EXCEPT ![s] = t]
  /\ UNCHANGED <<rows, seen>>

ClaimUpdate(s) ==
  /\ picked[s] # NoRow
  /\ \/ MarkRunning(picked[s])
     \/ status[picked[s]] # "queued" /\ UNCHANGED rows
  /\ picked' = [picked EXCEPT ![s] = NoRow]
  /\ UNCHANGED seen

-----------------------------------------------------------------------------
(* cancel_task: _dispatch_cancel branches on the status of the loaded      *)
(* object, the UPDATE it issues is guarded by the status of the row.  A    *)
(* row loaded in a status other than these two is answered as it is.       *)

CancelLoad(s, t) ==
  /\ Idle(s)
  /\ status[t] \in {"queued", "running"}
  /\ seen' = [seen EXCEPT ![s] = [row |-> t, status |-> status[t]]]
  /\ UNCHANGED <<rows, picked>>

CancelDispatch(s) ==
  /\ seen[s].row # NoRow
  /\ LET t == seen[s].row IN
       \/ seen[s].status = "queued" /\ MarkCancelled(t, "user")
       \/ seen[s].status = "running" /\ MarkCancelling(t, "user")
       \/ /\ ~ (seen[s].status = "queued" /\ status[t] \in Active)
          /\ ~ (seen[s].status = "running" /\ status[t] = "running")
          /\ UNCHANGED rows
  /\ seen' = [seen EXCEPT ![s] = NotSeen]
  /\ UNCHANGED picked

-----------------------------------------------------------------------------
(* Operations whose first statement is the UPDATE: they are one step, and  *)
(* a call for a row that left the guarded status changes nothing.          *)

Change(A) == A /\ UNCHANGED <<picked, seen>>

Next ==
  \/ \E k \in Key, d \in Inserted \cup {NoRow} : EnqueueInsert(k, d)
  \/ \E s \in Session, open \in SUBSET Lane : ClaimSelect(s, open)
  \/ \E s \in Session : ClaimUpdate(s)
  \/ \E s \in Session, t \in Row : CancelLoad(s, t)
  \/ \E s \in Session : CancelDispatch(s)
  \/ \E t \in Row : Change(MarkSucceeded(t))
  \/ \E t \in Row : Change(MarkFailed(t))
  \/ \E t \in Row : Change(RequeueAttempt(t))
  \/ \E t \in Row : Change(RequeueUnstarted(t))
  \/ \E t \in Row : Change(MarkCancelled(t, "user"))
  \/ \E S \in SUBSET Row : Change(RequeueRunning(S))
  \/ Change(CancelQueued)

Spec == Init /\ [][Next]_vars

-----------------------------------------------------------------------------
(* Safety.                                                                 *)

\* A key never has two active rows, although retries, pool-full requeues and
\* the operator's rescue put rows back to "queued" without consulting the key:
\* they only ever move a row that was active already (idx_tasks_dedupe_active).
OneActivePerKey ==
  \A t, r \in Row : status[t] \in Active /\ status[r] \in Active /\ key[t] = key[r] => t = r

\* A row that was ever claimed depends on nothing or on a row that succeeded,
\* even when the claim's UPDATE comes long after the SELECT that looked at the
\* dependency and whatever became of the row in between.
StartedAfterDependency ==
  \A t \in Row : status[t] \in {"running", "cancelling", "succeeded"} => DependencyMet(t)

\* Who cancelled a row is attributed correctly: a row marked 'cascade' is
\* cancelled and the row it depends on is cancelled, and a row that is being
\* stopped was stopped by its user.  Hence the cascade never meets a running
\* dependent: the branch that would signal it is dead code.
CascadeAttribution ==
  \A t \in Row :
    /\ status[t] = "cancelling" => cancelledBy[t] = "user"
    /\ cancelledBy[t] = "cascade" =>
         status[t] = "cancelled" /\ dep[t] # NoRow /\ status[dep[t]] = "cancelled"
    /\ cancelledBy[t] = "none" => status[t] \notin {"cancelling", "cancelled"}

\* What is over stays over: no late answer of a worker, no second cancel and no
\* requeue moves a row out of a terminal status.
FinalIsFinal == [][\A t \in Row : status[t] \in Final => status'[t] = status[t]]_vars

\* A row that fails or is cancelled leaves no dependent waiting for it: within
\* the same transaction every queued row below it, at any depth, dies too.
DeathReachesAllBelow ==
  [][\A t, r \in Row : status[t] \notin Dead /\ status'[t] \in Dead /\ dep'[r] = t
       => status'[r] # "queued"]_vars

\* Cancelling is a one-way street: a row asked to stop is never put back into
\* the queue nor reported as succeeded or failed; it only becomes cancelled.
CancellingOnlyCancels ==
  [][\A t \in Row : status[t] = "cancelling" => status'[t] \in {"cancelling", "cancelled"}]_vars
=============================================================================
