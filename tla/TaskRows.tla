------------------------------ MODULE TaskRows ------------------------------
(***************************************************************************)
(* The rows of the "tasks" table and the SQL transactions of               *)
(* TaskRepository that change them.  Each operator below is one committed  *)
(* transaction on the default engine (SQLite): a SELECT that precedes the  *)
(* first UPDATE runs outside the transaction, so operations of that shape  *)
(* are split by the modules that use these operators into the read and the *)
(* write; from the first UPDATE to the commit the write lock makes the     *)
(* cascade atomic.                                                         *)
(*                                                                         *)
(* The rows of one project are modelled.  A row is named by its position   *)
(* in queued_at order (the task_id is a random uuid, only ever compared    *)
(* for equality); the columns the properties do not tell apart (payload,   *)
(* result, timestamps, messages) are left out.                             *)
(***************************************************************************)
EXTENDS Integers

CONSTANTS
  MaxRows,      \* bound: how many rows are ever inserted
  MaxAttempts,  \* the retry budget of a row (payload._retry.max_attempts)
  Key,          \* dedupe keys (project, task_type, resource_id, script_file)
  NoKey,        \* the key of a row that does not exist yet
  Lane,         \* (media_type, provider_id) pairs, the unit of capacity
  LaneOf        \* the lane of a dedupe key's tasks

ASSUME RowsAssumption == MaxRows \in Nat
ASSUME AttemptsAssumption == MaxAttempts \in Nat \ {0}
ASSUME KeyAssumption == NoKey \notin Key
ASSUME LaneAssumption == LaneOf \in [Key -> Lane]

VARIABLES
  status,       \* Task.status, "absent" before the INSERT
  key,          \* the four columns under idx_tasks_dedupe_active
  dep,          \* Task.dependency_task_id
  cancelledBy,  \* Task.cancelled_by
  attempt       \* payload._retry.attempt

rows == <<status, key, dep, cancelledBy, attempt>>

Row == 1 .. MaxRows
NoRow == 0

Active == {"queued", "running", "cancelling"}
Final == {"succeeded", "failed", "cancelled"}
Dead == {"failed", "cancelled"}
Status == Active \cup Final \cup {"absent"}

RowsTypeOK ==
  /\ status \in [Row -> Status]
  /\ key \in [Row -> Key \cup {NoKey}]
  /\ dep \in [Row -> Row \cup {NoRow}]
  /\ cancelledBy \in [Row -> {"none", "user", "cascade"}]
  /\ attempt \in [Row -> 1 .. MaxAttempts]
  /\ \A t \in Row : status[t] # "absent" => key[t] \in Key

RowsInit ==
  /\ status = [t \in Row |-> "absent"]
  /\ key = [t \in Row |-> NoKey]
  /\ dep = [t \in Row |-> NoRow]
  /\ cancelledBy = [t \in Row |-> "none"]
  /\ attempt = [t \in Row |-> 1]

Inserted == {t \in Row : status[t] # "absent"}

-----------------------------------------------------------------------------
(* Reads.                                                                  *)

\* Mutant: the index's WHERE clause forgets the intermediate status.
ActiveWithButCancelling(k) == {t \in Row : status[t] \in {"queued", "running"} /\ key[t] = k}

\* The row the unique partial index rejects an INSERT for.
ActiveWith(k) == {t \in Row : status[t] \in Active /\ key[t] = k}

DependencyMet(t) == dep[t] = NoRow \/ status[dep[t]] = "succeeded"

\* Mutant: the LEFT JOIN on the dependency without its condition.
ClaimableUnjoined(open) == {t \in Row : status[t] = "queued" /\ LaneOf[key[t]] \in open}

\* claim_next's SELECT without its LIMIT 1: the claimable rows whose lane is
\* not on the blacklist of full pools.
Claimable(open) ==
  {t \in Row : status[t] = "queued" /\ LaneOf[key[t]] \in open /\ DependencyMet(t)}

\* The queued rows below t: its queued dependents, their queued dependents,
\* and so on.  This is the least set closed under "queued dependent of", which
\* the recursion of the two cascades visits.
ClosedBelow(S, t) ==
  \A r \in Row : status[r] = "queued" /\ (dep[r] = t \/ dep[r] \in S) => r \in S

\* Mutant: a cascade that stops at the direct dependents.
QueuedDirectlyBelow(t) == {r \in Row : status[r] = "queued" /\ dep[r] = t}

QueuedBelow(t) == {r \in Row : \A S \in SUBSET Row : ClosedBelow(S, t) => r \in S}

-----------------------------------------------------------------------------
(* Transactions.                                                           *)

\* enqueue, when the index accepts the row.
Insert(t, k, d) ==
  /\ ActiveWith(k) = {}
  /\ status[t] = "absent"
  /\ \A r \in Row : r < t => status[r] # "absent"
  /\ status' = [status EXCEPT ![t] = "queued"]
  /\ key' = [key EXCEPT ![t] = k]
  /\ dep' = [dep EXCEPT ![t] = d]
  /\ UNCHANGED <<cancelledBy, attempt>>

\* claim_next's UPDATE ... WHERE status = 'queued'.
MarkRunning(t) ==
  /\ status[t] = "queued"
  /\ status' = [status EXCEPT ![t] = "running"]
  /\ UNCHANGED <<key, dep, cancelledBy, attempt>>

\* Mutant: the UPDATE lets a row that is asked to stop finish.
MarkSucceededWhileStopping(t) ==
  /\ status[t] \in {"running", "cancelling"}
  /\ status' = [status EXCEPT ![t] = "succeeded"]
  /\ UNCHANGED <<key, dep, cancelledBy, attempt>>

MarkSucceeded(t) ==
  /\ status[t] = "running"
  /\ status' = [status EXCEPT ![t] = "succeeded"]
  /\ UNCHANGED <<key, dep, cancelledBy, attempt>>

\* mark_failed: the row and, through _cascade_failed_queued, every queued row
\* below it.
MarkFailed(t) ==
  /\ status[t] = "running"
  /\ status' = [r \in Row |-> IF r = t \/ r \in QueuedBelow(t) THEN "failed" ELSE status[r]]
  /\ UNCHANGED <<key, dep, cancelledBy, attempt>>

\* Mutant: the retry budget is not compared before the next attempt is written.
RequeueAttemptUnbounded(t) ==
  /\ status[t] = "running"
  /\ status' = [status EXCEPT ![t] = "queued"]
  /\ attempt' = [attempt EXCEPT ![t] = @ + 1]
  /\ UNCHANGED <<key, dep, cancelledBy>>

\* _process_task compares the attempt in the claimed payload with the budget.
AttemptLeft(t) == attempt[t] < MaxAttempts

\* requeue_failed_attempt: an automatic retry, with the next attempt number in
\* the payload it writes.
RequeueAttempt(t) ==
  /\ status[t] = "running"
  /\ AttemptLeft(t)
  /\ status' = [status EXCEPT ![t] = "queued"]
  /\ attempt' = [attempt EXCEPT ![t] = @ + 1]
  /\ UNCHANGED <<key, dep, cancelledBy>>

\* GenerationWorker._requeue_single_task: the pool is full after all.
RequeueUnstarted(t) ==
  /\ status[t] = "running"
  /\ status' = [status EXCEPT ![t] = "queued"]
  /\ UNCHANGED <<key, dep, cancelledBy, attempt>>

\* Mutant: cancelled_by is left to the final UPDATE.
MarkCancellingUnattributed(t, by) ==
  /\ status[t] = "running"
  /\ status' = [status EXCEPT ![t] = "cancelling"]
  /\ UNCHANGED <<key, dep, cancelledBy, attempt>>

MarkCancelling(t, by) ==
  /\ status[t] = "running"
  /\ status' = [status EXCEPT ![t] = "cancelling"]
  /\ cancelledBy' = [cancelledBy EXCEPT ![t] = by]
  /\ UNCHANGED <<key, dep, attempt>>

\* COALESCE(cancelled_by, by).
Attributed(t, by) == IF cancelledBy[t] = "none" THEN by ELSE cancelledBy[t]

\* The running dependents the cancel cascade turns to cancelling: it stops at
\* them, below queued rows it goes on.
RunningBelow(t) ==
  {r \in Row : status[r] = "running" /\ r # t /\ (dep[r] = t \/ dep[r] \in QueuedBelow(t))}

\* _mark_cancelled with its cascade.
MarkCancelled(t, by) ==
  /\ status[t] \in Active
  /\ status' = [r \in Row |->
       IF r = t \/ r \in QueuedBelow(t) THEN "cancelled"
       ELSE IF r \in RunningBelow(t) THEN "cancelling" ELSE status[r]]
  /\ cancelledBy' = [r \in Row |->
       IF r = t THEN Attributed(r, by)
       ELSE IF r \in QueuedBelow(t) THEN Attributed(r, "cascade")
       ELSE IF r \in RunningBelow(t) THEN "cascade" ELSE cancelledBy[r]]
  /\ UNCHANGED <<key, dep, attempt>>

\* cancel_all_queued's UPDATE: no cascade, every queued row of the project.
CancelQueued ==
  /\ status' = [t \in Row |-> IF status[t] = "queued" THEN "cancelled" ELSE status[t]]
  /\ cancelledBy' = [t \in Row |-> IF status[t] = "queued" THEN "user" ELSE cancelledBy[t]]
  /\ UNCHANGED <<key, dep, attempt>>

\* Mutant: the UPDATE trusts the SELECT and does not repeat its condition.
RequeueRunningStale(S) ==
  /\ status' = [t \in Row |->
       IF t \in S /\ status[t] \in {"running", "cancelling"} THEN "queued" ELSE status[t]]
  /\ UNCHANGED <<key, dep, cancelledBy, attempt>>

\* requeue_running: the operator's rescue of the running rows it selected; the
\* LIMIT and the rows that stopped running since the SELECT make it a subset.
RequeueRunning(S) ==
  /\ status' = [t \in Row |-> IF t \in S /\ status[t] = "running" THEN "queued" ELSE status[t]]
  /\ UNCHANGED <<key, dep, cancelledBy, attempt>>

-----------------------------------------------------------------------------
(* The rows, seen as TaskLifecycle's phases: who failed and who was        *)
(* cancelled is not told apart.                                            *)

PhaseOf(st) ==
  IF st = "queued" THEN "waiting"
  ELSE IF st = "running" THEN "working"
  ELSE IF st = "cancelling" THEN "stopping"
  ELSE IF st = "succeeded" THEN "done"
  ELSE IF st \in Dead THEN "dead" ELSE "absent"

Lifecycle == INSTANCE TaskLifecycle WITH phase <- [t \in Row |-> PhaseOf(status[t])]
LifecycleSpec == Lifecycle!Spec
=============================================================================
