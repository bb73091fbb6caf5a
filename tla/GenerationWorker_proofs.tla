----------------------- MODULE GenerationWorker_proofs -----------------------
(***************************************************************************)
(* Proofs about GenerationWorker, and at the end about DesktopQueue, for   *)
(* any number of workers, rows, keys, lanes, cancel sessions, faults and   *)
(* clients.                                                                *)
(***************************************************************************)
EXTENDS DesktopQueue, FiniteSetTheorems, TLAPS

(***************************************************************************)
(* The set the cascades visit.                                             *)
(***************************************************************************)

\* Every queued row that depends on t, or on a row the cascade of t visits, is
\* visited by that cascade (_cascade_failed_queued and _mark_cancelled recurse).
LEMMA BelowIsClosed ==
  ASSUME NEW t, NEW r \in Row, status[r] = "queued",
         dep[r] = t \/ dep[r] \in QueuedBelow(t)
  PROVE  r \in QueuedBelow(t)
  <1> SUFFICES ASSUME NEW S \in SUBSET Row, ClosedBelow(S, t) PROVE r \in S
    BY DEF QueuedBelow
  <1> QED BY DEF QueuedBelow, ClosedBelow

\* The cascade of t visits only queued rows, and only rows that depend on t or
\* on another row it visits.
LEMMA BelowIsReached ==
  ASSUME NEW t, NEW r \in QueuedBelow(t)
  PROVE  /\ r \in Row
         /\ status[r] = "queued"
         /\ dep[r] = t \/ dep[r] \in QueuedBelow(t)
  <1> DEFINE S == {x \in Row : status[x] = "queued" /\ (dep[x] = t \/ dep[x] \in QueuedBelow(t))}
  <1>1. S \subseteq QueuedBelow(t)
    BY BelowIsClosed
  <1>2. ClosedBelow(S, t)
    BY <1>1 DEF ClosedBelow
  <1>3. S \in SUBSET Row
    OBVIOUS
  <1>4. r \in S
    BY <1>2, <1>3 DEF QueuedBelow
  <1> QED BY <1>4

(***************************************************************************)
(* The transactions keep the types of the rows.  All but the insert and    *)
(* the two requeues are moreover calm: they put no row into the queue and  *)
(* count no attempt.                                                       *)
(***************************************************************************)

Calm ==
  /\ attempt' = attempt
  /\ \A t \in Row : status'[t] \in {"absent", "queued"} => status'[t] = status[t]

\* An UPDATE of one row, to a status other than "queued".
LEMMA MoveCalm ==
  ASSUME RowsTypeOK, NEW t \in Row, NEW st \in {"running", "cancelling", "succeeded"},
         status[t] # "absent",
         status' = [status EXCEPT ![t] = st],
         cancelledBy' \in [Row -> {"none", "user", "cascade"}],
         UNCHANGED <<key, dep, attempt>>
  PROVE  RowsTypeOK' /\ Calm
  BY DEF RowsTypeOK, Calm, Status, Active, Final

\* mark_failed and its cascade.
LEMMA MarkFailedCalm ==
  ASSUME RowsTypeOK, NEW t \in Row, MarkFailed(t)
  PROVE  RowsTypeOK' /\ Calm
  <1>1. \A r \in QueuedBelow(t) : status[r] = "queued"
    BY BelowIsReached
  <1> QED BY <1>1 DEF RowsTypeOK, Calm, MarkFailed, Status, Active, Final

\* _mark_cancelled and its cascade.
LEMMA MarkCancelledCalm ==
  ASSUME RowsTypeOK, NEW t \in Row, MarkCancelled(t, "user")
  PROVE  RowsTypeOK' /\ Calm
  <1>1. \A r \in QueuedBelow(t) : status[r] = "queued"
    BY BelowIsReached
  <1>2. \A r \in RunningBelow(t) : status[r] = "running"
    BY DEF RunningBelow
  <1>3. status' \in [Row -> Status] /\ cancelledBy' \in [Row -> {"none", "user", "cascade"}]
    BY DEF RowsTypeOK, MarkCancelled, Attributed, Status, Active, Final
  <1>4. \A r \in Row : status'[r] \in {"absent", "queued"} => status'[r] = status[r]
    BY DEF MarkCancelled
  <1>5. \A r \in Row : status'[r] # "absent" => status[r] # "absent"
    BY <1>1, <1>2 DEF MarkCancelled, Active
  <1> QED BY <1>3, <1>4, <1>5 DEF RowsTypeOK, Calm, MarkCancelled

\* cancel_all_queued.
LEMMA CancelQueuedCalm ==
  ASSUME RowsTypeOK, CancelQueued
  PROVE  RowsTypeOK' /\ Calm
  BY DEF RowsTypeOK, Calm, CancelQueued, Status, Active, Final

LEMMA UnchangedCalm ==
  ASSUME RowsTypeOK, UNCHANGED rows
  PROVE  RowsTypeOK' /\ Calm
  BY DEF RowsTypeOK, Calm, rows

(***************************************************************************)
(* What each step does to the rows.                                        *)
(***************************************************************************)

\* finalize_cancelled, whatever the status it finds.
LEMMA FinalizeCalm ==
  ASSUME RowsTypeOK, NEW t \in Row, FinalizeCancelled(t)
  PROVE  RowsTypeOK' /\ Calm
  BY MarkCancelledCalm, UnchangedCalm DEF FinalizeCancelled, OrNothing

\* mark_task_failed, whatever the status it finds.
LEMMA FailCalm ==
  ASSUME RowsTypeOK, NEW t \in Row, OrNothing(MarkFailed(t), status[t] = "running")
  PROVE  RowsTypeOK' /\ Calm
  BY MarkFailedCalm, UnchangedCalm DEF OrNothing

LEMMA SucceedCalm ==
  ASSUME RowsTypeOK, NEW t \in Row, MarkSucceeded(t)
  PROVE  RowsTypeOK' /\ Calm
  BY MoveCalm DEF MarkSucceeded, RowsTypeOK

LEMMA CancellingCalm ==
  ASSUME RowsTypeOK, NEW t \in Row, OrNothing(MarkCancelling(t, "user"), status[t] = "running")
  PROVE  RowsTypeOK' /\ Calm
  BY MoveCalm, UnchangedCalm DEF OrNothing, MarkCancelling, RowsTypeOK

\* The steps that are not calm: a claim takes a row out of the queue, the two
\* requeues put one back, an insert adds one.
LEMMA ClaimTyped ==
  ASSUME RowsTypeOK, NEW t \in Row, MarkRunning(t)
  PROVE  RowsTypeOK' /\ Calm
  BY MoveCalm DEF MarkRunning, RowsTypeOK

LEMMA RequeueTyped ==
  ASSUME RowsTypeOK, NEW t \in Row, RequeueUnstarted(t) \/ RequeueAttempt(t)
  PROVE  RowsTypeOK'
  BY AttemptsAssumption DEF RowsTypeOK, RequeueUnstarted, RequeueAttempt, AttemptLeft, Status, Active

LEMMA InsertTyped ==
  ASSUME RowsTypeOK, NEW t \in Row, NEW k \in Key, NEW d \in Inserted \cup {NoRow}, Insert(t, k, d)
  PROVE  RowsTypeOK'
  BY DEF RowsTypeOK, Insert, Inserted, Status, Active

(***************************************************************************)
(* Type correctness.                                                       *)
(***************************************************************************)

LoopTyped ==
  /\ proc \in [Worker -> {"down", "up", "stopping"}]
  /\ pc \in [Worker -> {"renew", "drain", "scan", "filter", "orphans",
                        "image", "video", "wind", "dead"}]
  /\ cap \in [Worker -> Configs]
  /\ owns \in [Worker -> BOOLEAN]
  /\ scanned \in [Worker -> BOOLEAN]
  /\ lost \in [Worker -> BOOLEAN]
  /\ hand \in [Worker -> Row \cup {NoRow}]

WorkTyped ==
  /\ co \in [Worker -> [Row -> TaskState]]
  /\ re \in [Worker -> [Row -> ResumeState]]
  /\ slot \in [Worker -> [Row -> {"none", "task", "resume"}]]

RestTyped ==
  /\ snap \in [Worker -> [Row -> {"none", "cancelling", "fail", "resume", "zero"}]]
  /\ lease \in [owner : Worker \cup {NoWorker}, expired : BOOLEAN]
  /\ job \in [Row -> BOOLEAN]
  /\ api \in [Session -> [at : {"idle", "loaded", "signal"}, row : Row \cup {NoRow},
                          status : Status]]
  /\ starts \in [Row -> Nat]
  /\ outages \in 0 .. MaxOutages

LEMMA TypeParts == TypeOK <=> RowsTypeOK /\ LoopTyped /\ WorkTyped /\ RestTyped
  BY DEF TypeOK, LoopTyped, WorkTyped, RestTyped

\* The steps that put a row into the queue.
Queues ==
  \/ \E k \in Key, d \in Inserted \cup {NoRow} : Enqueue(k, d)
  \/ \E w \in Worker : Route(w)
  \/ \E w \in Worker, t \in Row : WriteFailure(w, t)

\* A cancel call under way knows its row.
Loaded == \A s \in Session : api[s].at # "idle" => api[s].row \in Row

LEMMA StepRows ==
  ASSUME TypeOK, Loaded, [Next]_vars
  PROVE  RowsTypeOK' /\ (Calm \/ Queues)
  <1>0. RowsTypeOK
    BY TypeParts
  <1>1. CASE UNCHANGED rows
    BY <1>0, <1>1, UnchangedCalm
  <1>2. CASE CancelAllQueued
    BY <1>0, <1>2, CancelQueuedCalm DEF CancelAllQueued
  <1>3. CASE \E k \in Key, d \in Inserted \cup {NoRow} : Enqueue(k, d)
    BY <1>0, <1>3, InsertTyped DEF Enqueue, Queues
  <1>4. CASE \E s \in Session : CancelDispatch(s)
    <2>1. PICK s \in Session : CancelDispatch(s)
      BY <1>4
    <2>2. api[s].row \in Row
      BY <2>1 DEF CancelDispatch, Loaded
    <2> QED
      BY <1>0, <2>1, <2>2, FinalizeCalm, CancellingCalm, UnchangedCalm DEF CancelDispatch
  <1>5. CASE \E w \in Worker : Claim(w)
    BY <1>0, <1>5, ClaimTyped DEF Claim, ClaimableBy, Claimable
  <1>6. CASE \E w \in Worker : Route(w)
    <2>1. PICK w \in Worker : Route(w)
      BY <1>6
    <2>2. hand[w] \in Row
      BY <2>1 DEF Route, TypeOK
    <2> QED
      BY <1>0, <1>6, <2>1, <2>2, FailCalm, RequeueTyped, UnchangedCalm
      DEF Route, OrNothing, Queues
  <1>7. CASE \E w \in Worker, t \in Row : Drain(w, t)
    BY <1>0, <1>7, FinalizeCalm, UnchangedCalm DEF Drain
  <1>8. CASE \E w \in Worker, t \in Row : Orphan(w, t)
    BY <1>0, <1>8, FinalizeCalm, FailCalm DEF Orphan
  <1>9. CASE \E w \in Worker, t \in Row : WriteResult(w, t)
    BY <1>0, <1>9, SucceedCalm, UnchangedCalm DEF WriteResult, Write
  <1>10. CASE \E w \in Worker, t \in Row : WriteFailure(w, t)
    BY <1>0, <1>10, MarkFailedCalm, RequeueTyped, UnchangedCalm DEF WriteFailure, Write, Queues
  <1>11. CASE \E w \in Worker, t \in Row : WriteCancelled(w, t)
    BY <1>0, <1>11, FinalizeCalm DEF WriteCancelled
  <1> QED
    BY <1>1, <1>2, <1>3, <1>4, <1>5, <1>6, <1>7, <1>8, <1>9, <1>10, <1>11
    DEF Next, vars, Loop, Coroutine, Outage, CancelLoad, Signal, Start, ReloadLimits, Renew,
        Drained, ClaimNothing, ScanSelect, ScanFilter, ScanEnd, WindDown, Stopped, Forget,
        DispatchResume, Enter, Promote, Begin, Answer, Submit, Expire, Crash, Stop, LoopFails

LEMMA StepLoopTyped ==
  ASSUME LoopTyped, [Next]_vars
  PROVE  LoopTyped'
  <1>1. CASE UNCHANGED loop
    BY <1>1 DEF LoopTyped, loop
  <1>2. ASSUME NEW w \in Worker, Start(w) \/ ReloadLimits(w)
        PROVE  LoopTyped'
    BY <1>2 DEF Start, ReloadLimits, LoopTyped
  <1>3. ASSUME NEW w \in Worker, Renew(w)
        PROVE  LoopTyped'
    <2>1. UNCHANGED <<proc, cap, hand>> /\ pc' = [pc EXCEPT ![w] = "drain"]
      BY <1>3 DEF Renew, Goto
    <2>2. owns' = [owns EXCEPT ![w] = Obtainable(w)]
      BY <1>3 DEF Renew
    <2>3. lost' = [lost EXCEPT ![w] = ~ Obtainable(w) /\ (lost[w] \/ owns[w])]
      BY <1>3 DEF Renew
    <2>4. UNCHANGED scanned \/ scanned' = [scanned EXCEPT ![w] = FALSE]
      BY <1>3 DEF Renew
    <2>5. Obtainable(w) \in BOOLEAN
      BY DEF Obtainable
    <2>6. owns' \in [Worker -> BOOLEAN] /\ lost' \in [Worker -> BOOLEAN]
      BY <2>2, <2>3, <2>5 DEF LoopTyped
    <2> QED BY <2>1, <2>4, <2>6 DEF LoopTyped
  <1>4. ASSUME NEW w \in Worker, Drained(w) \/ ClaimNothing(w)
        PROVE  LoopTyped'
    BY <1>4 DEF Drained, ClaimNothing, NextMedia, Goto, LoopTyped
  <1>5. ASSUME NEW w \in Worker, Claim(w)
        PROVE  LoopTyped'
    <2>1. PICK t \in Row : hand' = [hand EXCEPT ![w] = t]
      BY <1>5 DEF Claim, ClaimableBy, Claimable
    <2> QED BY <1>5, <2>1 DEF Claim, LoopTyped
  <1>6. ASSUME NEW w \in Worker, Route(w)
        PROVE  LoopTyped'
    <2>1. hand' = [hand EXCEPT ![w] = NoRow] /\ UNCHANGED <<proc, cap, owns, scanned, lost>>
      BY <1>6 DEF Route
    <2>2. UNCHANGED pc \/ NextMedia(w)
      BY <1>6 DEF Route
    <2> QED BY <2>1, <2>2 DEF NextMedia, Goto, LoopTyped
  <1>7. ASSUME NEW w \in Worker,
               ScanSelect(w) \/ ScanFilter(w) \/ ScanEnd(w) \/ WindDown(w) \/ Stop(w)
        PROVE  LoopTyped'
    BY <1>7 DEF ScanSelect, ScanFilter, ScanEnd, WindDown, Stop, Goto, LoopTyped
  <1>8. ASSUME NEW w \in Worker, Stopped(w) \/ Crash(w)
        PROVE  LoopTyped'
    BY <1>8 DEF Stopped, Crash, Forget, Goto, LoopTyped
  <1>9. ASSUME NEW w \in Worker, LoopFails(w)
        PROVE  LoopTyped'
    BY <1>9 DEF LoopFails, Goto, LoopTyped
  <1> QED
    BY <1>1, <1>2, <1>3, <1>4, <1>5, <1>6, <1>7, <1>8, <1>9
    DEF Next, vars, loop, Loop, Coroutine, Outage, Enqueue, CancelAllQueued, CancelLoad,
        CancelDispatch, Signal, Drain, Orphan, DispatchResume, Enter, Promote, Begin, Answer,
        WriteResult, WriteFailure, WriteCancelled, Submit, Expire

\* An update of one row's entry in one worker's dict.
LEMMA EntryTyped ==
  ASSUME NEW S, NEW f \in [Worker -> [Row -> S]], NEW w \in Worker, NEW t, NEW x \in S
  PROVE  [f EXCEPT ![w][t] = x] \in [Worker -> [Row -> S]]
  OBVIOUS

\* An update of all of one worker's dict.
LEMMA DictTyped ==
  ASSUME NEW S, NEW f \in [Worker -> [Row -> S]], NEW w \in Worker, NEW g \in [Row -> S]
  PROVE  [f EXCEPT ![w] = g] \in [Worker -> [Row -> S]]
  OBVIOUS

SlotOwner == {"none", "task", "resume"}

\* The ways in which a coroutine goes on or ends.
LEMMA TaskGoesTyped ==
  ASSUME WorkTyped, NEW w \in Worker, NEW t, NEW x \in TaskState, TaskGoes(w, t, x)
  PROVE  WorkTyped'
  BY EntryTyped DEF WorkTyped, TaskGoes

LEMMA TaskEndsTyped ==
  ASSUME WorkTyped, NEW w \in Worker, NEW t, NEW x \in TaskState, TaskEnds(w, t, x)
  PROVE  WorkTyped'
  BY TaskGoesTyped DEF TaskEnds, TaskState

LEMMA ResumeGoesTyped ==
  ASSUME WorkTyped, NEW w \in Worker, NEW t, NEW x \in ResumeState, ResumeGoes(w, t, x)
  PROVE  WorkTyped'
  BY EntryTyped DEF WorkTyped, ResumeGoes

LEMMA UnlistedTyped ==
  ASSUME WorkTyped, NEW w \in Worker, NEW t
  PROVE  Unlisted(w, t) \in [Worker -> [Row -> TaskState]]
  BY EntryTyped DEF WorkTyped, Unlisted, TaskState

LEMMA ResumeEndsTyped ==
  ASSUME WorkTyped, NEW w \in Worker, NEW t, ResumeEnds(w, t)
  PROVE  WorkTyped'
  <1>1. re' \in [Worker -> [Row -> ResumeState]]
    BY EntryTyped DEF WorkTyped, ResumeEnds, ResumeState
  <1>2. slot' \in [Worker -> [Row -> SlotOwner]]
    BY EntryTyped DEF WorkTyped, ResumeEnds, SlotOwner
  <1> QED BY <1>1, <1>2, UnlistedTyped DEF WorkTyped, ResumeEnds, SlotOwner

LEMMA StepWorkTyped ==
  ASSUME WorkTyped, Loaded, [Next]_vars
  PROVE  WorkTyped'
  <1>1. CASE UNCHANGED work
    BY <1>1 DEF WorkTyped, work
  <1> USE DEF TaskState, ResumeState, Executed, Pending
  <1>2. ASSUME NEW w \in Worker, NEW t \in Row, Drain(w, t)
        PROVE  WorkTyped'
    <2>1. co' \in [Worker -> [Row -> TaskState]]
      BY <1>2, EntryTyped DEF Drain, WorkTyped
    <2>2. slot' \in [Worker -> [Row -> SlotOwner]]
      BY <1>2, EntryTyped DEF Drain, WorkTyped, SlotOwner
    <2> QED BY <1>2, <2>1, <2>2 DEF Drain, WorkTyped, SlotOwner
  <1>3. ASSUME NEW w \in Worker, Route(w)
        PROVE  WorkTyped'
    <2>1. UNCHANGED re
      BY <1>3 DEF Route
    <2>2. CASE UNCHANGED <<co, slot>>
      BY <2>1, <2>2 DEF WorkTyped
    <2>3. CASE /\ co' = [co EXCEPT ![w][hand[w]] = "start"]
               /\ slot' = [slot EXCEPT ![w][hand[w]] = "task"]
      <3>1. co' \in [Worker -> [Row -> TaskState]]
        BY <2>3, EntryTyped DEF WorkTyped
      <3>2. slot' \in [Worker -> [Row -> SlotOwner]]
        BY <2>3, EntryTyped DEF WorkTyped, SlotOwner
      <3> QED BY <2>1, <3>1, <3>2 DEF WorkTyped, SlotOwner
    <2> QED BY <1>3, <2>2, <2>3 DEF Route
  <1>4. ASSUME NEW w \in Worker, NEW t \in Row, DispatchResume(w, t) \/ Enter(w, t)
        PROVE  WorkTyped'
    BY <1>1, <1>4, ResumeGoesTyped DEF DispatchResume, Enter
  <1>5. ASSUME NEW w \in Worker, NEW t \in Row, Promote(w, t)
        PROVE  WorkTyped'
    <2>1. CASE ResumeEnds(w, t)
      BY <2>1, ResumeEndsTyped
    <2>2. CASE /\ re' = [re EXCEPT ![w][t] = "exec"]
               /\ slot' = [slot EXCEPT ![w][t] = "resume"]
               /\ co' = Unlisted(w, t)
      <3>1. re' \in [Worker -> [Row -> ResumeState]]
        BY <2>2, EntryTyped DEF WorkTyped
      <3>2. slot' \in [Worker -> [Row -> SlotOwner]]
        BY <2>2, EntryTyped DEF WorkTyped, SlotOwner
      <3> QED BY <2>2, <3>1, <3>2, UnlistedTyped DEF WorkTyped, SlotOwner
    <2> QED BY <1>5, <2>1, <2>2 DEF Promote
  <1>6. ASSUME NEW w \in Worker, NEW t \in Row, Begin(w, t) \/ Answer(w, t)
        PROVE  WorkTyped'
    BY <1>6, TaskGoesTyped, ResumeGoesTyped DEF Begin, Answer
  <1>7. ASSUME NEW w \in Worker, NEW t \in Row,
               WriteResult(w, t) \/ WriteFailure(w, t) \/ WriteCancelled(w, t)
        PROVE  WorkTyped'
    <2>1. \/ \E x \in {"done", "lost"} : TaskEnds(w, t, x)
          \/ TaskGoes(w, t, "zero") \/ ResumeEnds(w, t) \/ ResumeGoes(w, t, "zero")
      BY <1>7 DEF WriteResult, WriteFailure, WriteCancelled, Write
    <2> QED BY <2>1, TaskEndsTyped, TaskGoesTyped, ResumeEndsTyped, ResumeGoesTyped
  <1>8. ASSUME NEW s \in Session, Signal(s)
        PROVE  WorkTyped'
    <2>1. CASE Host[s] = NoWorker
      BY <1>1, <1>8, <2>1 DEF Signal
    <2>2. CASE Host[s] # NoWorker
      <3> DEFINE w == Host[s]  t == api[s].row
      <3>1. w \in Worker
        BY <2>2, HostAssumption
      <3>2. \/ TaskGoes(w, t, TaskStruck(co[w][t]))
            \/ ResumeGoes(w, t, ResumeStruck(re[w][t]))
            \/ UNCHANGED work
        BY <1>8, <2>2 DEF Signal, RequestCancel
      <3>3. TaskStruck(co[w][t]) \in TaskState /\ ResumeStruck(re[w][t]) \in ResumeState
        BY DEF TaskStruck, ResumeStruck
      <3> QED BY <1>1, <3>1, <3>2, <3>3, TaskGoesTyped, ResumeGoesTyped
    <2> QED BY <2>1, <2>2
  <1>9. ASSUME NEW w \in Worker, Forget(w)
        PROVE  WorkTyped'
    <2>1. co' \in [Worker -> [Row -> TaskState]]
      BY <1>9, DictTyped DEF Forget, WorkTyped
    <2>2. re' \in [Worker -> [Row -> ResumeState]]
      BY <1>9, DictTyped DEF Forget, WorkTyped
    <2>3. slot' \in [Worker -> [Row -> SlotOwner]]
      BY <1>9, DictTyped DEF Forget, WorkTyped, SlotOwner
    <2> QED BY <2>1, <2>2, <2>3 DEF WorkTyped, SlotOwner
  <1> QED
    BY <1>1, <1>2, <1>3, <1>4, <1>5, <1>6, <1>7, <1>8, <1>9
    DEF Next, vars, work, Loop, Coroutine, Outage, Enqueue, CancelAllQueued, CancelLoad,
        CancelDispatch, Start, ReloadLimits, Renew, Drained, Claim, ClaimNothing, ScanSelect,
        ScanFilter, ScanEnd, WindDown, Orphan, Submit, Expire, Stop, LoopFails, Stopped, Crash

PlanState == {"none", "cancelling", "fail", "resume", "zero"}
CallState == [at : {"idle", "loaded", "signal"}, row : Row \cup {NoRow}, status : Status]

LEMMA StepSnapTyped ==
  ASSUME snap \in [Worker -> [Row -> PlanState]], [Next]_vars
  PROVE  snap' \in [Worker -> [Row -> PlanState]]
  <1> USE DEF PlanState
  <1>1. CASE UNCHANGED snap
    BY <1>1
  <1>2. ASSUME NEW w \in Worker, ScanSelect(w)
        PROVE  snap' \in [Worker -> [Row -> PlanState]]
    <2>1. \A t \in Row : OrphanPlan(t) \in PlanState
      BY DEF OrphanPlan
    <2> QED BY <1>2, <2>1, DictTyped DEF ScanSelect
  <1>3. ASSUME NEW w \in Worker, ScanFilter(w)
        PROVE  snap' \in [Worker -> [Row -> PlanState]]
    <2>1. [t \in Row |-> IF Listed(w, t) THEN "none" ELSE snap[w][t]] \in [Row -> PlanState]
      OBVIOUS
    <2> QED BY <1>3, <2>1, DictTyped DEF ScanFilter
  <1>4. ASSUME NEW w \in Worker, NEW t \in Row, Orphan(w, t) \/ DispatchResume(w, t)
        PROVE  snap' \in [Worker -> [Row -> PlanState]]
    <2>1. \E x \in PlanState : snap' = [snap EXCEPT ![w][t] = x]
      BY <1>4 DEF Orphan, DispatchResume
    <2> QED BY <2>1, EntryTyped
  <1>5. ASSUME NEW w \in Worker, snap' = [snap EXCEPT ![w] = [t \in Row |-> "none"]]
        PROVE  snap' \in [Worker -> [Row -> PlanState]]
    BY <1>5, DictTyped
  <1>6. ASSUME NEW w \in Worker, Loop(w)
        PROVE  snap' \in [Worker -> [Row -> PlanState]]
    BY <1>1, <1>2, <1>3, <1>5, <1>6
    DEF Loop, Renew, Drain, Drained, Claim, ClaimNothing, Route, ScanEnd, WindDown, Stopped, Forget
  <1>7. ASSUME NEW w \in Worker, NEW t \in Row, Coroutine(w, t)
        PROVE  snap' \in [Worker -> [Row -> PlanState]]
    BY <1>1, <1>4, <1>7
    DEF Coroutine, Enter, Promote, Begin, Answer, WriteResult, WriteFailure, WriteCancelled
  <1>8. CASE Outage
    BY <1>1, <1>5, <1>8 DEF Outage, Expire, Crash, Stop, LoopFails, Forget
  <1> QED
    BY <1>1, <1>6, <1>7, <1>8
    DEF Next, vars, Enqueue, CancelAllQueued, CancelLoad, CancelDispatch, Signal, Start, ReloadLimits,
        Submit

LEMMA StepApiTyped ==
  ASSUME api \in [Session -> CallState], Loaded, RowsTypeOK, [Next]_vars
  PROVE  api' \in [Session -> CallState] /\ Loaded'
  <1> USE DEF CallState, Loaded, Idle, Status
  <1>1. CASE UNCHANGED api
    BY <1>1
  <1>2. ASSUME NEW s \in Session, NEW t \in Row, CancelLoad(s, t)
        PROVE  api' \in [Session -> CallState] /\ Loaded'
    BY <1>2 DEF CancelLoad, RowsTypeOK
  <1>3. ASSUME NEW s \in Session, CancelDispatch(s) \/ Signal(s)
        PROVE  api' \in [Session -> CallState] /\ Loaded'
    <2>1. \/ api' = [api EXCEPT ![s] = Idle]
          \/ api[s].at = "loaded" /\ api' = [api EXCEPT ![s] = [api[s] EXCEPT !.at = "signal"]]
      BY <1>3 DEF CancelDispatch, Signal
    <2> QED BY <2>1
  <1>4. ASSUME NEW w \in Worker, Forget(w)
        PROVE  api' \in [Session -> CallState] /\ Loaded'
    BY <1>4 DEF Forget
  <1>5. ASSUME NEW w \in Worker, Loop(w)
        PROVE  api' \in [Session -> CallState] /\ Loaded'
    BY <1>1, <1>4, <1>5
    DEF Loop, Renew, Drain, Drained, Claim, ClaimNothing, Route, ScanSelect, ScanFilter, ScanEnd,
        WindDown, Stopped
  <1>6. ASSUME NEW w \in Worker, NEW t \in Row, Coroutine(w, t)
        PROVE  api' \in [Session -> CallState] /\ Loaded'
    BY <1>1, <1>6
    DEF Coroutine, Orphan, DispatchResume, Enter, Promote, Begin, Answer, WriteResult,
        WriteFailure, WriteCancelled
  <1>7. CASE Outage
    BY <1>1, <1>4, <1>7 DEF Outage, Expire, Crash, Stop, LoopFails
  <1> QED
    BY <1>1, <1>2, <1>3, <1>5, <1>6, <1>7
    DEF Next, vars, Enqueue, CancelAllQueued, Start, ReloadLimits, Submit

LeaseState == [owner : Worker \cup {NoWorker}, expired : BOOLEAN]

LEMMA StepLeaseTyped ==
  ASSUME lease \in LeaseState, outages \in 0 .. MaxOutages, [Next]_vars
  PROVE  lease' \in LeaseState /\ outages' \in 0 .. MaxOutages
  <1>1. outages' \in 0 .. MaxOutages
    <2>1. ASSUME NEW w \in Worker, Loop(w)
          PROVE  outages' = outages
      BY <2>1
      DEF Loop, Renew, Drain, Drained, Claim, ClaimNothing, Route, ScanSelect, ScanFilter,
          ScanEnd, WindDown, Stopped
    <2>2. ASSUME NEW w \in Worker, NEW t \in Row, Coroutine(w, t)
          PROVE  outages' = outages
      BY <2>2
      DEF Coroutine, Orphan, DispatchResume, Enter, Promote, Begin, Answer, WriteResult,
          WriteFailure, WriteCancelled
    <2>3. CASE Outage
      <3>1. outages' = outages \/ \E kind \in {"crash", "stop", "slow", "loop"} : Fault(kind)
        BY <2>3 DEF Outage, Expire, Crash, Stop, LoopFails
      <3> QED BY <3>1, OutageAssumption DEF Fault
    <2> QED
      BY <2>1, <2>2, <2>3
      DEF Next, vars, Enqueue, CancelAllQueued, CancelLoad, CancelDispatch, Signal, Start,
          ReloadLimits, Submit
  <1>2. lease' \in LeaseState
    <2> USE DEF LeaseState
    <2>1. CASE UNCHANGED lease
      BY <2>1
    <2>2. ASSUME NEW w \in Worker, Renew(w)
          PROVE  lease' \in LeaseState
      BY <2>2 DEF Renew
    <2>3. ASSUME NEW w \in Worker, Stopped(w) \/ LoopFails(w) \/ Crash(w)
          PROVE  lease' \in LeaseState
      <3>1. \/ lease' = lease
            \/ lease' = [owner |-> NoWorker, expired |-> TRUE]
            \/ lease' = [lease EXCEPT !.owner = NoWorker]
        BY <2>3 DEF Stopped, LoopFails, Crash, Released
      <3>2. lease.owner \in Worker \cup {NoWorker} /\ lease.expired \in BOOLEAN
            /\ lease = [owner |-> lease.owner, expired |-> lease.expired]
        BY DEF LeaseState
      <3>3. [lease EXCEPT !.owner = NoWorker] = [owner |-> NoWorker, expired |-> lease.expired]
        BY <3>2
      <3>4. CASE lease' = lease
        BY <3>4
      <3>5. CASE lease' = [owner |-> NoWorker, expired |-> TRUE]
        BY <3>5 DEF LeaseState
      <3>6. CASE lease' = [owner |-> NoWorker, expired |-> lease.expired]
        BY <3>2, <3>6 DEF LeaseState
      <3> QED BY <3>1, <3>3, <3>4, <3>5, <3>6
    <2>4. CASE Expire
      BY <2>4 DEF Expire
    <2>5. ASSUME NEW w \in Worker, Loop(w)
          PROVE  lease' \in LeaseState
      BY <2>1, <2>2, <2>3, <2>5
      DEF Loop, Drain, Drained, Claim, ClaimNothing, Route, ScanSelect, ScanFilter,
          ScanEnd, WindDown
    <2>6. ASSUME NEW w \in Worker, NEW t \in Row, Coroutine(w, t)
          PROVE  lease' \in LeaseState
      BY <2>1, <2>6
      DEF Coroutine, Orphan, DispatchResume, Enter, Promote, Begin, Answer, WriteResult,
          WriteFailure, WriteCancelled
    <2>7. CASE Outage
      BY <2>1, <2>3, <2>4, <2>7 DEF Outage, Stop
    <2> QED
      BY <2>1, <2>5, <2>6, <2>7
      DEF Next, vars, Enqueue, CancelAllQueued, CancelLoad, CancelDispatch, Signal, Start,
          ReloadLimits, Submit
  <1> QED BY <1>1, <1>2

LEMMA StepCountsTyped ==
  ASSUME job \in [Row -> BOOLEAN], starts \in [Row -> Nat], [Next]_vars
  PROVE  job' \in [Row -> BOOLEAN] /\ starts' \in [Row -> Nat]
  <1>1. CASE UNCHANGED <<job, starts>>
    BY <1>1
  <1>2. ASSUME NEW w \in Worker, NEW t \in Row, Begin(w, t) \/ Submit(w, t)
        PROVE  job' \in [Row -> BOOLEAN] /\ starts' \in [Row -> Nat]
    <2>1. UNCHANGED job \/ job' = [job EXCEPT ![t] = TRUE]
      BY <1>2 DEF Begin, Submit
    <2>2. UNCHANGED starts \/ starts' = [starts EXCEPT ![t] = starts[t] + 1]
      BY <1>2 DEF Begin, Submit
    <2>3. job' \in [Row -> BOOLEAN]
      BY <2>1
    <2> QED BY <2>2, <2>3
  <1>3. ASSUME NEW w \in Worker, Loop(w)
        PROVE  job' \in [Row -> BOOLEAN] /\ starts' \in [Row -> Nat]
    BY <1>1, <1>3
    DEF Loop, Renew, Drain, Drained, Claim, ClaimNothing, Route, ScanSelect, ScanFilter, ScanEnd,
        WindDown, Stopped, Forget
  <1>4. ASSUME NEW w \in Worker, NEW t \in Row, Coroutine(w, t)
        PROVE  job' \in [Row -> BOOLEAN] /\ starts' \in [Row -> Nat]
    BY <1>1, <1>2, <1>4
    DEF Coroutine, Orphan, DispatchResume, Enter, Promote, Answer, WriteResult, WriteFailure,
        WriteCancelled
  <1>5. CASE Outage
    BY <1>1, <1>5 DEF Outage, Expire, Crash, Stop, LoopFails, Forget
  <1> QED
    BY <1>1, <1>2, <1>3, <1>4, <1>5
    DEF Next, vars, Enqueue, CancelAllQueued, CancelLoad, CancelDispatch, Signal, Start, ReloadLimits

LEMMA StepTyped ==
  ASSUME TypeOK, Loaded, [Next]_vars
  PROVE  TypeOK' /\ Loaded'
  <1> USE DEF PlanState, CallState, LeaseState
  <1>1. RowsTypeOK /\ LoopTyped /\ WorkTyped /\ RestTyped
    BY TypeParts
  <1>2. RowsTypeOK' /\ LoopTyped' /\ WorkTyped'
    BY <1>1, StepRows, StepLoopTyped, StepWorkTyped
  <1>3. RestTyped' /\ Loaded'
    BY <1>1, StepSnapTyped, StepApiTyped, StepLeaseTyped, StepCountsTyped DEF RestTyped
  <1> QED BY <1>2, <1>3 DEF TypeOK, LoopTyped, WorkTyped, RestTyped

LEMMA InitTyped == Init => TypeOK /\ Loaded
  BY AttemptsAssumption, OutageAssumption
  DEF Init, RowsInit, TypeOK, RowsTypeOK, Loaded, Idle, Status, TaskState, ResumeState

\* Every variable keeps its type, whatever crashes, stalls and stops.
THEOREM WorkerTyping == Spec => []TypeOK
  <1> QED BY InitTyped, StepTyped, PTL DEF Spec

(***************************************************************************)
(* NeverOvercharged.  It is not inductive as it stands: a row must not be  *)
(* taken by two workers, and one that waits in the queue must have an      *)
(* attempt left that nobody has paid for.                                  *)
(***************************************************************************)

\* A claimed row's coroutine, from its creation to the write of its outcome.
Live == {"start"} \cup Executed

\* The worker w claimed t, and may still execute it or put it back.
Claimant(w, t) == hand[w] = t \/ co[w][t] \in Live

\* A row is claimed by one worker at a time.
OneClaimant ==
  \A t \in Row : \A v, w \in Worker : Claimant(v, t) /\ Claimant(w, t) => v = w

\* A row that can be claimed is claimed by none.
QueuedUnclaimed ==
  \A t \in Row, w \in Worker : status[t] \in {"absent", "queued"} => ~ Claimant(w, t)

\* A row in hand has no coroutine yet.
HandsFree == \A t \in Row, w \in Worker : hand[w] = t => co[w][t] \notin Live

\* The present attempt of a row that is not yet executed has not been paid for.
Unspent ==
  \A t \in Row :
    \/ status[t] \in {"absent", "queued"}
    \/ \E w \in Worker : hand[w] = t \/ co[w][t] = "start"
    => starts[t] < attempt[t]

Core == OneClaimant /\ QueuedUnclaimed /\ HandsFree /\ Unspent /\ NeverOvercharged
IInv == TypeOK /\ Loaded /\ Core

\* A step that claims no row and creates no coroutine for one.
Quiet ==
  /\ starts' = starts
  /\ \A w \in Worker, t \in Row :
       /\ hand'[w] = t => hand[w] = t
       /\ co'[w][t] \in Live => co[w][t] \in Live
       /\ co'[w][t] = "start" => co[w][t] = "start"

LEMMA QuietStep ==
  ASSUME IInv, TypeOK', Calm, Quiet
  PROVE  Core'
  <1>1. \A w \in Worker, t \in Row : Claimant(w, t)' => Claimant(w, t)
    BY DEF Quiet, Claimant
  <1>2. OneClaimant'
    BY <1>1 DEF IInv, Core, OneClaimant
  <1>3. QueuedUnclaimed'
    BY <1>1 DEF IInv, Core, QueuedUnclaimed, Calm
  <1>4. HandsFree'
    BY DEF IInv, Core, HandsFree, Quiet
  <1>5. Unspent'
    BY DEF IInv, Core, Unspent, Quiet, Calm
  <1>6. NeverOvercharged'
    BY DEF IInv, Core, NeverOvercharged, Quiet, Calm
  <1> QED BY <1>2, <1>3, <1>4, <1>5, <1>6 DEF Core

\* Steps that touch the coroutines of one row only by moving them on, or ending them.
LEMMA TaskGoesQuiet ==
  ASSUME TypeOK, NEW w \in Worker, NEW t, NEW x, TaskGoes(w, t, x),
         x \in Live => co[w][t] \in Executed /\ x # "start",
         UNCHANGED <<hand, starts>>
  PROVE  Quiet
  BY DEF TypeOK, TaskGoes, Quiet, Live, Executed

LEMMA TaskEndsQuiet ==
  ASSUME TypeOK, NEW w \in Worker, NEW t, NEW x \in {"done", "lost"}, TaskEnds(w, t, x),
         UNCHANGED <<hand, starts>>
  PROVE  Quiet
  BY TaskGoesQuiet DEF TaskEnds, Live, Executed

LEMMA CoQuiet ==
  ASSUME co' = co, UNCHANGED <<hand, starts>>
  PROVE  Quiet
  BY DEF Quiet

LEMMA UnlistedQuiet ==
  ASSUME TypeOK, NEW w \in Worker, NEW t, co' = Unlisted(w, t), UNCHANGED <<hand, starts>>
  PROVE  Quiet
  BY DEF TypeOK, Unlisted, Quiet, Live, Executed

\* The steps that neither claim a row nor create or begin its coroutine.
LEMMA QuietSteps ==
  ASSUME TypeOK, Loaded, [Next]_vars
  PROVE  \/ Quiet
         \/ \E w \in Worker : Claim(w) \/ Route(w)
         \/ \E w \in Worker, t \in Row : Begin(w, t)
  <1>1. CASE UNCHANGED <<co, hand, starts>>
    BY <1>1, CoQuiet
  <1>2. ASSUME NEW w \in Worker, NEW t \in Row, Drain(w, t)
        PROVE  Quiet
    BY <1>2 DEF Drain, loop, TypeOK, Quiet, Live, Executed
  <1>3. ASSUME NEW w \in Worker, NEW t \in Row, Promote(w, t)
        PROVE  Quiet
    BY <1>3, UnlistedQuiet DEF Promote, ResumeEnds, loop
  <1>4. ASSUME NEW w \in Worker, NEW t \in Row, Answer(w, t)
        PROVE  Quiet
    <2>1. UNCHANGED <<hand, starts>>
      BY <1>4 DEF Answer, loop
    <2>2. CASE co' = co
      BY <2>1, <2>2, CoQuiet
    <2>3. CASE \E x \in {"ok", "err"} : co[w][t] = "exec" /\ TaskGoes(w, t, x)
      BY <2>1, <2>3, TaskGoesQuiet DEF Executed
    <2> QED BY <1>4, <2>2, <2>3 DEF Answer, ResumeGoes
  <1>5. ASSUME NEW w \in Worker, NEW t \in Row,
               WriteResult(w, t) \/ WriteFailure(w, t) \/ WriteCancelled(w, t)
        PROVE  Quiet
    <2>1. UNCHANGED <<hand, starts>>
      BY <1>5 DEF WriteResult, WriteFailure, WriteCancelled, loop
    <2>2. \/ \E x \in {"done", "lost"} : TaskEnds(w, t, x)
          \/ TaskGoes(w, t, "zero") \/ ResumeEnds(w, t) \/ ResumeGoes(w, t, "zero")
      BY <1>5 DEF WriteResult, WriteFailure, WriteCancelled, Write
    <2>3. CASE \E x \in {"done", "lost"} : TaskEnds(w, t, x)
      BY <2>1, <2>3, TaskEndsQuiet
    <2>4. CASE TaskGoes(w, t, "zero")
      BY <2>1, <2>4, TaskGoesQuiet DEF Live, Executed
    <2>5. CASE ResumeEnds(w, t)
      BY <2>1, <2>5, UnlistedQuiet DEF ResumeEnds
    <2>6. CASE ResumeGoes(w, t, "zero")
      BY <2>1, <2>6, CoQuiet DEF ResumeGoes
    <2> QED BY <2>2, <2>3, <2>4, <2>5, <2>6
  <1>6. ASSUME NEW s \in Session, Signal(s)
        PROVE  Quiet
    <2>1. UNCHANGED <<hand, starts>>
      BY <1>6 DEF Signal, loop
    <2>2. CASE co' = co
      BY <2>1, <2>2, CoQuiet
    <2>3. CASE /\ Host[s] # NoWorker
               /\ TaskGoes(Host[s], api[s].row, TaskStruck(co[Host[s]][api[s].row]))
      <3>1. Host[s] \in Worker
        BY <2>3, HostAssumption
      <3>2. TaskStruck(co[Host[s]][api[s].row]) \notin Live
        BY DEF TaskStruck, Live, Executed
      <3> QED BY <2>1, <2>3, <3>1, <3>2, TaskGoesQuiet
    <2> QED BY <1>6, <2>2, <2>3 DEF Signal, RequestCancel, ResumeGoes, work
  <1>7. ASSUME NEW w \in Worker, Forget(w)
        PROVE  Quiet
    BY <1>7 DEF Forget, TypeOK, Quiet, Live, Executed, Row, NoRow
  <1>8. ASSUME NEW w \in Worker, LoopFails(w)
        PROVE  Quiet
    BY <1>8 DEF LoopFails, work, TypeOK, Quiet, Row, NoRow
  <1> QED
    BY <1>1, <1>2, <1>3, <1>4, <1>5, <1>6, <1>7, <1>8
    DEF Next, vars, loop, work, Loop, Coroutine, Outage, Enqueue, CancelAllQueued, CancelLoad,
        CancelDispatch, Start, ReloadLimits, Renew, Drained, ClaimNothing, ScanSelect,
        ScanFilter, ScanEnd, WindDown, Stopped, Crash, Orphan, DispatchResume, Enter,
        ResumeGoes, Submit, Expire, Stop

\* A step that is quiet, and calm but for one row: it may enter the queue, if
\* nobody claims it any more and its present attempt is not paid for.
LEMMA QueueStep ==
  ASSUME IInv, TypeOK', Quiet, NEW t \in Row,
         \A w \in Worker : ~ Claimant(w, t)',
         starts[t] < attempt'[t],
         \A r \in Row \ {t} :
           /\ attempt'[r] = attempt[r]
           /\ status'[r] \in {"absent", "queued"} => status'[r] = status[r]
  PROVE  Core'
  <1>1. \A w \in Worker, r \in Row : Claimant(w, r)' => Claimant(w, r)
    BY DEF Quiet, Claimant
  <1>2. OneClaimant'
    BY <1>1 DEF IInv, Core, OneClaimant
  <1>3. QueuedUnclaimed'
    BY <1>1 DEF IInv, Core, QueuedUnclaimed
  <1>4. HandsFree'
    BY DEF IInv, Core, HandsFree, Quiet
  <1>5. Unspent'
    BY DEF IInv, Core, Unspent, Quiet
  <1>6. NeverOvercharged'
    <2>1. starts[t] \in Int /\ attempt'[t] \in Int
      BY DEF IInv, TypeOK, RowsTypeOK
    <2>2. starts[t] <= attempt'[t]
      BY <2>1
    <2>3. \A r \in Row \ {t} : starts[r] <= attempt'[r]
      BY DEF IInv, Core, NeverOvercharged
    <2> QED BY <2>2, <2>3 DEF NeverOvercharged, Quiet
  <1> QED BY <1>2, <1>3, <1>4, <1>5, <1>6 DEF Core

LEMMA EnqueueCore ==
  ASSUME IInv, TypeOK', NEW k \in Key, NEW d \in Inserted \cup {NoRow}, Enqueue(k, d)
  PROVE  Core'
  <1>1. PICK t \in Row : Insert(t, k, d)
    BY DEF Enqueue
  <1>2. Quiet
    BY CoQuiet DEF Enqueue, loop, work
  <1>3. starts[t] < attempt'[t] /\ \A w \in Worker : ~ Claimant(w, t)
    BY <1>1 DEF Insert, IInv, Core, Unspent, QueuedUnclaimed
  <1>4. \A w \in Worker : ~ Claimant(w, t)'
    BY <1>2, <1>3 DEF Quiet, Claimant
  <1>5. \A r \in Row \ {t} : attempt'[r] = attempt[r] /\ status'[r] = status[r]
    BY <1>1 DEF Insert, IInv, TypeOK, RowsTypeOK
  <1> QED BY <1>2, <1>3, <1>4, <1>5, QueueStep

\* An automatic retry: the coroutine that asks for it is the only claimant, and
\* ends with it.
LEMMA RetryCore ==
  ASSUME IInv, TypeOK', Quiet, NEW w \in Worker, NEW t \in Row,
         co[w][t] = "err", RequeueAttempt(t), TaskEnds(w, t, "done"), UNCHANGED hand
  PROVE  Core'
  <1>1. Claimant(w, t) /\ hand[w] # t
    BY DEF Claimant, Live, Executed, IInv, Core, HandsFree
  <1>2. ~ Claimant(w, t)'
    BY <1>1 DEF TaskEnds, TaskGoes, Claimant, Live, Executed, IInv, TypeOK
  <1>3. \A v \in Worker : ~ Claimant(v, t)'
    <2> SUFFICES ASSUME NEW v \in Worker, Claimant(v, t)' PROVE FALSE
      OBVIOUS
    <2>1. Claimant(v, t)
      BY DEF Quiet, Claimant
    <2>2. v = w
      BY <1>1, <2>1 DEF IInv, Core, OneClaimant
    <2> QED BY <1>2, <2>2
  <1>4. attempt'[t] = attempt[t] + 1 /\ attempt[t] \in Int /\ starts[t] \in Int
    BY DEF RequeueAttempt, IInv, TypeOK, RowsTypeOK
  <1>5. starts[t] < attempt'[t]
    BY <1>4 DEF IInv, Core, NeverOvercharged
  <1>6. \A r \in Row \ {t} : attempt'[r] = attempt[r] /\ status'[r] = status[r]
    BY DEF RequeueAttempt, IInv, TypeOK, RowsTypeOK
  <1> QED BY <1>3, <1>5, <1>6, QueueStep

LEMMA ClaimCore ==
  ASSUME IInv, TypeOK', NEW w \in Worker, Claim(w)
  PROVE  Core'
  <1>1. PICK t \in Row : /\ MarkRunning(t)
                         /\ hand' = [hand EXCEPT ![w] = t]
    BY DEF Claim, ClaimableBy, Claimable
  <1>2. UNCHANGED <<co, starts, attempt>> /\ hand[w] = NoRow
    BY <1>1 DEF Claim, work, MarkRunning
  <1>3. status[t] = "queued" /\ \A r \in Row \ {t} : status'[r] = status[r]
    BY <1>1 DEF MarkRunning, IInv, TypeOK, RowsTypeOK
  <1>4. status'[t] = "running"
    BY <1>1 DEF MarkRunning, IInv, TypeOK, RowsTypeOK
  <1>5. \A v \in Worker : ~ Claimant(v, t)
    BY <1>3 DEF IInv, Core, QueuedUnclaimed
  <1>6. hand'[w] = t /\ \A v \in Worker \ {w} : hand'[v] = hand[v]
    BY <1>1 DEF IInv, TypeOK
  <1>7. \A v \in Worker, r \in Row :
          Claimant(v, r)' <=> Claimant(v, r) \/ (v = w /\ r = t)
    BY <1>2, <1>6 DEF Claimant, Row, NoRow
  <1>8. OneClaimant'
    BY <1>5, <1>7 DEF IInv, Core, OneClaimant
  <1>9. QueuedUnclaimed'
    BY <1>3, <1>4, <1>7 DEF IInv, Core, QueuedUnclaimed
  <1>10. HandsFree'
    BY <1>2, <1>5, <1>6 DEF IInv, Core, HandsFree, Claimant
  <1>11. Unspent'
    BY <1>2, <1>3, <1>4, <1>6 DEF IInv, Core, Unspent
  <1>12. NeverOvercharged'
    BY <1>2 DEF IInv, Core, NeverOvercharged
  <1> QED BY <1>8, <1>9, <1>10, <1>11, <1>12 DEF Core

LEMMA BeginCore ==
  ASSUME IInv, TypeOK', NEW w \in Worker, NEW t \in Row, Begin(w, t)
  PROVE  Core'
  <1>1. UNCHANGED <<status, attempt, hand>>
    BY DEF Begin, rows, loop
  <1>2. /\ co[w][t] = "start" /\ co'[w][t] = "exec"
        /\ \A v \in Worker, r \in Row : co'[v][r] # co[v][r] => v = w /\ r = t
    BY DEF Begin, TaskGoes, IInv, TypeOK
  <1>3. starts'[t] = starts[t] + 1 /\ \A r \in Row \ {t} : starts'[r] = starts[r]
    BY DEF Begin, IInv, TypeOK
  <1>4. \A v \in Worker, r \in Row : Claimant(v, r)' <=> Claimant(v, r)
    BY <1>1, <1>2 DEF Claimant, Live, Executed
  <1>5. Claimant(w, t) /\ starts[t] < attempt[t] /\ status[t] \notin {"absent", "queued"}
    BY <1>2 DEF Claimant, Live, IInv, Core, Unspent, QueuedUnclaimed
  <1>6. OneClaimant'
    BY <1>4 DEF IInv, Core, OneClaimant
  <1>7. QueuedUnclaimed'
    BY <1>1, <1>4 DEF IInv, Core, QueuedUnclaimed
  <1>8. HandsFree'
    BY <1>1, <1>2 DEF IInv, Core, HandsFree, Live, Executed
  <1>9. \A v \in Worker : hand[v] # t /\ co'[v][t] # "start"
    <2> SUFFICES ASSUME NEW v \in Worker, hand[v] = t \/ co'[v][t] = "start" PROVE FALSE
      OBVIOUS
    <2>1. Claimant(v, t)
      BY <1>2 DEF Claimant, Live
    <2>2. v = w
      BY <1>5, <2>1 DEF IInv, Core, OneClaimant
    <2> QED BY <1>2, <2>2 DEF IInv, Core, HandsFree, Live
  <1>10. Unspent'
    BY <1>1, <1>2, <1>3, <1>5, <1>9 DEF IInv, Core, Unspent
  <1>11. NeverOvercharged'
    <2>1. starts[t] \in Int /\ attempt[t] \in Int
      BY DEF IInv, TypeOK, RowsTypeOK
    <2>2. starts'[t] <= attempt[t]
      BY <1>3, <1>5, <2>1
    <2>3. \A r \in Row \ {t} : starts'[r] <= attempt[r]
      BY <1>3 DEF IInv, Core, NeverOvercharged
    <2> QED BY <1>1, <2>2, <2>3 DEF NeverOvercharged
  <1> QED BY <1>6, <1>7, <1>8, <1>10, <1>11 DEF Core

\* _claim_tasks puts the row it claimed into a pool, back into the queue, or fails it.
LEMMA RouteCore ==
  ASSUME IInv, TypeOK', NEW w \in Worker, Route(w)
  PROVE  Core'
  <1>1. PICK t \in Row : hand[w] = t
    BY DEF Route, IInv, TypeOK
  <1>2. hand' = [hand EXCEPT ![w] = NoRow] /\ UNCHANGED starts
    BY DEF Route
  <1>3. hand'[w] = NoRow /\ \A v \in Worker \ {w} : hand'[v] = hand[v]
    BY <1>2 DEF IInv, TypeOK
  <1>4. Claimant(w, t) /\ co[w][t] \notin Live /\ starts[t] < attempt[t]
    BY <1>1 DEF Claimant, IInv, Core, HandsFree, Unspent
  <1>5. \A v \in Worker : Claimant(v, t) => v = w
    BY <1>1, <1>4 DEF IInv, Core, OneClaimant
  <1>6. CASE co' = co
    <2>1. Quiet
      BY <1>2, <1>3, <1>6 DEF Quiet, Row, NoRow
    <2>2. \A v \in Worker : ~ Claimant(v, t)'
      <3> SUFFICES ASSUME NEW v \in Worker, (hand'[v] = t \/ co'[v][t] \in Live) PROVE FALSE
        BY DEF Claimant
      <3>1. hand[v] = t \/ co[v][t] \in Live
        BY <1>1, <2>1 DEF Quiet
      <3>2. v = w
        BY <1>5, <3>1 DEF Claimant
      <3> QED BY <1>1, <1>3, <1>4, <1>6, <3>2 DEF Row, NoRow
    <2>3. CASE RequeueUnstarted(t)
      <3>1. attempt' = attempt /\ \A r \in Row \ {t} : status'[r] = status[r]
        BY <2>3 DEF RequeueUnstarted, IInv, TypeOK, RowsTypeOK
      <3> QED BY <1>1, <1>4, <2>1, <2>2, <3>1, QueueStep
    <2>4. CASE OrNothing(MarkFailed(t), status[t] = "running") \/ UNCHANGED rows
      BY <1>1, <2>1, <2>4, FailCalm, UnchangedCalm, QuietStep DEF IInv, TypeOK
    <2>5. co' # [co EXCEPT ![w][t] = "start"]
      BY <1>1, <1>4, <1>6 DEF Live, IInv, TypeOK
    <2> QED BY <1>1, <2>3, <2>4, <2>5 DEF Route, OrNothing
  <1>7. CASE UNCHANGED rows /\ co' = [co EXCEPT ![w][t] = "start"]
    <2>1. \A v \in Worker, r \in Row :
            co'[v][r] = IF v = w /\ r = t THEN "start" ELSE co[v][r]
      BY <1>1, <1>7 DEF IInv, TypeOK
    <2>2. \A v \in Worker, r \in Row : Claimant(v, r)' => Claimant(v, r)
      <3> SUFFICES ASSUME NEW v \in Worker, NEW r \in Row, hand'[v] = r \/ co'[v][r] \in Live
                   PROVE  hand[v] = r \/ co[v][r] \in Live
        BY DEF Claimant
      <3> QED BY <1>1, <1>3, <2>1 DEF Row, NoRow
    <2>3. OneClaimant'
      BY <2>2 DEF IInv, Core, OneClaimant
    <2>4. QueuedUnclaimed'
      BY <1>7, <2>2 DEF IInv, Core, QueuedUnclaimed, rows
    <2>5. HandsFree'
      <3> SUFFICES ASSUME NEW r \in Row, NEW v \in Worker, hand'[v] = r, co'[v][r] \in Live
                   PROVE  FALSE
        BY DEF HandsFree
      <3>1. v # w /\ hand[v] = r
        BY <1>3 DEF Row, NoRow
      <3> QED BY <2>1, <3>1 DEF IInv, Core, HandsFree
    <2>6. Unspent'
      <3> SUFFICES ASSUME NEW r \in Row,
                          \/ status[r] \in {"absent", "queued"}
                          \/ \E v \in Worker : hand'[v] = r \/ co'[v][r] = "start"
                   PROVE  starts[r] < attempt[r]
        BY <1>2, <1>7 DEF Unspent, rows
      <3> QED BY <1>1, <1>3, <1>4, <2>1 DEF IInv, Core, Unspent, Row, NoRow
    <2>7. NeverOvercharged'
      BY <1>2, <1>7 DEF IInv, Core, NeverOvercharged, rows
    <2> QED BY <2>3, <2>4, <2>5, <2>6, <2>7 DEF Core
  <1> QED BY <1>1, <1>6, <1>7 DEF Route

LEMMA StepCore ==
  ASSUME IInv, [Next]_vars
  PROVE  Core'
  <1>1. TypeOK' /\ Loaded'
    BY StepTyped DEF IInv
  <1>2. Calm \/ Queues
    BY StepRows DEF IInv
  <1>3. ASSUME NEW w \in Worker, Claim(w) \/ Route(w)
        PROVE  Core'
    BY <1>1, <1>3, ClaimCore, RouteCore
  <1>4. ASSUME NEW w \in Worker, NEW t \in Row, Begin(w, t)
        PROVE  Core'
    BY <1>1, <1>4, BeginCore
  <1>5. ASSUME NEW k \in Key, NEW d \in Inserted \cup {NoRow}, Enqueue(k, d)
        PROVE  Core'
    BY <1>1, <1>5, EnqueueCore
  <1>6. ASSUME Quiet, NEW w \in Worker, NEW t \in Row, WriteFailure(w, t)
        PROVE  Core'
    <2>1. CASE co[w][t] = "err" /\ RequeueAttempt(t) /\ TaskEnds(w, t, "done")
      BY <1>1, <1>6, <2>1, RetryCore DEF WriteFailure, loop
    <2>2. CASE MarkFailed(t) \/ UNCHANGED rows
      BY <1>1, <1>6, <2>2, MarkFailedCalm, UnchangedCalm, QuietStep DEF IInv, TypeOK
    <2> QED BY <1>6, <2>1, <2>2 DEF WriteFailure, Write
  <1>7. CASE Quiet /\ Calm
    BY <1>1, <1>7, QuietStep
  <1>8. CASE Quiet /\ Queues
    BY <1>3, <1>5, <1>6, <1>8 DEF Queues
  <1>9. \/ Quiet
        \/ \E w \in Worker : Claim(w) \/ Route(w)
        \/ \E w \in Worker, t \in Row : Begin(w, t)
    BY QuietSteps DEF IInv
  <1> QED BY <1>2, <1>3, <1>4, <1>7, <1>8, <1>9

LEMMA StepIInv ==
  ASSUME IInv, [Next]_vars
  PROVE  IInv'
  BY StepTyped, StepCore DEF IInv

LEMMA InitCore == Init => IInv
  <1> SUFFICES ASSUME Init PROVE Core
    BY InitTyped DEF IInv
  <1>1. \A w \in Worker, t \in Row : ~ Claimant(w, t)
    BY DEF Init, Claimant, Live, Executed, Row, NoRow
  <1>2. \A t \in Row : starts[t] = 0 /\ attempt[t] = 1
    BY DEF Init, RowsInit
  <1> QED
    BY <1>1, <1>2
    DEF Core, OneClaimant, QueuedUnclaimed, HandsFree, Unspent, NeverOvercharged, Claimant

\* A task is handed to the executor that pays a provider at most once per
\* attempt: over any number of workers taking the lease from each other, with
\* crashes, restarts, orphan scans, retries, full pools and cancels in between.
THEOREM WorkerNeverOvercharges == Spec => []NeverOvercharged
  <1>1. IInv => NeverOvercharged
    BY DEF IInv, Core
  <1> QED BY InitCore, StepIInv, <1>1, PTL DEF Spec

\* A row is claimed by one worker at a time, although nothing but the status
\* in the database keeps two lease owners apart.
THEOREM WorkerOneClaimant == Spec => []OneClaimant
  <1>1. IInv => OneClaimant
    BY DEF IInv, Core
  <1> QED BY InitCore, StepIInv, <1>1, PTL DEF Spec
(***************************************************************************)
(* WithinCapacity.  A row that does not exist yet has no entry anywhere,   *)
(* so a pool grows with a claimed or a resumed row only.                   *)
(***************************************************************************)

KnownRows ==
  \A w \in Worker, t \in Row : status[t] = "absent" =>
    hand[w] # t /\ slot[w][t] = "none" /\ re[w][t] = "none" /\ snap[w][t] = "none"

\* No row disappears or changes its key.
Kept == \A t \in Row : status[t] # "absent" => status'[t] # "absent" /\ key'[t] = key[t]

LEMMA StepKey ==
  ASSUME [Next]_vars
  PROVE  key' = key \/ \E k \in Key, d \in Inserted \cup {NoRow} : Enqueue(k, d)
  <1> USE DEF rows, OrNothing, FinalizeCancelled, MarkCancelled, MarkCancelling, MarkFailed, MarkSucceeded,
              MarkRunning, RequeueUnstarted, RequeueAttempt, CancelQueued, Write
  <1>1. ASSUME NEW w \in Worker, Loop(w)
        PROVE  key' = key
    BY <1>1
    DEF Loop, Renew, Drain, Drained, Claim, ClaimNothing, Route, ScanSelect, ScanFilter, ScanEnd,
        WindDown, Stopped, Forget
  <1>2. ASSUME NEW w \in Worker, NEW t \in Row, Coroutine(w, t)
        PROVE  key' = key
    BY <1>2
    DEF Coroutine, Orphan, DispatchResume, Enter, Promote, Begin, Answer, WriteResult,
        WriteFailure, WriteCancelled
  <1>3. CASE Outage
    BY <1>3 DEF Outage, Expire, Crash, Stop, LoopFails, Forget
  <1> QED
    BY <1>1, <1>2, <1>3
    DEF Next, vars, CancelAllQueued, CancelLoad, CancelDispatch, Signal, Start, ReloadLimits, Submit

LEMMA StepKept ==
  ASSUME TypeOK, Loaded, [Next]_vars
  PROVE  Kept
  <1>0. RowsTypeOK
    BY TypeParts
  <1>1. ASSUME NEW k \in Key, NEW d \in Inserted \cup {NoRow}, Enqueue(k, d)
        PROVE  Kept
    BY <1>0, <1>1 DEF Enqueue, Insert, Kept, RowsTypeOK
  <1>2. CASE Calm /\ key' = key
    BY <1>2 DEF Calm, Kept
  <1>3. ASSUME NEW w \in Worker, Route(w), key' = key
        PROVE  Kept
    <2>1. PICK t \in Row : t = hand[w]
      BY <1>3 DEF Route, TypeOK
    <2>2. CASE RequeueUnstarted(t)
      BY <1>0, <1>3, <2>2 DEF RequeueUnstarted, Kept, RowsTypeOK
    <2>3. CASE OrNothing(MarkFailed(t), status[t] = "running") \/ UNCHANGED rows
      BY <1>0, <1>2, <1>3, <2>3, FailCalm, UnchangedCalm
    <2> QED BY <1>3, <2>1, <2>2, <2>3 DEF Route, OrNothing
  <1>4. ASSUME NEW w \in Worker, NEW t \in Row, WriteFailure(w, t), key' = key
        PROVE  Kept
    <2>1. CASE RequeueAttempt(t)
      BY <1>0, <1>4, <2>1 DEF RequeueAttempt, Kept, RowsTypeOK
    <2>2. CASE MarkFailed(t) \/ UNCHANGED rows
      BY <1>0, <1>2, <1>4, <2>2, MarkFailedCalm, UnchangedCalm
    <2> QED BY <1>4, <2>1, <2>2 DEF WriteFailure, Write
  <1> QED BY <1>1, <1>2, <1>3, <1>4, StepKey, StepRows DEF Queues

\* What a step may do to an entry that is not there.
Empty(w, t) == hand[w] # t /\ slot[w][t] = "none" /\ re[w][t] = "none" /\ snap[w][t] = "none"

LEMMA StepKnown ==
  ASSUME TypeOK, Loaded, KnownRows, [Next]_vars
  PROVE  KnownRows'
  <1> SUFFICES ASSUME NEW w \in Worker, NEW t \in Row, status'[t] = "absent"
               PROVE  Empty(w, t)'
    BY DEF KnownRows, Empty
  <1>0. status[t] = "absent" /\ \A v \in Worker : Empty(v, t)
    BY StepKept DEF Kept, KnownRows, Empty
  <1>1. CASE UNCHANGED <<hand, slot, re, snap>>
    BY <1>0, <1>1 DEF Empty
  <1>2. ASSUME NEW v \in Worker, NEW r \in Row, Drain(v, r)
        PROVE  Empty(w, t)'
    BY <1>0, <1>2 DEF Drain, loop, Empty, TypeOK
  <1>3. ASSUME NEW v \in Worker, Claim(v)
        PROVE  Empty(w, t)'
    <2>1. PICK r \in Row : status[r] = "queued" /\ hand' = [hand EXCEPT ![v] = r]
      BY <1>3 DEF Claim, ClaimableBy, Claimable
    <2> QED BY <1>0, <1>3, <2>1 DEF Claim, work, Empty, TypeOK
  <1>4. ASSUME NEW v \in Worker, Route(v)
        PROVE  Empty(w, t)'
    <2>1. hand[v] # t /\ t # NoRow
      BY <1>0 DEF Empty, Row, NoRow
    <2>2. hand'[w] # t
      BY <1>0, <1>4, <2>1 DEF Route, Empty, TypeOK
    <2>3. slot'[w][t] = "none"
      BY <1>0, <1>4, <2>1 DEF Route, Empty, TypeOK
    <2> QED BY <1>0, <1>4, <2>2, <2>3 DEF Route, Empty
  <1>5. ASSUME NEW v \in Worker, ScanSelect(v)
        PROVE  Empty(w, t)'
    BY <1>0, <1>5 DEF ScanSelect, OrphanPlan, work, Empty, TypeOK
  <1>6. ASSUME NEW v \in Worker, ScanFilter(v)
        PROVE  Empty(w, t)'
    BY <1>0, <1>6 DEF ScanFilter, work, Empty, TypeOK
  <1>7. ASSUME NEW v \in Worker, NEW r \in Row, Orphan(v, r) \/ DispatchResume(v, r)
        PROVE  Empty(w, t)'
    <2>1. r # t
      BY <1>0, <1>7 DEF Orphan, DispatchResume, Empty
    <2>2. UNCHANGED <<hand, slot>>
      BY <1>7 DEF Orphan, DispatchResume, loop, work, ResumeGoes
    <2>3. \E x : snap' = [snap EXCEPT ![v][r] = x]
      BY <1>7 DEF Orphan, DispatchResume
    <2>4. UNCHANGED re \/ \E x : re' = [re EXCEPT ![v][r] = x]
      BY <1>7 DEF Orphan, DispatchResume, work, ResumeGoes
    <2> QED BY <1>0, <2>1, <2>2, <2>3, <2>4 DEF Empty, TypeOK
  <1>8. ASSUME NEW v \in Worker, NEW r \in Row,
               \/ Enter(v, r) \/ Promote(v, r) \/ Begin(v, r) \/ Answer(v, r)
               \/ WriteResult(v, r) \/ WriteFailure(v, r) \/ WriteCancelled(v, r)
        PROVE  Empty(w, t)'
    <2>1. UNCHANGED <<hand, snap>>
      BY <1>8 DEF Enter, Promote, Begin, Answer, WriteResult, WriteFailure, WriteCancelled, loop
    <2>2. \/ UNCHANGED <<re, slot>>
          \/ /\ re[v][r] # "none"
             /\ \E x : re' = [re EXCEPT ![v][r] = x]
             /\ UNCHANGED slot \/ \E y : slot' = [slot EXCEPT ![v][r] = y]
      BY <1>8
      DEF Enter, Promote, Begin, Answer, WriteResult, WriteFailure, WriteCancelled, Write,
          TaskEnds, TaskGoes, ResumeEnds, ResumeGoes
    <2>3. CASE UNCHANGED <<re, slot>>
      BY <1>0, <2>1, <2>3 DEF Empty
    <2>4. CASE /\ re[v][r] # "none"
               /\ \E x : re' = [re EXCEPT ![v][r] = x]
               /\ UNCHANGED slot \/ \E y : slot' = [slot EXCEPT ![v][r] = y]
      <3>1. r # t
        BY <1>0, <2>4 DEF Empty
      <3> QED BY <1>0, <2>1, <2>4, <3>1 DEF Empty, TypeOK
    <2> QED BY <2>2, <2>3, <2>4
  <1>9. ASSUME NEW s \in Session, Signal(s)
        PROVE  Empty(w, t)'
    <2>1. UNCHANGED <<hand, snap>>
      BY <1>9 DEF Signal, loop
    <2>2. \/ UNCHANGED <<re, slot>>
          \/ /\ Host[s] \in Worker
             /\ slot[Host[s]][api[s].row] = "resume" \/ re[Host[s]][api[s].row] \in {"created", "pending"}
             /\ ResumeGoes(Host[s], api[s].row, ResumeStruck(re[Host[s]][api[s].row]))
      BY <1>9, HostAssumption DEF Signal, RequestCancel, TaskGoes, work
    <2>3. CASE UNCHANGED <<re, slot>>
      BY <1>0, <2>1, <2>3 DEF Empty
    <2>4. CASE /\ Host[s] \in Worker
               /\ slot[Host[s]][api[s].row] = "resume" \/ re[Host[s]][api[s].row] \in {"created", "pending"}
               /\ ResumeGoes(Host[s], api[s].row, ResumeStruck(re[Host[s]][api[s].row]))
      <3>1. api[s].row # t
        BY <1>0, <2>4 DEF Empty
      <3> QED BY <1>0, <2>1, <2>4, <3>1 DEF Empty, TypeOK, ResumeGoes
    <2> QED BY <2>2, <2>3, <2>4
  <1>10. ASSUME NEW v \in Worker, Forget(v)
        PROVE  Empty(w, t)'
    BY <1>0, <1>10 DEF Forget, Empty, TypeOK, Row, NoRow
  <1>11. ASSUME NEW v \in Worker, LoopFails(v)
        PROVE  Empty(w, t)'
    BY <1>0, <1>11 DEF LoopFails, work, Empty, TypeOK, Row, NoRow
  <1>12. ASSUME NEW v \in Worker, Loop(v)
        PROVE  Empty(w, t)'
    BY <1>1, <1>2, <1>3, <1>4, <1>5, <1>6, <1>10, <1>12
    DEF Loop, Renew, Drained, ClaimNothing, ScanEnd, WindDown, Stopped, work
  <1>13. ASSUME NEW v \in Worker, NEW r \in Row, Coroutine(v, r)
        PROVE  Empty(w, t)'
    BY <1>7, <1>8, <1>13 DEF Coroutine
  <1>14. CASE Outage
    BY <1>1, <1>10, <1>11, <1>14 DEF Outage, Expire, Crash, Stop, loop, work
  <1> QED
    BY <1>1, <1>9, <1>12, <1>13, <1>14
    DEF Next, vars, loop, work, Enqueue, CancelAllQueued, CancelLoad, CancelDispatch, Start,
        ReloadLimits, Submit

\* Who gets an entry in an inflight dict: a claimed row, or a resumed one, whose
\* pool has room.
LEMMA StepSlots ==
  ASSUME TypeOK, Loaded, KnownRows, [Next]_vars
  PROVE  \/ \A w \in Worker, t \in Row : slot'[w][t] # "none" => slot[w][t] # "none"
         \/ \E v \in Worker, r \in Row :
              /\ HasRoom(v, RowLane(r)) \/ RoomToPromote(v, RowLane(r))
              /\ status[r] # "absent"
              /\ \A w \in Worker, t \in Row :
                   slot'[w][t] # "none" => slot[w][t] # "none" \/ (w = v /\ t = r)
  <1> DEFINE Shrinks == \A w \in Worker, t \in Row : slot'[w][t] # "none" => slot[w][t] # "none"
             Grows(v, r) == /\ HasRoom(v, RowLane(r)) \/ RoomToPromote(v, RowLane(r))
                            /\ status[r] # "absent"
                            /\ \A w \in Worker, t \in Row :
                                 slot'[w][t] # "none" => slot[w][t] # "none" \/ (w = v /\ t = r)
  <1> SUFFICES Shrinks \/ \E v \in Worker, r \in Row : Grows(v, r)
    OBVIOUS
  <1>1. CASE UNCHANGED slot
    BY <1>1
  <1>2. ASSUME NEW v \in Worker, NEW r, slot' = [slot EXCEPT ![v][r] = "none"]
        PROVE  Shrinks
    BY <1>2 DEF TypeOK
  <1>3. ASSUME NEW v \in Worker, Forget(v)
        PROVE  Shrinks
    BY <1>3 DEF Forget, TypeOK
  <1>4. ASSUME NEW v \in Worker, Route(v)
        PROVE  Shrinks \/ \E r \in Row : Grows(v, r)
    <2>1. PICK r \in Row : r = hand[v]
      BY <1>4 DEF Route, TypeOK
    <2>2. status[r] # "absent"
      BY <2>1 DEF KnownRows
    <2>3. CASE HasRoom(v, RowLane(r)) /\ slot' = [slot EXCEPT ![v][r] = "task"]
      <3>1. \A w \in Worker, t \in Row : w # v \/ t # r => slot'[w][t] = slot[w][t]
        BY <2>3 DEF TypeOK
      <3> QED BY <2>2, <2>3, <3>1
    <2> QED BY <1>1, <1>4, <2>1, <2>3 DEF Route
  <1>5. ASSUME NEW v \in Worker, NEW r \in Row, Promote(v, r)
        PROVE  Shrinks \/ Grows(v, r)
    <2>1. status[r] # "absent"
      BY <1>5 DEF KnownRows, Promote
    <2>2. CASE RoomToPromote(v, RowLane(r)) /\ slot' = [slot EXCEPT ![v][r] = "resume"]
      <3>1. \A w \in Worker, t \in Row : w # v \/ t # r => slot'[w][t] = slot[w][t]
        BY <2>2 DEF TypeOK
      <3> QED BY <2>1, <2>2, <3>1
    <2> QED BY <1>2, <1>5, <2>2 DEF Promote, ResumeEnds
  <1>6. ASSUME NEW v \in Worker, Loop(v)
        PROVE  Shrinks \/ \E r \in Row : Grows(v, r)
    <2> HIDE DEF Shrinks, Grows
    <2>1. UNCHANGED slot => Shrinks
      BY <1>1 DEF Shrinks
    <2> QED
      BY <1>2, <1>3, <1>4, <1>6, <2>1
      DEF Loop, Renew, Drain, Drained, Claim, ClaimNothing, ScanSelect, ScanFilter, ScanEnd,
          WindDown, Stopped, work
  <1>7. ASSUME NEW v \in Worker, NEW r \in Row, Coroutine(v, r)
        PROVE  Shrinks \/ Grows(v, r)
    <2> HIDE DEF Shrinks, Grows
    <2>1. UNCHANGED slot => Shrinks
      BY <1>1 DEF Shrinks
    <2> QED
      BY <1>2, <1>5, <1>7, <2>1
      DEF Coroutine, Orphan, DispatchResume, Enter, Begin, Answer, WriteResult, WriteFailure,
          WriteCancelled, Write, TaskEnds, TaskGoes, ResumeEnds, ResumeGoes, work
  <1>8. CASE Outage
    <2> HIDE DEF Shrinks, Grows
    <2>1. UNCHANGED slot => Shrinks
      BY <1>1 DEF Shrinks
    <2> QED BY <1>3, <1>8, <2>1 DEF Outage, Expire, Crash, Stop, LoopFails, work
  <1>9. ASSUME NEW s \in Session, Signal(s)
        PROVE  Shrinks
    BY <1>1, <1>9 DEF Signal, RequestCancel, TaskGoes, ResumeGoes, work
  <1> HIDE DEF Shrinks, Grows
  <1>10. UNCHANGED slot => Shrinks
    BY <1>1 DEF Shrinks
  <1> QED
    BY <1>6, <1>7, <1>8, <1>9, <1>10
    DEF Next, vars, work, Enqueue, CancelAllQueued, CancelLoad, CancelDispatch, Start,
        ReloadLimits, Submit

LEMMA FiniteRows ==
  ASSUME NEW S \in SUBSET Row
  PROVE  IsFiniteSet(S) /\ Cardinality(S) \in Nat
  <1>1. IsFiniteSet(Row)
    BY FS_Interval, RowsAssumption DEF Row
  <1> QED BY <1>1, FS_Subset, FS_CardinalityType

LEMMA StepCapacity ==
  ASSUME TypeOK, Loaded, KnownRows, [Next]_vars, NEW w \in Worker, NEW l \in Lane,
         Cardinality(Inflight(w, l)') > Cardinality(Inflight(w, l))
  PROVE  Cardinality(Inflight(w, l)') <= cap[w][l]
  <1> DEFINE S == Inflight(w, l)
  <1>1. S \in SUBSET Row /\ S' \in SUBSET Row
    BY DEF Inflight, Inserted
  <1>2. IsFiniteSet(S) /\ Cardinality(S) \in Nat /\ Cardinality(S') \in Nat
    BY <1>1, FiniteRows
  <1>3. cap[w][l] \in Nat
    BY ConfigsAssumption DEF TypeOK
  <1>4. ~ (S' \subseteq S)
    BY <1>2, FS_Subset
  <1>5. PICK t \in Row : t \in S' /\ t \notin S
    BY <1>1, <1>4
  <1>6. slot[w][t] = "none"
    <2>1. CASE status[t] = "absent"
      BY <2>1 DEF KnownRows
    <2>2. CASE status[t] # "absent"
      BY <1>5, <2>2, StepKept DEF Inflight, Inserted, Kept, RowLane
    <2> QED BY <2>1, <2>2
  <1>7. /\ status[t] # "absent" /\ (HasRoom(w, RowLane(t)) \/ RoomToPromote(w, RowLane(t)))
        /\ \A r \in Row : slot'[w][r] # "none" => slot[w][r] # "none" \/ r = t
    BY <1>5, <1>6, StepSlots DEF Inflight
  <1>8. RowLane(t) = l
    BY <1>5, <1>7, StepKept DEF Inflight, Kept, RowLane
  <1>9. S' \subseteq S \cup {t}
    <2> SUFFICES ASSUME NEW r \in Row, r \in S', r # t PROVE r \in S
      BY <1>1
    <2>1. slot[w][r] # "none"
      BY <1>7 DEF Inflight
    <2>2. status[r] # "absent"
      BY <2>1 DEF KnownRows
    <2> QED BY <2>1, <2>2, StepKept DEF Inflight, Inserted, Kept, RowLane
  <1>10. Cardinality(S) < cap[w][l]
    <2>1. Waiting(w, l) \in SUBSET Row
      BY DEF Waiting, Inserted
    <2>2. Cardinality(Waiting(w, l)) \in Nat
      BY <2>1, FiniteRows
    <2> QED BY <1>2, <1>3, <1>7, <1>8, <2>2 DEF HasRoom, RoomToPromote
  <1>11. Cardinality(S \cup {t}) = Cardinality(S) + 1 /\ IsFiniteSet(S \cup {t})
    BY <1>2, <1>5, FS_AddElement
  <1>12. Cardinality(S') <= Cardinality(S) + 1
    BY <1>9, <1>11, FS_Subset
  <1> QED BY <1>2, <1>3, <1>10, <1>12

\* A pool takes on a coroutine only below its limit, although claims and resumed
\* tasks come to it independently of each other and its limit is reloaded.
THEOREM WorkerWithinCapacity == Spec => WithinCapacity
  <1> DEFINE Known == TypeOK /\ Loaded /\ KnownRows
  <1>1. Init => Known
    BY InitTyped DEF Init, KnownRows, Row, NoRow
  <1>2. Known /\ [Next]_vars => Known'
    BY StepTyped, StepKnown
  <1>3. Known /\ [Next]_vars =>
          \A w \in Worker, l \in Lane :
            Cardinality(Inflight(w, l)') > Cardinality(Inflight(w, l)) =>
              Cardinality(Inflight(w, l)') <= cap[w][l]
    BY StepCapacity
  <1>4. Known /\ [Next]_vars =>
          [\A w \in Worker, l \in Lane :
             Cardinality(Inflight(w, l)') > Cardinality(Inflight(w, l)) =>
               Cardinality(Inflight(w, l)') <= cap[w][l]]_vars
    BY <1>3
  <1> QED BY <1>1, <1>2, <1>4, PTL DEF Spec, WithinCapacity

(***************************************************************************)
(* NoTwinWork and NoLostRow.  They hold while processes crash but are not  *)
(* stopped or stalled and nobody cancels: a loop that waits for its        *)
(* coroutines to end lets its lease run out, a cancel call ends a row that *)
(* is being executed.  Then only the owner of the lease has any work, and, *)
(* once it has scanned, every running row is in exactly one of its hands.  *)
(***************************************************************************)

OnlyCrashes == Session = {} /\ Faults \subseteq {"crash"}

Scans(w) == pc[w] \in {"filter", "orphans"}

\* The loop is never stopped; who thinks it owns the lease does, with time left.
Steady(w) ==
  /\ proc[w] # "stopping" /\ pc[w] \notin {"wind", "dead"} /\ lost[w] = FALSE
  /\ owns[w] => proc[w] = "up" /\ lease = [owner |-> w, expired |-> FALSE]
  /\ scanned[w] => owns[w]
  /\ pc[w] = "scan" \/ Scans(w) => owns[w] /\ ~ scanned[w]
  /\ pc[w] \in {"image", "video"} => scanned[w]

\* The four ways in which a worker has a row, of which it has at most one.
Engaged(w, t) == hand[w] = t \/ co[w][t] \in Live \/ re[w][t] # "none" \/ snap[w][t] # "none"

Exclusive(w, t) ==
  /\ hand[w] = t => co[w][t] \notin Live /\ re[w][t] = "none" /\ snap[w][t] = "none"
  /\ co[w][t] \in Live => re[w][t] = "none" /\ snap[w][t] = "none"
  /\ re[w][t] # "none" => snap[w][t] = "none"

\* A worker that has scanned, or scans, has all running rows, and only those; one
\* that has not has none.
Entry(w, t) ==
  /\ co[w][t] \in {"none", "done"} \cup Live
  /\ re[w][t] \in {"none", "created", "pending"} \cup Executed
  /\ snap[w][t] \in {"none", "fail", "resume"}
  /\ hand[w] = t \/ co[w][t] # "none" \/ re[w][t] # "none" \/ slot[w][t] # "none" => scanned[w]
  /\ snap[w][t] # "none" => scanned[w] \/ Scans(w)
  /\ Engaged(w, t) => status[t] = "running"
  /\ scanned[w] \/ Scans(w) => (status[t] = "running" => Engaged(w, t))
  /\ Exclusive(w, t)

Uncancelled == \A t \in Row : status[t] \notin {"cancelling", "cancelled"}

\* idx_tasks_dedupe_active, which the requeues do not consult.
OnePerKey ==
  \A t, r \in Row : status[t] \in Active /\ status[r] \in Active /\ key[t] = key[r] => t = r

Orderly ==
  /\ Uncancelled /\ OnePerKey
  /\ \A w \in Worker : Steady(w)
  /\ \A w \in Worker, t \in Row : Entry(w, t)

\* A transaction on the row t: other rows may fail with it, in the queue.
Moves(t) ==
  /\ UNCHANGED key
  /\ \A r \in Row \ {t} : status'[r] = "running" <=> status[r] = "running"
  /\ \A r \in Row : status'[r] \in Active => status[r] \in Active
  /\ Uncancelled'

LEMMA FailMoves ==
  ASSUME RowsTypeOK, Uncancelled, NEW t \in Row, MarkFailed(t)
  PROVE  Moves(t) /\ status'[t] = "failed"
  <1>1. \A r \in QueuedBelow(t) : status[r] = "queued"
    BY BelowIsReached
  <1> QED BY <1>1 DEF RowsTypeOK, MarkFailed, Moves, Uncancelled, Active

LEMMA UpdateMoves ==
  ASSUME RowsTypeOK, Uncancelled, NEW t \in Row, NEW st \in {"running", "queued", "succeeded"},
         status[t] \in Active, status' = [status EXCEPT ![t] = st], UNCHANGED key
  PROVE  Moves(t) /\ status'[t] = st
  BY DEF RowsTypeOK, Moves, Uncancelled, Active

LEMMA StaysMoves ==
  ASSUME Uncancelled, NEW t \in Row, UNCHANGED rows
  PROVE  Moves(t)
  BY DEF rows, Moves, Uncancelled

LEMMA MovesKeepKeys ==
  ASSUME OnePerKey, NEW t \in Row, Moves(t)
  PROVE  OnePerKey'
  BY DEF OnePerKey, Moves

\* What a step leaves alone: all but what w has of t.
Only(w, t) ==
  \A v \in Worker, r \in Row : v # w \/ r # t =>
    /\ co'[v][r] = co[v][r] /\ re'[v][r] = re[v][r]
    /\ slot'[v][r] = slot[v][r] /\ snap'[v][r] = snap[v][r]
    /\ hand'[v] = r <=> hand[v] = r

\* A worker with work is the only one.
LEMMA OthersIdle ==
  ASSUME Orderly, NEW w \in Worker, owns[w], NEW v \in Worker \ {w}
  PROVE  /\ ~ owns[v] /\ ~ scanned[v] /\ ~ Scans(v)
         /\ \A t \in Row : /\ hand[v] # t /\ ~ Engaged(v, t)
                           /\ co[v][t] = "none" /\ re[v][t] = "none" /\ snap[v][t] = "none"
                           /\ slot[v][t] = "none"
  <1>1. lease = [owner |-> w, expired |-> FALSE]
    BY DEF Orderly, Steady
  <1>2. ~ owns[v]
    BY <1>1 DEF Orderly, Steady
  <1>3. ~ scanned[v] /\ ~ Scans(v)
    BY <1>2 DEF Orderly, Steady
  <1>4. \A t \in Row : Entry(v, t)
    BY DEF Orderly
  <1> QED BY <1>2, <1>3, <1>4 DEF Entry, Engaged, Live, Executed

\* A step of w with its row t keeps the order if it does so for the two.
LEMMA RowStep ==
  ASSUME Orderly, NEW w \in Worker, NEW t \in Row, scanned[w] \/ Scans(w),
         Moves(t), Only(w, t), Entry(w, t)',
         UNCHANGED <<proc, owns, scanned, lost, lease>>,
         \A v \in Worker \ {w} : pc'[v] = pc[v],
         Steady(w)', Scans(w)' <=> Scans(w)
  PROVE  Orderly'
  <1>1. owns[w]
    BY DEF Orderly, Steady
  <1>2. ASSUME NEW v \in Worker, NEW r \in Row
        PROVE  Entry(v, r)'
    <2>1. CASE v = w /\ r = t
      BY <2>1
    <2>2. CASE v = w /\ r # t
      <3>1. Entry(w, r) /\ (status'[r] = "running" <=> status[r] = "running")
        BY <2>2 DEF Orderly, Moves
      <3>2. /\ co'[w][r] = co[w][r] /\ re'[w][r] = re[w][r] /\ slot'[w][r] = slot[w][r]
            /\ snap'[w][r] = snap[w][r] /\ (hand'[w] = r <=> hand[w] = r)
        BY <2>2 DEF Only
      <3>3. Engaged(w, r)' <=> Engaged(w, r)
        BY <3>2 DEF Engaged
      <3>4. Exclusive(w, r)'
        BY <3>1, <3>2 DEF Entry, Exclusive
      <3> QED BY <2>2, <3>1, <3>2, <3>3, <3>4 DEF Entry
    <2>3. CASE v # w
      <3>1. /\ ~ scanned'[v] /\ ~ Scans(v)'
            /\ hand'[v] # r /\ co'[v][r] = "none" /\ re'[v][r] = "none" /\ snap'[v][r] = "none"
            /\ slot'[v][r] = "none"
        BY <1>1, <2>3, OthersIdle DEF Only, Scans
      <3> QED BY <3>1 DEF Entry, Engaged, Exclusive, Live, Executed
    <2> QED BY <2>1, <2>2, <2>3
  <1>3. \A v \in Worker : Steady(v)'
    <2> SUFFICES ASSUME NEW v \in Worker, v # w PROVE Steady(v)'
      OBVIOUS
    <2>1. Steady(v)
      BY DEF Orderly
    <2>2. /\ pc'[v] = pc[v] /\ proc'[v] = proc[v] /\ owns'[v] = owns[v] /\ scanned'[v] = scanned[v]
          /\ lost'[v] = lost[v] /\ lease' = lease
      OBVIOUS
    <2> QED BY <2>1, <2>2 DEF Steady, Scans
  <1>4. Uncancelled' /\ OnePerKey'
    BY MovesKeepKeys DEF Orderly, Moves
  <1> QED BY <1>2, <1>3, <1>4 DEF Orderly

\* The same for a step that leaves the loop where it is.
LEMMA CoroutineStep ==
  ASSUME Orderly, NEW w \in Worker, NEW t \in Row, scanned[w] \/ Scans(w),
         Moves(t), Only(w, t), Entry(w, t)',
         UNCHANGED <<proc, pc, owns, scanned, lost, lease>>
  PROVE  Orderly'
  <1>1. Steady(w)' /\ (Scans(w)' <=> Scans(w))
    BY DEF Orderly, Steady, Scans
  <1> QED BY <1>1, RowStep

\* A worker that has a row is at work.
LEMMA AtWork ==
  ASSUME Orderly, NEW w \in Worker, NEW t \in Row
  PROVE  /\ Engaged(w, t) => (scanned[w] \/ Scans(w)) /\ status[t] = "running"
         /\ hand[w] = t \/ co[w][t] # "none" \/ re[w][t] # "none" => scanned[w]
  <1>1. Entry(w, t)
    BY DEF Orderly
  <1>2. "none" \notin Live
    BY DEF Live, Executed
  <1> QED BY <1>1, <1>2 DEF Entry, Engaged

\* Nothing but the entries of one row changes.
LEMMA OnlyTask ==
  ASSUME TypeOK, NEW w \in Worker, NEW t \in Row, NEW x, TaskGoes(w, t, x), UNCHANGED <<hand, snap>>
  PROVE  Only(w, t) /\ co'[w][t] = x /\ UNCHANGED <<re, slot>>
  BY DEF TypeOK, TaskGoes, Only

LEMMA OnlyResume ==
  ASSUME TypeOK, NEW w \in Worker, NEW t \in Row, NEW x, ResumeGoes(w, t, x),
         UNCHANGED hand, snap' = snap \/ \E y : snap' = [snap EXCEPT ![w][t] = y]
  PROVE  Only(w, t) /\ re'[w][t] = x /\ UNCHANGED <<co, slot>>
  BY DEF TypeOK, ResumeGoes, Only

LEMMA OnlyEnds ==
  ASSUME TypeOK, NEW w \in Worker, NEW t \in Row, ResumeEnds(w, t), UNCHANGED <<hand, snap>>
  PROVE  /\ Only(w, t) /\ re'[w][t] = "none" /\ slot'[w][t] = "none"
         /\ co'[w][t] = IF co[w][t] \in {"done", "lost"} THEN "none" ELSE co[w][t]
  BY DEF TypeOK, ResumeEnds, Unlisted, Only

(***************************************************************************)
(* The steps of the coroutines and of the loop's rows.                     *)
(***************************************************************************)

LEMMA DrainOrderly ==
  ASSUME TypeOK, Orderly, NEW w \in Worker, NEW t \in Row, Drain(w, t)
  PROVE  Orderly'
  <1>1. Entry(w, t)
    BY DEF Orderly
  <1>2. co[w][t] = "done"
    BY <1>1 DEF Drain, Entry, Live, Executed
  <1>3. UNCHANGED <<rows, re, snap, lease, proc, pc, owns, scanned, lost, hand>>
    BY <1>2 DEF Drain, loop
  <1>4. Only(w, t) /\ co'[w][t] = "none" /\ slot'[w][t] = "none"
    BY <1>3 DEF Drain, Only, TypeOK
  <1>5. Moves(t)
    BY <1>3, StaysMoves DEF Orderly
  <1>6. scanned[w]
    BY <1>2, AtWork
  <1>7. status'[t] = status[t] /\ re'[w][t] = re[w][t] /\ snap'[w][t] = snap[w][t] /\ hand'[w] = hand[w]
        /\ scanned'[w] /\ (Scans(w)' <=> Scans(w))
    BY <1>3, <1>6 DEF rows, Scans
  <1>8. Entry(w, t)'
    BY <1>1, <1>2, <1>4, <1>6, <1>7 DEF Entry, Engaged, Exclusive, Live, Executed
  <1> QED BY <1>3, <1>4, <1>5, <1>6, <1>8, CoroutineStep

LEMMA ClaimOrderly ==
  ASSUME TypeOK, Orderly, NEW w \in Worker, Claim(w)
  PROVE  Orderly'
  <1>1. PICK t \in Row : /\ MarkRunning(t)
                         /\ hand' = [hand EXCEPT ![w] = t]
    BY DEF Claim, ClaimableBy, Claimable
  <1>2. UNCHANGED <<proc, pc, owns, scanned, lost, work, snap, lease>> /\ hand[w] = NoRow
    BY DEF Claim
  <1>3. scanned[w]
    BY DEF Claim, At, Orderly, Steady
  <1>4. status[t] = "queued" /\ Moves(t) /\ status'[t] = "running"
    BY <1>1, UpdateMoves DEF MarkRunning, TypeOK, Orderly, Active
  <1>5. Entry(w, t) /\ ~ Engaged(w, t)
    BY <1>4 DEF Orderly, Entry
  <1>6. Only(w, t) /\ hand'[w] = t
    BY <1>1, <1>2 DEF Only, TypeOK, work, Row, NoRow
  <1>7. Entry(w, t)'
    BY <1>2, <1>3, <1>4, <1>5, <1>6 DEF Entry, Engaged, Exclusive, work
  <1> QED BY <1>2, <1>3, <1>4, <1>6, <1>7, CoroutineStep

LEMMA RouteOrderly ==
  ASSUME TypeOK, Orderly, NEW w \in Worker, Route(w)
  PROVE  Orderly'
  <1>1. PICK t \in Row : hand[w] = t
    BY DEF Route, TypeOK
  <1>2. UNCHANGED <<proc, owns, scanned, lost, re, snap, lease>> /\ hand' = [hand EXCEPT ![w] = NoRow]
    BY DEF Route
  <1>3. Entry(w, t)
    BY DEF Orderly
  <1>4. /\ status[t] = "running" /\ scanned[w] /\ co[w][t] \notin Live
        /\ re[w][t] = "none" /\ snap[w][t] = "none" /\ co[w][t] \in {"none", "done"}
    BY <1>1, <1>3 DEF Entry, Engaged, Exclusive
  <1>5. ~ Scans(w) /\ Steady(w)
    BY <1>4 DEF Orderly, Steady
  <1>6. hand'[w] = NoRow /\ hand'[w] # t /\ \A v \in Worker \ {w} : hand'[v] = hand[v]
    BY <1>2 DEF TypeOK, Row, NoRow
  <1>7. UNCHANGED pc \/ NextMedia(w)
    BY DEF Route
  <1>8. \A v \in Worker \ {w} : pc'[v] = pc[v]
    BY <1>7 DEF NextMedia, Goto, TypeOK
  <1>9. pc'[w] = pc[w] \/ pc'[w] \in {"video", "renew"}
    BY <1>7 DEF NextMedia, Goto, TypeOK
  <1>10. Steady(w)' /\ ~ Scans(w)'
    BY <1>2, <1>4, <1>5, <1>9 DEF Steady, Scans
  <1>11. re'[w][t] = "none" /\ snap'[w][t] = "none" /\ scanned'[w]
    BY <1>2, <1>4
  <1>12. CASE UNCHANGED <<co, slot>> /\ Moves(t) /\ status'[t] # "running"
    <2>1. Only(w, t)
      BY <1>1, <1>2, <1>6, <1>12 DEF Only, Row, NoRow
    <2>2. Entry(w, t)'
      BY <1>4, <1>6, <1>10, <1>11, <1>12 DEF Entry, Engaged, Exclusive
    <2> QED BY <1>2, <1>4, <1>5, <1>8, <1>10, <1>12, <2>1, <2>2, RowStep
  <1>13. CASE UNCHANGED rows /\ co' = [co EXCEPT ![w][t] = "start"] /\ slot' = [slot EXCEPT ![w][t] = "task"]
    <2>4. /\ co'[w][t] = "start"
          /\ \A v \in Worker, r \in Row : v # w \/ r # t =>
               co'[v][r] = co[v][r] /\ slot'[v][r] = slot[v][r]
      BY <1>13 DEF TypeOK
    <2>5. \A v \in Worker, r \in Row : v # w \/ r # t => (hand'[v] = r <=> hand[v] = r)
      BY <1>1, <1>6 DEF Row, NoRow
    <2>1. Only(w, t) /\ co'[w][t] = "start"
      BY <1>2, <2>4, <2>5 DEF Only
    <2>2. Moves(t) /\ status'[t] = "running"
      BY <1>4, <1>13, StaysMoves DEF Orderly, rows
    <2>3. Entry(w, t)'
      BY <1>4, <1>6, <1>10, <1>11, <2>1, <2>2 DEF Entry, Engaged, Exclusive, Live, Executed
    <2> QED BY <1>2, <1>4, <1>5, <1>8, <1>10, <2>1, <2>2, <2>3, RowStep
  <1>14. MarkFailed(t) => Moves(t) /\ status'[t] # "running"
    BY FailMoves DEF TypeOK, Orderly
  <1>15. RequeueUnstarted(t) => Moves(t) /\ status'[t] # "running"
    BY <1>4, UpdateMoves DEF RequeueUnstarted, TypeOK, Orderly, Active
  <1> QED BY <1>1, <1>4, <1>12, <1>13, <1>14, <1>15 DEF Route, OrNothing

LEMMA OrphanOrderly ==
  ASSUME TypeOK, Orderly, NEW w \in Worker, NEW t \in Row, Orphan(w, t)
  PROVE  Orderly'
  <1>1. Entry(w, t)
    BY DEF Orderly
  <1>2. snap[w][t] = "fail"
    BY <1>1 DEF Orphan, Entry
  <1>3. status[t] = "running" /\ (scanned[w] \/ Scans(w))
    BY <1>2, AtWork DEF Engaged
  <1>4. /\ MarkFailed(t) /\ snap' = [snap EXCEPT ![w][t] = "none"]
        /\ UNCHANGED <<proc, pc, owns, scanned, lost, hand, co, re, slot, lease>>
    BY <1>2, <1>3 DEF Orphan, OrNothing, loop, work
  <1>5. Moves(t) /\ status'[t] = "failed"
    BY <1>4, FailMoves DEF TypeOK, Orderly
  <1>6. Only(w, t) /\ snap'[w][t] = "none"
    BY <1>4 DEF Only, TypeOK
  <1>7. hand[w] # t /\ co[w][t] \notin Live /\ re[w][t] = "none"
    BY <1>1, <1>2 DEF Entry, Exclusive
  <1>8. hand'[w] # t /\ co'[w][t] = co[w][t] /\ re'[w][t] = "none" /\ slot'[w][t] = slot[w][t]
        /\ scanned'[w] = scanned[w] /\ (Scans(w)' <=> Scans(w))
    BY <1>4, <1>7 DEF Scans
  <1>9. Entry(w, t)'
    BY <1>1, <1>5, <1>6, <1>7, <1>8 DEF Entry, Engaged, Exclusive
  <1> QED BY <1>3, <1>4, <1>5, <1>6, <1>9, CoroutineStep

LEMMA DispatchOrderly ==
  ASSUME TypeOK, Orderly, NEW w \in Worker, NEW t \in Row, DispatchResume(w, t)
  PROVE  Orderly'
  <1>1. Entry(w, t)
    BY DEF Orderly
  <1>2. snap[w][t] = "resume" /\ ~ Scans(w) /\ proc[w] # "stopping"
    BY DEF DispatchResume, Scans, Orderly, Steady
  <1>3. status[t] = "running" /\ scanned[w]
    BY <1>2, AtWork DEF Engaged
  <1>4. UNCHANGED <<rows, proc, pc, owns, scanned, lost, hand, lease>>
    BY DEF DispatchResume, loop
  <1>5. Moves(t) /\ status'[t] = "running"
    BY <1>3, <1>4, StaysMoves DEF Orderly, rows
  <1>6. hand'[w] # t /\ co[w][t] \notin Live /\ re[w][t] = "none" /\ scanned'[w] /\ ~ Scans(w)'
    BY <1>1, <1>2, <1>3, <1>4 DEF Entry, Exclusive, Scans
  <1>7. CASE snap' = [snap EXCEPT ![w][t] = "fail"] /\ UNCHANGED work
    <2>1. Only(w, t) /\ snap'[w][t] = "fail"
      BY <1>4, <1>7 DEF Only, TypeOK, work
    <2>2. co'[w][t] = co[w][t] /\ re'[w][t] = "none" /\ slot'[w][t] = slot[w][t]
      BY <1>6, <1>7 DEF work
    <2>3. Entry(w, t)'
      BY <1>1, <1>3, <1>5, <1>6, <2>1, <2>2 DEF Entry, Engaged, Exclusive
    <2> QED BY <1>3, <1>4, <1>5, <2>1, <2>3, CoroutineStep
  <1>8. CASE snap' = [snap EXCEPT ![w][t] = "none"] /\ ResumeGoes(w, t, "created")
    <2>1. Only(w, t) /\ re'[w][t] = "created" /\ UNCHANGED <<co, slot>>
      BY <1>4, <1>8, OnlyResume
    <2>2. snap'[w][t] = "none"
      BY <1>8 DEF TypeOK
    <2>3. Entry(w, t)'
      BY <1>1, <1>3, <1>5, <1>6, <2>1, <2>2 DEF Entry, Engaged, Exclusive
    <2> QED BY <1>3, <1>4, <1>5, <2>1, <2>3, CoroutineStep
  <1> QED BY <1>2, <1>7, <1>8 DEF DispatchResume

\* A claimed task goes on.
LEMMA TaskGoesOrderly ==
  ASSUME TypeOK, Orderly, NEW w \in Worker, NEW t \in Row, NEW x \in Executed,
         co[w][t] \in Live, TaskGoes(w, t, x),
         UNCHANGED <<rows, proc, pc, owns, scanned, lost, hand, snap, lease>>
  PROVE  Orderly'
  <1>1. Entry(w, t)
    BY DEF Orderly
  <1>2. /\ status[t] = "running" /\ scanned[w] /\ hand[w] # t
        /\ re[w][t] = "none" /\ snap[w][t] = "none"
    BY <1>1 DEF Entry, Engaged, Exclusive, Live, Executed
  <1>3. Only(w, t) /\ co'[w][t] = x /\ UNCHANGED <<re, slot>>
    BY OnlyTask
  <1>4. Moves(t) /\ status'[t] = "running"
    BY <1>2, StaysMoves DEF Orderly, rows
  <1>5. Entry(w, t)'
    BY <1>1, <1>2, <1>3, <1>4 DEF Entry, Engaged, Exclusive, Live, Scans
  <1> QED BY <1>2, <1>3, <1>4, <1>5, CoroutineStep

\* A resumed task goes on.
LEMMA ResumeGoesOrderly ==
  ASSUME TypeOK, Orderly, NEW w \in Worker, NEW t \in Row, NEW x \in {"pending"} \cup Executed,
         re[w][t] # "none", ResumeGoes(w, t, x),
         UNCHANGED <<rows, proc, pc, owns, scanned, lost, hand, snap, lease>>
  PROVE  Orderly'
  <1>1. Entry(w, t)
    BY DEF Orderly
  <1>2. /\ status[t] = "running" /\ scanned[w] /\ hand[w] # t
        /\ co[w][t] \notin Live /\ snap[w][t] = "none"
    BY <1>1 DEF Entry, Engaged, Exclusive
  <1>3. Only(w, t) /\ re'[w][t] = x /\ UNCHANGED <<co, slot>>
    BY OnlyResume
  <1>4. Moves(t) /\ status'[t] = "running"
    BY <1>2, StaysMoves DEF Orderly, rows
  <1>5. Entry(w, t)'
    BY <1>1, <1>2, <1>3, <1>4 DEF Entry, Engaged, Exclusive, Executed, Scans
  <1> QED BY <1>2, <1>3, <1>4, <1>5, CoroutineStep

LEMMA PromoteOrderly ==
  ASSUME TypeOK, Orderly, NEW w \in Worker, NEW t \in Row, Promote(w, t)
  PROVE  Orderly'
  <1>1. Entry(w, t)
    BY DEF Orderly
  <1>2. /\ re' = [re EXCEPT ![w][t] = "exec"] /\ slot' = [slot EXCEPT ![w][t] = "resume"]
        /\ co' = Unlisted(w, t) /\ re[w][t] = "pending"
        /\ UNCHANGED <<rows, proc, pc, owns, scanned, lost, hand, snap, lease>>
    BY DEF Promote, Orderly, Steady, loop
  <1>3. /\ status[t] = "running" /\ scanned[w] /\ hand[w] # t
        /\ co[w][t] \in {"none", "done"} /\ snap[w][t] = "none"
    BY <1>1, <1>2 DEF Entry, Engaged, Exclusive
  <1>4. Only(w, t) /\ re'[w][t] = "exec" /\ co'[w][t] = "none"
    BY <1>2, <1>3 DEF Only, TypeOK, Unlisted
  <1>5. Moves(t) /\ status'[t] = "running"
    BY <1>2, <1>3, StaysMoves DEF Orderly, rows
  <1>6. Entry(w, t)'
    BY <1>2, <1>3, <1>4, <1>5 DEF Entry, Engaged, Exclusive, Live, Executed
  <1> QED BY <1>2, <1>3, <1>4, <1>5, <1>6, CoroutineStep

\* A task ends with the write of its outcome.
LEMMA TaskEndsOrderly ==
  ASSUME TypeOK, Orderly, NEW w \in Worker, NEW t \in Row, co[w][t] \in Live,
         TaskEnds(w, t, "done"), Moves(t), status'[t] # "running",
         UNCHANGED <<proc, pc, owns, scanned, lost, hand, snap, lease>>
  PROVE  Orderly'
  <1>1. Entry(w, t)
    BY DEF Orderly
  <1>2. scanned[w] /\ hand[w] # t /\ re[w][t] = "none" /\ snap[w][t] = "none"
    BY <1>1 DEF Entry, Exclusive, Live, Executed
  <1>3. PICK x \in {"done", "none"} : TaskGoes(w, t, x)
    BY DEF TaskEnds
  <1>4. Only(w, t) /\ co'[w][t] = x /\ UNCHANGED <<re, slot>>
    BY <1>3, OnlyTask
  <1>5. Entry(w, t)'
    BY <1>1, <1>2, <1>4 DEF Entry, Engaged, Exclusive, Live, Executed
  <1> QED BY <1>2, <1>4, <1>5, CoroutineStep

LEMMA ResumeEndsOrderly ==
  ASSUME TypeOK, Orderly, NEW w \in Worker, NEW t \in Row, re[w][t] # "none",
         ResumeEnds(w, t), Moves(t), status'[t] # "running",
         UNCHANGED <<proc, pc, owns, scanned, lost, hand, snap, lease>>
  PROVE  Orderly'
  <1>1. Entry(w, t)
    BY DEF Orderly
  <1>2. scanned[w] /\ hand[w] # t /\ co[w][t] \in {"none", "done"} /\ snap[w][t] = "none"
    BY <1>1 DEF Entry, Exclusive
  <1>3. Only(w, t) /\ re'[w][t] = "none" /\ slot'[w][t] = "none" /\ co'[w][t] = "none"
    BY <1>2, OnlyEnds
  <1>4. Entry(w, t)'
    BY <1>2, <1>3 DEF Entry, Engaged, Exclusive, Live, Executed
  <1> QED BY <1>2, <1>3, <1>4, CoroutineStep

\* What a coroutine writes finds its row running.
LEMMA WriteOrderly ==
  ASSUME TypeOK, Orderly, NEW w \in Worker, NEW t \in Row,
         WriteResult(w, t) \/ WriteFailure(w, t) \/ WriteCancelled(w, t)
  PROVE  Orderly'
  <1>1. Entry(w, t) /\ {"ok", "err"} \subseteq Live
    BY DEF Orderly, Live, Executed
  <1>2. co[w][t] \notin {"zero", "killed"} /\ re[w][t] \notin {"zero", "killed"}
    BY <1>1 DEF Entry, Live, Executed
  <1>3. co[w][t] \in {"ok", "err"} \/ re[w][t] \in {"ok", "err"}
    BY <1>2 DEF WriteResult, WriteFailure, WriteCancelled
  <1>4. status[t] = "running"
    BY <1>1, <1>3, AtWork DEF Engaged
  <1>5. UNCHANGED <<proc, pc, owns, scanned, lost, hand, snap, lease>>
    BY DEF WriteResult, WriteFailure, WriteCancelled, loop
  <1>6. /\ MarkSucceeded(t) \/ MarkFailed(t) \/ RequeueAttempt(t)
        /\ \/ co[w][t] \in {"ok", "err"} /\ TaskEnds(w, t, "done")
           \/ re[w][t] \in {"ok", "err"} /\ ResumeEnds(w, t)
    BY <1>2, <1>4 DEF WriteResult, WriteFailure, WriteCancelled, Write
  <1>7. RowsTypeOK /\ Uncancelled /\ status[t] \in Active
    BY <1>4 DEF TypeOK, Orderly, Active
  <1>8. Moves(t) /\ status'[t] # "running"
    BY <1>6, <1>7, FailMoves, UpdateMoves DEF MarkSucceeded, RequeueAttempt
  <1> QED BY <1>1, <1>5, <1>6, <1>8, TaskEndsOrderly, ResumeEndsOrderly

(***************************************************************************)
(* The steps of the loop, the clients and the outages.                     *)
(***************************************************************************)

\* A step that leaves the rows and what the workers have of them alone.
LEMMA StillOrderly ==
  ASSUME Orderly, UNCHANGED <<rows, hand, co, re, slot, snap>>,
         \A w \in Worker : Steady(w)',
         \A w \in Worker : scanned[w] => scanned'[w],
         \A w \in Worker : Scans(w) => Scans(w)' \/ scanned'[w],
         \A w \in Worker : scanned'[w] => scanned[w] \/ Scans(w),
         \A w \in Worker : Scans(w)' => scanned[w] \/ Scans(w)
  PROVE  Orderly'
  <1>1. ASSUME NEW w \in Worker, NEW t \in Row
        PROVE  Entry(w, t)'
    <2>1. Entry(w, t) /\ (Engaged(w, t)' <=> Engaged(w, t)) /\ (Exclusive(w, t)' <=> Exclusive(w, t))
      BY DEF Orderly, Engaged, Exclusive
    <2>2. status'[t] = status[t]
      BY DEF rows
    <2> QED BY <2>1, <2>2 DEF Entry
  <1>2. Uncancelled' /\ OnePerKey'
    BY DEF Orderly, Uncancelled, OnePerKey, rows
  <1> QED BY <1>1, <1>2 DEF Orderly

\* Steady again after a step of the loop of w.
LEMMA StepSteady ==
  ASSUME Orderly, NEW w \in Worker, UNCHANGED <<proc, owns, lost, lease>>,
         \A v \in Worker \ {w} : pc'[v] = pc[v] /\ scanned'[v] = scanned[v],
         Steady(w)'
  PROVE  \A v \in Worker : Steady(v)'
  <1> SUFFICES ASSUME NEW v \in Worker, v # w PROVE Steady(v)'
    OBVIOUS
  <1>1. Steady(v) /\ pc'[v] = pc[v] /\ scanned'[v] = scanned[v]
    BY DEF Orderly
  <1> QED BY <1>1 DEF Steady, Scans

LEMMA EnqueueOrderly ==
  ASSUME TypeOK, Orderly, NEW k \in Key, NEW d \in Inserted \cup {NoRow}, Enqueue(k, d)
  PROVE  Orderly'
  <1>1. PICK t \in Row : Insert(t, k, d)
    BY DEF Enqueue
  <1>2. UNCHANGED <<proc, pc, owns, scanned, lost, hand, co, re, slot, snap, lease>>
    BY DEF Enqueue, loop, work
  <1>3. /\ status[t] = "absent" /\ status'[t] = "queued" /\ key'[t] = k
        /\ \A r \in Row \ {t} : status'[r] = status[r] /\ key'[r] = key[r]
        /\ \A r \in Row : ~ (status[r] \in Active /\ key[r] = k)
    BY <1>1 DEF Insert, TypeOK, RowsTypeOK, ActiveWith
  <1>4. Uncancelled' /\ OnePerKey'
    BY <1>3 DEF Orderly, Uncancelled, OnePerKey
  <1>5. \A r \in Row : status'[r] = "running" <=> status[r] = "running"
    BY <1>3
  <1>6. \A w \in Worker : Steady(w)'
    BY <1>2 DEF Orderly, Steady, Scans
  <1>7. ASSUME NEW w \in Worker, NEW r \in Row
        PROVE  Entry(w, r)'
    <2>1. /\ Entry(w, r) /\ (Engaged(w, r)' <=> Engaged(w, r)) /\ (Exclusive(w, r)' <=> Exclusive(w, r))
          /\ (Scans(w)' <=> Scans(w))
      BY <1>2 DEF Orderly, Engaged, Exclusive, Scans
    <2> QED BY <1>2, <1>5, <2>1 DEF Entry
  <1> QED BY <1>4, <1>6, <1>7 DEF Orderly

LEMMA StartOrderly ==
  ASSUME TypeOK, Orderly, NEW w \in Worker, Start(w) \/ ReloadLimits(w)
  PROVE  Orderly'
  <1>1. UNCHANGED <<rows, pc, owns, scanned, lost, hand, co, re, slot, snap, lease>>
    BY DEF Start, ReloadLimits, work
  <1>2. proc' = proc \/ proc' = [proc EXCEPT ![w] = "up"]
    BY DEF Start, ReloadLimits
  <1>3. \A v \in Worker : proc'[v] = proc[v] \/ proc'[v] = "up"
    BY <1>2 DEF TypeOK
  <1>4. ASSUME NEW v \in Worker
        PROVE  Steady(v)' /\ (Scans(v)' <=> Scans(v))
    BY <1>1, <1>3 DEF Orderly, Steady, Scans
  <1> QED BY <1>1, <1>4, StillOrderly

\* The lease changes hands only when nobody has it.
LEMMA RenewOrderly ==
  ASSUME TypeOK, Orderly, NEW w \in Worker, Renew(w)
  PROVE  Orderly'
  <1>1. UNCHANGED <<rows, hand, co, re, slot, snap, proc>> /\ pc[w] = "renew" /\ proc[w] = "up"
    BY DEF Renew, work, At
  <1>2. /\ pc'[w] = "drain"
        /\ \A v \in Worker \ {w} : pc'[v] = pc[v] /\ owns'[v] = owns[v] /\ lost'[v] = lost[v]
    BY DEF Renew, Goto, TypeOK
  <1>3. Steady(w) /\ ~ lost[w]
    BY DEF Orderly, Steady
  <1>4. scanned' = scanned
    BY <1>3 DEF Renew
  <1>5. owns'[w] <=> Obtainable(w)
    BY DEF Renew, TypeOK
  <1>6. owns[w] => Obtainable(w)
    BY <1>3 DEF Steady, Obtainable
  <1>7. lost' = [lost EXCEPT ![w] = ~ Obtainable(w) /\ (@ \/ owns[w])]
    BY DEF Renew
  <1>8. lost'[w] = (~ Obtainable(w) /\ (lost[w] \/ owns[w]))
    BY <1>7 DEF TypeOK
  <1>9. lost'[w] = FALSE
    BY <1>3, <1>6, <1>8
  <1>10. lease' = IF Obtainable(w) THEN [owner |-> w, expired |-> FALSE] ELSE lease
    BY DEF Renew
  <1>11. Steady(w)'
    BY <1>1, <1>2, <1>3, <1>4, <1>5, <1>6, <1>9, <1>10 DEF Steady, Scans
  <1>12. ASSUME NEW v \in Worker, v # w
         PROVE  Steady(v)'
    <2>1. Steady(v) /\ pc'[v] = pc[v] /\ owns'[v] = owns[v] /\ lost'[v] = lost[v]
          /\ scanned'[v] = scanned[v] /\ proc'[v] = proc[v]
      BY <1>1, <1>2, <1>4, <1>12 DEF Orderly
    <2>2. owns[v] => lease.owner # w /\ lease.expired = FALSE
      BY <1>12, <2>1 DEF Steady
    <2>3. owns[v] => lease' = lease
      BY <1>10, <2>2 DEF Obtainable
    <2> QED BY <2>1, <2>3 DEF Steady, Scans
  <1>13. \A v \in Worker : (Scans(v)' <=> Scans(v))
    BY <1>1, <1>2 DEF Scans
  <1> QED BY <1>1, <1>4, <1>11, <1>12, <1>13, StillOrderly

\* The loop goes on.
LEMMA PlaceOrderly ==
  ASSUME TypeOK, Orderly, NEW w \in Worker, Drained(w) \/ ClaimNothing(w)
  PROVE  Orderly'
  <1>1. UNCHANGED <<rows, proc, owns, scanned, lost, hand, co, re, slot, snap, lease>>
    BY DEF Drained, ClaimNothing, work
  <1>2. /\ pc[w] \in {"drain", "image", "video"}
        /\ \/ pc'[w] = "renew"
           \/ pc'[w] = "image" /\ scanned[w]
           \/ pc'[w] = "scan" /\ owns[w] /\ ~ scanned[w]
           \/ pc'[w] = "video" /\ pc[w] = "image"
        /\ \A v \in Worker \ {w} : pc'[v] = pc[v]
    BY DEF Drained, ClaimNothing, NextMedia, Goto, At, TypeOK
  <1>3. Steady(w)
    BY DEF Orderly
  <1>4. Steady(w)'
    BY <1>1, <1>2, <1>3 DEF Steady, Scans
  <1>5. \A v \in Worker : (Scans(v)' <=> Scans(v))
    BY <1>2 DEF Scans
  <1>6. \A v \in Worker : Steady(v)'
    BY <1>1, <1>2, <1>4, StepSteady
  <1> QED BY <1>1, <1>5, <1>6, StillOrderly

\* A scan finds no cancelled row, and its owner still has none.
LEMMA SelectOrderly ==
  ASSUME TypeOK, Orderly, NEW w \in Worker, ScanSelect(w)
  PROVE  Orderly'
  <1>1. UNCHANGED <<rows, proc, owns, scanned, lost, hand, co, re, slot, lease>>
    BY DEF ScanSelect, work
  <1>2. pc[w] = "scan" /\ pc'[w] = "filter" /\ (\A v \in Worker \ {w} : pc'[v] = pc[v])
    BY DEF ScanSelect, Goto, At, TypeOK
  <1>3. snap' = [snap EXCEPT ![w] = [t \in Row |-> OrphanPlan(t)]]
    BY DEF ScanSelect
  <1>4. /\ \A t \in Row : snap'[w][t] = OrphanPlan(t)
        /\ \A v \in Worker \ {w} : snap'[v] = snap[v]
    BY <1>3 DEF TypeOK
  <1>5. Steady(w) /\ owns[w] /\ ~ scanned[w]
    BY <1>2 DEF Orderly, Steady
  <1>6. Steady(w)'
    BY <1>1, <1>2, <1>5 DEF Steady, Scans
  <1>7. \A v \in Worker : Steady(v)'
    BY <1>1, <1>2, <1>6, StepSteady
  <1>8. ASSUME NEW t \in Row
        PROVE  Entry(w, t)'
    <2>1. /\ hand'[w] # t /\ co'[w][t] = "none" /\ re'[w][t] = "none" /\ slot'[w][t] = "none"
          /\ ~ scanned'[w] /\ Scans(w)' /\ status'[t] = status[t]
      BY <1>1, <1>2, <1>5 DEF Orderly, Entry, Scans, rows
    <2>2. /\ snap'[w][t] \in {"none", "fail", "resume"}
          /\ (snap'[w][t] # "none" <=> status[t] = "running")
      BY <1>4 DEF Orderly, Uncancelled, OrphanPlan
    <2> QED BY <2>1, <2>2 DEF Entry, Engaged, Exclusive, Live, Executed
  <1>9. ASSUME NEW v \in Worker, v # w, NEW t \in Row
        PROVE  Entry(v, t)'
    <2>1. Entry(v, t) /\ pc'[v] = pc[v] /\ snap'[v] = snap[v] /\ status'[t] = status[t]
      BY <1>1, <1>2, <1>4, <1>9 DEF Orderly, rows
    <2>2. (Engaged(v, t)' <=> Engaged(v, t)) /\ (Exclusive(v, t)' <=> Exclusive(v, t))
          /\ (Scans(v)' <=> Scans(v))
      BY <1>1, <2>1 DEF Engaged, Exclusive, Scans
    <2> QED BY <1>1, <2>1, <2>2 DEF Entry
  <1>10. Uncancelled' /\ OnePerKey'
    BY <1>1 DEF Orderly, Uncancelled, OnePerKey, rows
  <1> QED BY <1>7, <1>8, <1>9, <1>10 DEF Orderly

LEMMA FilterOrderly ==
  ASSUME TypeOK, Orderly, NEW w \in Worker, ScanFilter(w)
  PROVE  Orderly'
  <1>1. UNCHANGED <<rows, proc, owns, scanned, lost, hand, co, re, slot, lease>>
    BY DEF ScanFilter, work
  <1>2. pc[w] = "filter" /\ pc'[w] = "orphans" /\ (\A v \in Worker \ {w} : pc'[v] = pc[v])
    BY DEF ScanFilter, Goto, At, TypeOK
  <1>3. Steady(w) /\ ~ scanned[w] /\ Scans(w) /\ Scans(w)'
    BY <1>2 DEF Orderly, Steady, Scans
  <1>4. \A t \in Row : ~ Listed(w, t)
    BY <1>3 DEF Orderly, Entry, Listed, Pending
  <1>5. snap' = [snap EXCEPT ![w] = [t \in Row |-> IF Listed(w, t) THEN "none" ELSE @[t]]]
    BY DEF ScanFilter
  <1>6. \A v \in Worker, t \in Row : snap'[v][t] = snap[v][t]
    BY <1>4, <1>5 DEF TypeOK
  <1>7. snap' = snap
    <2>1. /\ DOMAIN snap' = Worker /\ DOMAIN snap = Worker
          /\ \A v \in Worker : DOMAIN snap'[v] = Row /\ DOMAIN snap[v] = Row
      BY <1>5 DEF TypeOK
    <2>2. \A v \in Worker : snap[v] = [t \in Row |-> snap[v][t]]
      BY DEF TypeOK
    <2>3. \A v \in Worker : snap'[v] = [t \in Row |-> snap'[v][t]]
      BY <1>5 DEF TypeOK
    <2>4. \A v \in Worker : snap'[v] = snap[v]
      BY <1>6, <2>2, <2>3
    <2>5. snap = [v \in Worker |-> snap[v]] /\ snap' = [v \in Worker |-> snap'[v]]
      BY <1>5 DEF TypeOK
    <2> QED BY <2>4, <2>5
  <1>8. Steady(w)'
    BY <1>1, <1>2, <1>3 DEF Steady, Scans
  <1>9. \A v \in Worker : Steady(v)'
    BY <1>1, <1>2, <1>8, StepSteady
  <1>10. \A v \in Worker : (Scans(v)' <=> Scans(v))
    BY <1>2 DEF Scans
  <1> QED BY <1>1, <1>7, <1>9, <1>10, StillOrderly

LEMMA ScanEndOrderly ==
  ASSUME TypeOK, Orderly, NEW w \in Worker, ScanEnd(w)
  PROVE  Orderly'
  <1>1. UNCHANGED <<rows, proc, owns, lost, hand, co, re, slot, snap, lease>>
    BY DEF ScanEnd, work
  <1>2. /\ pc[w] = "orphans" /\ pc'[w] = "image" /\ scanned'[w]
        /\ \A v \in Worker \ {w} : pc'[v] = pc[v] /\ scanned'[v] = scanned[v]
    BY DEF ScanEnd, Goto, At, TypeOK
  <1>3. Steady(w) /\ owns[w] /\ Scans(w)
    BY <1>2 DEF Orderly, Steady, Scans
  <1>4. Steady(w)'
    BY <1>1, <1>2, <1>3 DEF Steady, Scans
  <1>5. \A v \in Worker : Steady(v)'
    BY <1>1, <1>2, <1>4, StepSteady
  <1>6. \A v \in Worker : /\ scanned[v] => scanned'[v]
                          /\ Scans(v) => Scans(v)' \/ scanned'[v]
                          /\ scanned'[v] => scanned[v] \/ Scans(v)
                          /\ Scans(v)' => scanned[v] \/ Scans(v)
    BY <1>2, <1>3 DEF Scans
  <1> QED BY <1>1, <1>5, <1>6, StillOrderly

\* What a crashed process had is nobody's until the next scan.
LEMMA CrashOrderly ==
  ASSUME TypeOK, Orderly, NEW w \in Worker, Crash(w)
  PROVE  Orderly'
  <1>1. UNCHANGED rows /\ Forget(w)
    BY DEF Crash, Forget
  <1>2. /\ proc'[w] = "down" /\ pc'[w] = "renew" /\ ~ owns'[w] /\ ~ scanned'[w] /\ lost'[w] = FALSE
        /\ hand'[w] = NoRow
    BY <1>1 DEF Forget, Goto, TypeOK
  <1>3. \A t \in Row : /\ co'[w][t] = "none" /\ re'[w][t] = "none" /\ slot'[w][t] = "none"
                       /\ snap'[w][t] = "none"
    BY <1>1 DEF Forget, TypeOK
  <1>4. \A v \in Worker \ {w} :
          /\ proc'[v] = proc[v] /\ pc'[v] = pc[v] /\ owns'[v] = owns[v] /\ scanned'[v] = scanned[v]
          /\ lost'[v] = lost[v] /\ hand'[v] = hand[v]
    BY <1>1 DEF Forget, Goto, TypeOK
  <1>5. \A v \in Worker \ {w} :
          co'[v] = co[v] /\ re'[v] = re[v] /\ slot'[v] = slot[v] /\ snap'[v] = snap[v]
    BY <1>1 DEF Forget, TypeOK
  <1>6. lease' = IF lease.owner = w THEN [lease EXCEPT !.owner = NoWorker] ELSE lease
    BY DEF Crash
  <1>7. ASSUME NEW v \in Worker, v # w
        PROVE  Steady(v)'
    <2>1. Steady(v)
      BY DEF Orderly
    <2>2. owns[v] => lease' = lease
      BY <1>6, <1>7, <2>1 DEF Steady
    <2> QED BY <1>4, <1>7, <2>1, <2>2 DEF Steady, Scans
  <1>8. Steady(w)' /\ ~ Scans(w)'
    BY <1>2 DEF Steady, Scans
  <1>9. ASSUME NEW t \in Row
        PROVE  Entry(w, t)'
    BY <1>2, <1>3, <1>8 DEF Entry, Engaged, Exclusive, Live, Executed, Row, NoRow
  <1>10. ASSUME NEW v \in Worker, v # w, NEW t \in Row
         PROVE  Entry(v, t)'
    <2>1. Entry(v, t) /\ status'[t] = status[t]
      BY <1>1 DEF Orderly, rows
    <2>2. (Engaged(v, t)' <=> Engaged(v, t)) /\ (Exclusive(v, t)' <=> Exclusive(v, t))
          /\ (Scans(v)' <=> Scans(v))
      BY <1>4, <1>5, <1>10 DEF Engaged, Exclusive, Scans
    <2> QED BY <1>4, <1>5, <1>10, <2>1, <2>2 DEF Entry
  <1>11. Uncancelled' /\ OnePerKey'
    BY <1>1 DEF Orderly, Uncancelled, OnePerKey, rows
  <1> QED BY <1>7, <1>8, <1>9, <1>10, <1>11 DEF Orderly

\* Only what nobody holds runs out.
LEMMA ExpireOrderly ==
  ASSUME OnlyCrashes, TypeOK, Orderly, Expire
  PROVE  Orderly'
  <1>1. UNCHANGED <<rows, proc, pc, owns, scanned, lost, hand, co, re, slot, snap>>
    BY DEF Expire, loop, work
  <1>2. lease.owner = NoWorker
    BY DEF Expire, Fault, OnlyCrashes, Orderly, Steady
  <1>3. \A v \in Worker : ~ owns[v]
    BY <1>2, WorkerAssumption DEF Orderly, Steady
  <1>4. \A v \in Worker : Steady(v)' /\ (Scans(v)' <=> Scans(v))
    BY <1>1, <1>3 DEF Orderly, Steady, Scans
  <1> QED BY <1>1, <1>4, StillOrderly

LEMMA CoroutineOrderly ==
  ASSUME OnlyCrashes, TypeOK, Orderly, NEW w \in Worker, NEW t \in Row,
         Coroutine(w, t) \/ Submit(w, t)
  PROVE  Orderly'
  <1>1. CASE Orphan(w, t)
    BY <1>1, OrphanOrderly
  <1>2. CASE DispatchResume(w, t)
    BY <1>2, DispatchOrderly
  <1>3. CASE Enter(w, t)
    BY <1>3, ResumeGoesOrderly DEF Enter, loop
  <1>4. CASE Promote(w, t)
    BY <1>4, PromoteOrderly
  <1>5. CASE Begin(w, t)
    <2>1. "exec" \in Executed /\ "start" \in Live
      BY DEF Live, Executed
    <2>2. co[w][t] \in Live /\ TaskGoes(w, t, "exec")
      BY <1>5, <2>1 DEF Begin
    <2>3. UNCHANGED <<rows, proc, pc, owns, scanned, lost, hand, snap, lease>>
      BY <1>5 DEF Begin, loop
    <2> QED BY <2>1, <2>2, <2>3, TaskGoesOrderly
  <1>6. CASE Answer(w, t)
    <2>1. {"ok", "err"} \subseteq Executed /\ "exec" \in Live
      BY DEF Live, Executed
    <2>2. UNCHANGED <<rows, proc, pc, owns, scanned, lost, hand, snap, lease>>
      BY <1>6 DEF Answer, loop
    <2>3. PICK x \in {"ok", "err"} : \/ co[w][t] = "exec" /\ TaskGoes(w, t, x)
                                     \/ re[w][t] = "exec" /\ ResumeGoes(w, t, x)
      BY <1>6 DEF Answer
    <2>4. CASE co[w][t] = "exec" /\ TaskGoes(w, t, x)
      BY <2>1, <2>2, <2>4, TaskGoesOrderly
    <2>5. CASE re[w][t] = "exec" /\ ResumeGoes(w, t, x)
      BY <2>1, <2>2, <2>5, ResumeGoesOrderly
    <2> QED BY <2>3, <2>4, <2>5
  <1>7. CASE WriteResult(w, t) \/ WriteFailure(w, t) \/ WriteCancelled(w, t)
    BY <1>7, WriteOrderly
  <1>8. CASE Submit(w, t)
    <2>1. UNCHANGED <<rows, proc, pc, owns, scanned, lost, hand, co, re, slot, snap, lease>>
      BY <1>8 DEF Submit, loop, work
    <2>2. \A v \in Worker : Steady(v)' /\ (Scans(v)' <=> Scans(v))
      BY <2>1 DEF Orderly, Steady, Scans
    <2> QED BY <2>1, <2>2, StillOrderly
  <1> QED BY <1>1, <1>2, <1>3, <1>4, <1>5, <1>6, <1>7, <1>8 DEF Coroutine

LEMMA LoopOrderly ==
  ASSUME TypeOK, Orderly, NEW w \in Worker, Loop(w)
  PROVE  Orderly'
  <1>1. proc[w] # "stopping" /\ pc[w] # "wind"
    BY DEF Orderly, Steady
  <1>2. ~ WindDown(w) /\ ~ Stopped(w)
    BY <1>1 DEF WindDown, Stopped, At
  <1> QED
    BY <1>2, RenewOrderly, DrainOrderly, PlaceOrderly, ClaimOrderly, RouteOrderly, SelectOrderly,
       FilterOrderly, ScanEndOrderly DEF Loop

LEMMA StepOrderly ==
  ASSUME OnlyCrashes, TypeOK, Orderly, [Next]_vars
  PROVE  Orderly'
  <1>1. CASE UNCHANGED vars
    <2>1. UNCHANGED <<rows, proc, pc, owns, scanned, lost, hand, co, re, slot, snap, lease>>
      BY <1>1 DEF vars, loop, work
    <2>2. \A v \in Worker : Steady(v)' /\ (Scans(v)' <=> Scans(v))
      BY <2>1 DEF Orderly, Steady, Scans
    <2> QED BY <2>1, <2>2, StillOrderly
  <1>2. CASE \E k \in Key, d \in Inserted \cup {NoRow} : Enqueue(k, d)
    BY <1>2, EnqueueOrderly
  <1>3. CASE \E w \in Worker : Start(w) \/ ReloadLimits(w)
    BY <1>3, StartOrderly
  <1>4. CASE \E w \in Worker : Loop(w)
    BY <1>4, LoopOrderly
  <1>5. CASE \E w \in Worker, t \in Row : Coroutine(w, t) \/ Submit(w, t)
    BY <1>5, CoroutineOrderly
  <1>6. CASE Outage
    <2>1. \A w \in Worker : ~ Stop(w) /\ ~ LoopFails(w)
      BY DEF Stop, LoopFails, Fault, OnlyCrashes
    <2> QED BY <1>6, <2>1, ExpireOrderly, CrashOrderly DEF Outage
  <1>7. Session = {} /\ ~ CancelAllQueued
    BY DEF OnlyCrashes, CancelAllQueued
  <1> QED BY <1>1, <1>2, <1>3, <1>4, <1>5, <1>6, <1>7 DEF Next

LEMMA InitOrderly == Init => Orderly
  <1> SUFFICES ASSUME Init PROVE Orderly
    OBVIOUS
  <1>1. \A w \in Worker : Steady(w) /\ ~ scanned[w] /\ ~ Scans(w)
    BY DEF Init, Steady, Scans
  <1>2. \A w \in Worker, t \in Row : Entry(w, t)
    BY <1>1 DEF Init, Entry, Engaged, Exclusive, Live, Executed, Row, NoRow
  <1>3. Uncancelled /\ OnePerKey
    BY DEF Init, RowsInit, Uncancelled, OnePerKey, Active
  <1> QED BY <1>1, <1>2, <1>3 DEF Orderly

LEMMA OrderlyKeepsRows == Orderly => NoLostRow
  <1> SUFFICES ASSUME Orderly, NEW w \in Worker, scanned[w],
                      NEW t \in Row, status[t] \in {"running", "cancelling"}
               PROVE  Attended(t)
    BY DEF NoLostRow
  <1>1. Entry(w, t) /\ status[t] = "running"
    BY DEF Orderly, Uncancelled
  <1>2. Engaged(w, t)
    BY <1>1 DEF Entry
  <1> QED BY <1>1, <1>2 DEF Entry, Engaged, Attended, Live, Executed

LEMMA OrderlyHasNoTwins == Orderly => NoTwinWork
  <1> SUFFICES ASSUME Orderly, NEW x \in Executions, NEW y \in Executions,
                      key[x.row] = key[y.row]
               PROVE  x = y
    BY DEF NoTwinWork
  <1>1. ASSUME NEW z \in Executions
        PROVE  /\ z.worker \in Worker /\ z.row \in Row /\ z.resumed \in BOOLEAN
               /\ z = [worker |-> z.worker, row |-> z.row, resumed |-> z.resumed]
               /\ IF z.resumed THEN re[z.worker][z.row] \in Executed
                               ELSE co[z.worker][z.row] \in Executed
    BY <1>1 DEF Executions
  <1>2. ASSUME NEW z \in Executions
        PROVE  status[z.row] = "running" /\ owns[z.worker]
    <2>1. Entry(z.worker, z.row) /\ Steady(z.worker)
      BY <1>1 DEF Orderly
    <2>2. Executed \subseteq Live /\ "none" \notin Executed
      BY DEF Live, Executed
    <2>3. Engaged(z.worker, z.row)
      BY <1>1, <2>2 DEF Engaged
    <2>4. scanned[z.worker]
      BY <1>1, <2>1, <2>2 DEF Entry
    <2> QED BY <2>1, <2>3, <2>4 DEF Entry, Steady
  <1>3. x.row = y.row
    BY <1>1, <1>2 DEF Orderly, OnePerKey, Active
  <1>4. x.worker = y.worker
    BY <1>1, <1>2 DEF Orderly, Steady
  <1>5. Exclusive(x.worker, x.row) /\ Executed \subseteq Live /\ "none" \notin Executed
    BY <1>1 DEF Orderly, Entry, Live, Executed
  <1>6. x.resumed = y.resumed
    BY <1>1, <1>3, <1>4, <1>5 DEF Exclusive
  <1> QED BY <1>1, <1>3, <1>4, <1>6

LEMMA OrderlyAlways ==
  ASSUME OnlyCrashes
  PROVE  Spec => [](TypeOK /\ Loaded /\ Orderly)
  <1>1. Init => TypeOK /\ Loaded /\ Orderly
    BY InitTyped, InitOrderly
  <1>2. TypeOK /\ Loaded /\ Orderly /\ [Next]_vars => (TypeOK /\ Loaded /\ Orderly)'
    BY StepTyped, StepOrderly
  <1> QED BY <1>1, <1>2, PTL DEF Spec

\* No two executions ever work for one resource, while processes crash and take
\* the lease over but are not stopped or stalled, and no row is cancelled: a row
\* is resumed by a process that does not execute it, after the one that did died.
THEOREM WorkerNoTwinWork ==
  ASSUME OnlyCrashes
  PROVE  Spec => []NoTwinWork
  BY OrderlyAlways, OrderlyHasNoTwins, PTL

\* Every running row is in the hands of a worker that has scanned: however often
\* processes crash, none is forgotten between the scan, the dispatch, the claim
\* and the pools.
THEOREM WorkerNoLostRow ==
  ASSUME OnlyCrashes
  PROVE  Spec => []NoLostRow
  BY OrderlyAlways, OrderlyKeepsRows, PTL

(***************************************************************************)
(* The desktop plugin: DesktopQueue.  All of its steps but two are steps   *)
(* of GenerationWorker: a child that ends because it is idle, and a bridge *)
(* that dies, change nothing about the rows.                               *)
(***************************************************************************)

\* What a client is about to enqueue has a key.
BridgeTyped ==
  /\ BridgeTypeOK
  /\ \A c \in Client : client[c].at \in {"start", "starting", "enqueue"} => client[c].key \in Key

LEMMA EnqueueTaskStep ==
  ASSUME NEW k \in Key, EnqueueTask(k)
  PROVE  UNCHANGED vars \/ \E d \in Inserted \cup {NoRow} : Enqueue(k, d)
  BY DEF EnqueueTask

LEMMA EnsureStep ==
  ASSUME Ensure
  PROVE  \/ UNCHANGED <<vars, child, idle>>
         \/ /\ ~Running
            /\ \E w \in Worker : Start(w) /\ child' = w
            /\ UNCHANGED idle
  <1>1. CASE Running
    BY <1>1 DEF Ensure
  <1>2. CASE ~Running
    <2> DEFINE w == CHOOSE v \in Worker : proc[v] = "down"
    <2>1. w \in Worker
      BY <1>2 DEF Ensure
    <2>2. Start(w) /\ child' = w /\ UNCHANGED idle
      BY <1>2 DEF Ensure
    <2> QED BY <1>2, <2>1, <2>2
  <1> QED BY <1>1, <1>2

LEMMA DesktopStep ==
  ASSUME BridgeTyped, [DesktopNext]_desktopVars
  PROVE  [Next]_vars \/ (\E w \in Worker : IdleExit(w)) \/ BridgeDies
  <1>1. ASSUME NEW c \in Client, NEW k \in Key, Generate(c, k) \/ AskOnline(c, k)
        PROVE  [Next]_vars
    BY <1>1, EnqueueTaskStep DEF Generate, AskOnline, Next
  <1>2. ASSUME NEW c \in Client, Subscribe(c) \/ ClientStep(c)
        PROVE  [Next]_vars
    <2>1. CASE EnqueueOnline(c)
      <3>1. client[c].key \in Key /\ EnqueueTask(client[c].key)
        BY <2>1 DEF EnqueueOnline, ClientAt, BridgeTyped
      <3> QED BY <3>1, EnqueueTaskStep DEF Next
    <2>2. CASE Subscribe(c) \/ Started(c)
      BY <2>2 DEF Subscribe, Started
    <2>3. CASE EnsureChild(c) \/ StartChild(c)
      <3>1. Ensure
        BY <2>3 DEF EnsureChild, StartChild
      <3> QED BY <3>1, EnsureStep DEF Next
    <2> QED BY <1>2, <2>1, <2>2, <2>3 DEF ClientStep
  <1>3. ASSUME NEW s \in Session, CancelStep(s) \/ \E t \in Row : CancelLoad(s, t)
        PROVE  [Next]_vars
    BY <1>3 DEF CancelStep, Next
  <1>4. ASSUME NEW w \in Worker, SeesIdle(w) \/ WorkerLoop(w)
        PROVE  [Next]_vars
    BY <1>4 DEF SeesIdle, WorkerLoop, Next
  <1>5. ASSUME NEW w \in Worker, NEW t \in Row, WorkerCoroutine(w, t) \/ Submit(w, t)
        PROVE  [Next]_vars
    BY <1>5 DEF WorkerCoroutine, Next
  <1>6. CASE Outage
    BY <1>6 DEF Next
  <1>7. CASE UNCHANGED desktopVars
    BY <1>7 DEF desktopVars
  <1> QED BY <1>1, <1>2, <1>3, <1>4, <1>5, <1>6, <1>7 DEF DesktopNext

LEMMA StepBridge ==
  ASSUME BridgeTyped, [DesktopNext]_desktopVars
  PROVE  BridgeTyped'
  <1> USE DEF BridgeTyped, BridgeTypeOK
  <1>1. ASSUME NEW c \in Client, NEW k \in Key, Generate(c, k) \/ AskOnline(c, k)
        PROVE  BridgeTyped'
    BY <1>1 DEF Generate, AskOnline, ClientAt, Goes
  <1>2. ASSUME NEW c \in Client, Subscribe(c) \/ Started(c) \/ EnqueueOnline(c)
        PROVE  BridgeTyped'
    BY <1>2 DEF Subscribe, Started, EnqueueOnline, ClientAt, Goes, Rests, Resting
  <1>3. ASSUME NEW c \in Client, EnsureChild(c) \/ StartChild(c)
        PROVE  BridgeTyped'
    <2>1. Ensure
      BY <1>3 DEF EnsureChild, StartChild
    <2>2. child' \in Worker \cup {NoWorker} /\ idle' \in [Worker -> BOOLEAN]
      BY <2>1, EnsureStep
    <2> QED BY <1>3, <2>2 DEF EnsureChild, StartChild, ClientAt, Goes, Rests, Resting
  <1>4. CASE Same
    BY <1>4 DEF Same
  <1>5. ASSUME NEW w \in Worker, SeesIdle(w) \/ IdleExit(w)
        PROVE  BridgeTyped'
    BY <1>5 DEF SeesIdle, IdleExit
  <1>6. CASE BridgeDies
    BY <1>6 DEF BridgeDies, Resting
  <1>7. CASE UNCHANGED desktopVars
    BY <1>7 DEF desktopVars, bridge
  <1> QED
    BY <1>1, <1>2, <1>3, <1>4, <1>5, <1>6, <1>7
    DEF DesktopNext, ClientStep, WorkerLoop, WorkerCoroutine, CancelStep

LEMMA IdleExitIInv ==
  ASSUME IInv, KnownRows, NEW w \in Worker, IdleExit(w)
  PROVE  IInv' /\ KnownRows'
  <1>1. CASE pc[w] = "dead"
    <2>1. Forget(w) /\ UNCHANGED <<lease, outages>>
      BY <1>1 DEF IdleExit
    <2>2. TypeOK' /\ Loaded'
      BY <2>1 DEF IInv, TypeOK, RowsTypeOK, Loaded, Forget, Goto, rows, Idle, Row, NoRow, Status, TaskState, ResumeState
    <2>3. Quiet
      BY <2>1 DEF IInv, TypeOK, Forget, Quiet, Live, Executed, Row, NoRow
    <2>4. Calm
      BY <2>1, UnchangedCalm DEF Forget, IInv, TypeOK
    <2>5. KnownRows'
      BY <2>1 DEF IInv, TypeOK, KnownRows, Forget, rows, Row, NoRow
    <2> QED BY <2>2, <2>3, <2>4, <2>5, QuietStep DEF IInv
  <1>2. CASE pc[w] # "dead"
    <2>1. /\ proc' = [proc EXCEPT ![w] = "stopping"]
          /\ UNCHANGED <<rows, pc, cap, owns, scanned, lost, hand, work, snap, lease, job, api,
                         starts, outages>>
      BY <1>2 DEF IdleExit
    <2>2. TypeOK' /\ Loaded'
      BY <2>1 DEF IInv, TypeOK, RowsTypeOK, Loaded, rows, work
    <2>3. Quiet /\ Calm
      BY <2>1, CoQuiet, UnchangedCalm DEF IInv, TypeOK, work
    <2>4. KnownRows'
      BY <2>1 DEF KnownRows, rows, work
    <2> QED BY <2>2, <2>3, <2>4, QuietStep DEF IInv
  <1> QED BY <1>1, <1>2

LEMMA BridgeDiesIInv ==
  ASSUME IInv, KnownRows, BridgeDies
  PROVE  IInv' /\ KnownRows'
  <1>1. /\ api' = [s \in Session |-> Idle] /\ outages < MaxOutages /\ outages' = outages + 1
        /\ UNCHANGED <<rows, loop, work, snap, lease, job, starts>>
    BY DEF BridgeDies, Fault
  <1>2. TypeOK' /\ Loaded'
    BY <1>1, OutageAssumption DEF IInv, TypeOK, RowsTypeOK, Loaded, rows, loop, work, Idle, Row, NoRow, Status
  <1>3. Quiet /\ Calm
    BY <1>1, CoQuiet, UnchangedCalm DEF IInv, TypeOK, loop, work
  <1>4. KnownRows'
    BY <1>1 DEF KnownRows, rows, loop, work
  <1> QED BY <1>2, <1>3, <1>4, QuietStep DEF IInv

DesktopTyped == IInv /\ KnownRows /\ BridgeTyped

LEMMA StepDesktopTyped ==
  ASSUME DesktopTyped, [DesktopNext]_desktopVars
  PROVE  DesktopTyped'
  <1>1. BridgeTyped'
    BY StepBridge DEF DesktopTyped
  <1>2. CASE [Next]_vars
    BY <1>1, <1>2, StepIInv, StepKnown DEF DesktopTyped, IInv
  <1>3. ASSUME NEW w \in Worker, IdleExit(w)
        PROVE  DesktopTyped'
    BY <1>1, <1>3, IdleExitIInv DEF DesktopTyped
  <1>4. CASE BridgeDies
    BY <1>1, <1>4, BridgeDiesIInv DEF DesktopTyped
  <1> QED BY <1>2, <1>3, <1>4, DesktopStep DEF DesktopTyped

LEMMA InitDesktopTyped == DesktopInit => DesktopTyped
  <1> SUFFICES ASSUME DesktopInit PROVE DesktopTyped
    OBVIOUS
  <1>1. IInv
    BY InitCore DEF DesktopInit
  <1>2. KnownRows
    BY DEF DesktopInit, Init, KnownRows, Row, NoRow
  <1>3. BridgeTyped
    BY DEF DesktopInit, BridgeTyped, BridgeTypeOK, Resting
  <1> QED BY <1>1, <1>2, <1>3 DEF DesktopTyped

(***************************************************************************)
(* AlwaysAttended.  Without an outage there is one process at a time, it   *)
(* has the lease whenever it asks, and every running row is in its hand or *)
(* in one of its coroutines: so it cannot end before that row does.        *)
(***************************************************************************)

Busy == Live \cup {"zero"}

HasIt(w, t) == hand[w] = t \/ co[w][t] \in Busy

\* The settings leave every lane some room, and no claim passes over a full pool.
RoomKept == Unlabelled = {} /\ \A limits \in Configs, l \in Lane : limits[l] > 0

\* The rows that are held: a row asked to stop while it is in hand may be dropped
\* when it turns out to have no pool, or a full one.
Held(t) == status[t] = "running" \/ (RoomKept /\ status[t] = "cancelling")

Alone == \A w \in Worker : proc[w] # "down" => w = child

LeaseWell ==
  /\ \A w \in Worker : owns[w] <=> lease.owner = w
  /\ lease.owner = NoWorker => lease.expired

LoopsWell ==
  \A w \in Worker :
    /\ pc[w] # "dead" /\ ~lost[w]
    /\ proc[w] = "down" => ~owns[w] /\ ~scanned[w]
    /\ pc[w] \in {"image", "video"} => scanned[w]
    /\ pc[w] \in {"scan", "filter", "orphans"} => ~scanned[w]
    /\ hand[w] # NoRow => pc[w] \in {"image", "video"}

DictsWell ==
  \A w \in Worker, t \in Row :
    /\ co[w][t] \in Busy \cup {"none", "done"}
    /\ re[w][t] = "none" /\ snap[w][t] \in {"none", "cancelling"}
    /\ co[w][t] \in Busy => slot[w][t] = "task"
    /\ ~scanned[w] => co[w][t] = "none"

RoomWell ==
  \A w \in Worker : hand[w] # NoRow => key[hand[w]] \in Unlabelled \/ ~PoolFull(w, RowLane(hand[w]))

RowsHeld == \A t \in Row : Held(t) => \E w \in Worker : HasIt(w, t)

Undisturbed == Alone /\ LeaseWell /\ LoopsWell /\ DictsWell /\ RoomWell /\ RowsHeld

\* A step that gives no row into anybody's hands.
NoNewWork ==
  \A t \in Row :
    /\ status'[t] = "running" => status[t] = "running"
    /\ status'[t] = "cancelling" => status[t] \in {"running", "cancelling"}

LEMMA FailedNoNewWork ==
  ASSUME RowsTypeOK, NEW t \in Row, MarkFailed(t)
  PROVE  NoNewWork
  BY DEF MarkFailed, NoNewWork, RowsTypeOK

LEMMA CancelledNoNewWork ==
  ASSUME RowsTypeOK, NEW t \in Row, FinalizeCancelled(t)
  PROVE  NoNewWork /\ status'[t] \notin Active
  <1>1. CASE MarkCancelled(t, "user")
    <2>1. NoNewWork
      BY <1>1 DEF MarkCancelled, NoNewWork, RunningBelow
    <2>2. status'[t] = "cancelled"
      BY <1>1 DEF MarkCancelled
    <2> QED BY <2>1, <2>2 DEF Active
  <1>2. CASE UNCHANGED rows /\ status[t] \notin Active
    BY <1>2 DEF rows, NoNewWork
  <1> QED BY <1>1, <1>2 DEF FinalizeCancelled, OrNothing

LEMMA MoveNoNewWork ==
  ASSUME RowsTypeOK, NEW t \in Row,
         \/ MarkSucceeded(t) \/ RequeueAttempt(t) \/ RequeueUnstarted(t)
         \/ MarkCancelling(t, "user") \/ UNCHANGED rows
         \/ \E k \in Key, d \in Inserted \cup {NoRow} : Insert(t, k, d)
  PROVE  NoNewWork
  BY DEF RowsTypeOK, NoNewWork, MarkSucceeded, RequeueAttempt, RequeueUnstarted, MarkCancelling,
         Insert, rows

LEMMA UnchangedNoNewWork ==
  ASSUME UNCHANGED rows
  PROVE  NoNewWork
  BY DEF rows, NoNewWork

\* Rows stay held if nobody lets go of one that is.
LEMMA RowsStayHeld ==
  ASSUME RowsHeld, NoNewWork,
         \A w \in Worker, t \in Row : HasIt(w, t) => HasIt(w, t)' \/ ~Held(t)'
  PROVE  RowsHeld'
  <1> SUFFICES ASSUME NEW t \in Row, Held(t)' PROVE \E w \in Worker : HasIt(w, t)'
    BY DEF RowsHeld
  <1>1. Held(t)
    BY DEF NoNewWork, Held
  <1>2. PICK w \in Worker : HasIt(w, t)
    BY <1>1 DEF RowsHeld
  <1> QED BY <1>2

\* A row in hand keeps its place if the pool takes on nothing else.
LEMMA RoomStays ==
  ASSUME TypeOK, TypeOK', KnownRows, Kept, RoomWell, DictsWell, DictsWell',
         \A w \in Worker, t \in Row : slot'[w][t] # "none" => slot[w][t] # "none",
         \A w \in Worker : hand'[w] # NoRow => hand'[w] = hand[w] /\ cap'[w] = cap[w]
  PROVE  RoomWell'
  <1> SUFFICES ASSUME NEW w \in Worker, hand'[w] # NoRow,
                      key'[hand'[w]] \notin Unlabelled, PoolFull(w, RowLane(hand[w]))'
               PROVE  FALSE
    BY DEF RoomWell
  <1>0. PICK t \in Row : t = hand[w] /\ t = hand'[w] /\ cap'[w] = cap[w]
    BY DEF TypeOK
  <1>1. status[t] # "absent" /\ key'[t] = key[t] /\ LaneOf[key[t]] \in Lane
    BY <1>0, LaneAssumption DEF KnownRows, Kept, TypeOK, RowsTypeOK
  <1>2. PICK l \in Lane : l = RowLane(t) /\ l = RowLane(t)'
    BY <1>1 DEF RowLane
  <1>3. cap[w][l] \in Nat
    BY ConfigsAssumption DEF TypeOK
  <1>4. Waiting(w, l) = {} /\ Waiting(w, l)' = {}
    BY DEF DictsWell, Waiting, Pending, Inserted
  <1>5. Inflight(w, l)' \subseteq Inflight(w, l)
    <2> SUFFICES ASSUME NEW r \in Row, slot'[w][r] # "none", RowLane(r)' = l
                 PROVE  r \in Inflight(w, l)
      BY DEF Inflight, Inserted, RowLane
    <2>1. slot[w][r] # "none"
      OBVIOUS
    <2>2. status[r] # "absent"
      BY <2>1 DEF KnownRows
    <2> QED BY <2>1, <2>2 DEF Inflight, Inserted, Kept, RowLane
  <1>6. Inflight(w, l) \in SUBSET Row
    BY DEF Inflight, Inserted
  <1>7. /\ Cardinality(Inflight(w, l)') <= Cardinality(Inflight(w, l))
        /\ Cardinality(Inflight(w, l)) \in Nat /\ Cardinality(Inflight(w, l)') \in Nat
    <2>1. Inflight(w, l)' \in SUBSET Row
      BY <1>5, <1>6
    <2> QED BY <1>5, <1>6, <2>1, FiniteRows, FS_Subset
  <1>8. key[t] \notin Unlabelled /\ cap[w][l] > 0 /\ ~ HasRoom(w, l)'
    BY <1>0, <1>1, <1>2 DEF PoolFull
  <1>9. HasRoom(w, l)
    BY <1>0, <1>1, <1>2, <1>8 DEF RoomWell, PoolFull
  <1>10. Cardinality({}) = 0
    BY FS_EmptySet
  <1> QED BY <1>0, <1>3, <1>4, <1>7, <1>8, <1>9, <1>10 DEF HasRoom

\* The processes that are not up have nothing.
LEMMA OthersDown ==
  ASSUME Undisturbed, NEW w \in Worker, proc[w] # "down", NEW v \in Worker, v # w
  PROVE  /\ w = child /\ proc[v] = "down" /\ ~owns[v] /\ ~scanned[v] /\ lease.owner # v
         /\ hand[v] = NoRow
         /\ \A t \in Row : co[v][t] = "none" /\ ~HasIt(v, t)
  <1>1. proc[v] = "down" /\ w = child
    BY DEF Undisturbed, Alone
  <1>2. ~owns[v] /\ ~scanned[v] /\ lease.owner # v
    BY <1>1 DEF Undisturbed, LoopsWell, LeaseWell
  <1>3. hand[v] = NoRow
    BY <1>2 DEF Undisturbed, LoopsWell
  <1>4. \A t \in Row : co[v][t] = "none"
    BY <1>2 DEF Undisturbed, DictsWell
  <1> QED BY <1>1, <1>2, <1>3, <1>4 DEF HasIt, Busy, Live, Executed, Row, NoRow

LEMMA RowsOnlyUndisturbed ==
  ASSUME TypeOK, TypeOK', KnownRows, Kept, Undisturbed, NoNewWork,
         UNCHANGED <<loop, work, snap, lease, child>>
  PROVE  Undisturbed'
  <1> USE DEF loop, work
  <1>1. Alone' /\ LeaseWell' /\ LoopsWell' /\ DictsWell'
    BY DEF Undisturbed, Alone, LeaseWell, LoopsWell, DictsWell
  <1>2. RoomWell'
    BY <1>1, RoomStays DEF Undisturbed
  <1>3. RowsHeld'
    BY RowsStayHeld DEF Undisturbed, HasIt
  <1> QED BY <1>1, <1>2, <1>3 DEF Undisturbed

\* Steps of a loop that do no more than go on, with an empty hand.
LEMMA PlaceUndisturbed ==
  ASSUME TypeOK, TypeOK', KnownRows, Kept, Undisturbed, NEW w \in Worker, proc[w] # "down",
         NEW x \in {"renew", "drain", "scan", "filter", "orphans", "image", "video", "wind"},
         pc' = [pc EXCEPT ![w] = x], hand[w] = NoRow,
         UNCHANGED <<rows, proc, cap, owns, lost, hand, work, lease, child>>,
         UNCHANGED scanned \/ scanned' = [scanned EXCEPT ![w] = TRUE],
         x \in {"image", "video"} => scanned'[w],
         x \in {"scan", "filter", "orphans"} => ~scanned'[w],
         \A v \in Worker, t \in Row : snap'[v][t] \in {"none", "cancelling"}
  PROVE  Undisturbed'
  <1> USE DEF work
  <1>1. Alone' /\ LeaseWell'
    BY DEF Undisturbed, Alone, LeaseWell
  <1>2. LoopsWell'
    BY DEF Undisturbed, LoopsWell, TypeOK
  <1>3. DictsWell'
    BY DEF Undisturbed, DictsWell, TypeOK
  <1>4. RoomWell'
    BY <1>3, RoomStays DEF Undisturbed
  <1>5. RowsHeld'
    BY UnchangedNoNewWork, RowsStayHeld DEF Undisturbed, HasIt
  <1> QED BY <1>1, <1>2, <1>3, <1>4, <1>5 DEF Undisturbed

\* Alone, a worker gets the lease whenever it asks.
LEMMA RenewUndisturbed ==
  ASSUME TypeOK, TypeOK', KnownRows, Kept, Undisturbed, NEW w \in Worker, Renew(w), child' = child
  PROVE  Undisturbed'
  <1>1. At(w, "renew") /\ proc[w] # "down" /\ w # NoWorker /\ hand[w] = NoRow /\ ~lost[w]
    BY WorkerAssumption DEF Renew, At, Undisturbed, LoopsWell
  <1>2. Obtainable(w)
    <2>1. CASE lease.owner = NoWorker
      BY <2>1 DEF Obtainable, Undisturbed, LeaseWell
    <2>2. CASE lease.owner \in Worker
      BY <1>1, <2>2, OthersDown DEF Obtainable
    <2> QED BY <2>1, <2>2 DEF TypeOK
  <1>3. /\ owns' = [owns EXCEPT ![w] = TRUE]
        /\ lease' = [owner |-> w, expired |-> FALSE]
        /\ lost' = [lost EXCEPT ![w] = FALSE]
        /\ UNCHANGED scanned
        /\ pc' = [pc EXCEPT ![w] = "drain"]
        /\ UNCHANGED <<rows, proc, cap, hand, work, snap>>
    BY <1>1, <1>2 DEF Renew, Goto
  <1>4. Alone'
    BY <1>3 DEF Undisturbed, Alone
  <1>5. LeaseWell'
    <2>1. \A v \in Worker : v # w => ~owns[v]
      BY <1>1, OthersDown
    <2> QED BY <1>1, <1>3, <2>1 DEF LeaseWell, TypeOK
  <1>6. LoopsWell'
    BY <1>1, <1>3 DEF Undisturbed, LoopsWell, TypeOK
  <1>7. DictsWell'
    BY <1>3 DEF Undisturbed, DictsWell, work
  <1>8. RoomWell'
    BY <1>3, <1>7, RoomStays DEF Undisturbed, work
  <1>9. RowsHeld'
    BY <1>3, UnchangedNoNewWork, RowsStayHeld DEF Undisturbed, HasIt, work
  <1> QED BY <1>4, <1>5, <1>6, <1>7, <1>8, <1>9 DEF Undisturbed

LEMMA DrainUndisturbed ==
  ASSUME TypeOK, TypeOK', KnownRows, Kept, Undisturbed, NEW w \in Worker, NEW t \in Row, Drain(w, t),
         child' = child
  PROVE  Undisturbed'
  <1>1. co[w][t] = "done"
    BY DEF Drain, Undisturbed, DictsWell, Busy, Live, Executed
  <1>2. /\ UNCHANGED <<rows, loop, re, snap, lease>>
        /\ co' = [co EXCEPT ![w][t] = "none"] /\ slot' = [slot EXCEPT ![w][t] = "none"]
    BY <1>1 DEF Drain
  <1>3. Alone' /\ LeaseWell' /\ LoopsWell'
    BY <1>2 DEF Undisturbed, Alone, LeaseWell, LoopsWell, loop
  <1>4. DictsWell'
    BY <1>1, <1>2 DEF Undisturbed, DictsWell, TypeOK, loop, Busy, Live, Executed
  <1>5. RoomWell'
    <2>1. \A v \in Worker, r \in Row : slot'[v][r] # "none" => slot[v][r] # "none"
      BY <1>2 DEF TypeOK
    <2> QED BY <1>2, <1>4, <2>1, RoomStays DEF Undisturbed, loop
  <1>6. RowsHeld'
    <2>1. \A v \in Worker, r \in Row : HasIt(v, r) => HasIt(v, r)'
      BY <1>1, <1>2 DEF HasIt, TypeOK, loop, Busy, Live, Executed
    <2> QED BY <1>2, <2>1, UnchangedNoNewWork, RowsStayHeld DEF Undisturbed
  <1> QED BY <1>3, <1>4, <1>5, <1>6 DEF Undisturbed

LEMMA ClaimUndisturbed ==
  ASSUME TypeOK, TypeOK', KnownRows, Kept, Undisturbed, NEW w \in Worker, Claim(w), child' = child
  PROVE  Undisturbed'
  <1>1. PICK media \in {"image", "video"}, t \in Row :
          /\ At(w, media) /\ hand[w] = NoRow /\ t \in ClaimableBy(w, media)
          /\ MarkRunning(t) /\ hand' = [hand EXCEPT ![w] = t]
    BY DEF Claim, ClaimableBy, Claimable
  <1>2. UNCHANGED <<proc, pc, cap, owns, scanned, lost, work, snap, lease>>
    BY DEF Claim
  <1>3. proc[w] # "down" /\ pc[w] \in {"image", "video"} /\ t # NoRow
    BY <1>1 DEF At, Row, NoRow
  <1>4. Alone' /\ LeaseWell'
    BY <1>2 DEF Undisturbed, Alone, LeaseWell
  <1>5. LoopsWell'
    BY <1>1, <1>2, <1>3 DEF Undisturbed, LoopsWell, TypeOK
  <1>6. DictsWell'
    BY <1>2 DEF Undisturbed, DictsWell, work
  <1>7. RoomWell'
    <2>1. \A v \in Worker : v # w => hand'[v] = NoRow
      BY <1>1, <1>3, OthersDown DEF TypeOK
    <2>2. key[t] \in Unlabelled \/ ~PoolFull(w, RowLane(t))
      BY <1>1 DEF ClaimableBy, Claimable, RowLane
    <2>3. key' = key /\ \A r \in Row : status'[r] = "absent" <=> status[r] = "absent"
      BY <1>1 DEF MarkRunning, TypeOK, RowsTypeOK
    <2>4. Inserted' = Inserted
      BY <2>3 DEF Inserted
    <2>5. PICK l : l = RowLane(t) /\ l = RowLane(t)'
      BY <2>3 DEF RowLane
    <2>6. Inflight(w, l)' = Inflight(w, l) /\ Waiting(w, l)' = Waiting(w, l)
      BY <1>2, <2>3, <2>4 DEF Inflight, Waiting, RowLane, work
    <2>7. PoolFull(w, l)' <=> PoolFull(w, l)
      BY <1>2, <2>6 DEF PoolFull, HasRoom
    <2>8. hand'[w] = t
      BY <1>1 DEF TypeOK
    <2>9. key'[hand'[w]] \in Unlabelled \/ ~PoolFull(w, RowLane(hand[w]))'
      BY <2>2, <2>3, <2>5, <2>7, <2>8
    <2> QED BY <2>1, <2>9 DEF RoomWell
  <1>8. RowsHeld'
    <2> SUFFICES ASSUME NEW r \in Row, Held(r)', r # t PROVE \E v \in Worker : HasIt(v, r)'
      BY <1>1 DEF RowsHeld, HasIt, TypeOK
    <2>1. Held(r)
      BY <1>1 DEF Held, MarkRunning, TypeOK, RowsTypeOK
    <2>2. PICK v \in Worker : HasIt(v, r)
      BY <2>1 DEF Undisturbed, RowsHeld
    <2>3. co[v][r] \in Busy \/ (v # w /\ hand[v] = r)
      BY <1>1, <2>2 DEF HasIt, Row, NoRow
    <2>4. HasIt(v, r)'
      BY <1>1, <1>2, <2>3 DEF HasIt, TypeOK, work
    <2> QED BY <2>4
  <1> QED BY <1>4, <1>5, <1>6, <1>7, <1>8 DEF Undisturbed

\* What the hand lets go of is not running any more, unless the pool takes it.
LEMMA RouteUndisturbed ==
  ASSUME TypeOK, TypeOK', KnownRows, Kept, Undisturbed, NEW w \in Worker, Route(w), child' = child
  PROVE  Undisturbed'
  <1>0. PICK t \in Row : t = hand[w]
    BY DEF Route, TypeOK
  <1>1. /\ proc[w] # "down" /\ t # NoRow /\ pc[w] \in {"image", "video"} /\ scanned[w]
        /\ hand' = [hand EXCEPT ![w] = NoRow]
        /\ UNCHANGED <<proc, cap, owns, scanned, lost, re, snap, lease>>
    BY <1>0 DEF Route, Undisturbed, LoopsWell, Row, NoRow
  <1>2. \A v \in Worker : hand'[v] = NoRow
    BY <1>1, OthersDown DEF TypeOK
  <1>3. Alone' /\ LeaseWell' /\ RoomWell'
    BY <1>1, <1>2 DEF Undisturbed, Alone, LeaseWell, RoomWell
  <1>4. LoopsWell'
    <2>1. UNCHANGED pc \/ pc' = [pc EXCEPT ![w] = "video"] \/ pc' = [pc EXCEPT ![w] = "renew"]
      BY DEF Route, NextMedia, Goto
    <2> QED BY <1>1, <1>2, <2>1 DEF Undisturbed, LoopsWell, TypeOK
  <1>5. CASE /\ HasRoom(w, RowLane(t))
             /\ co' = [co EXCEPT ![w][t] = "start"] /\ slot' = [slot EXCEPT ![w][t] = "task"]
             /\ UNCHANGED rows
    <2>1. DictsWell'
      BY <1>1, <1>5 DEF Undisturbed, DictsWell, TypeOK, Busy, Live
    <2>2. \A v \in Worker, r \in Row : HasIt(v, r) => HasIt(v, r)'
      <3> SUFFICES ASSUME NEW v \in Worker, NEW r \in Row, HasIt(v, r) PROVE HasIt(v, r)'
        OBVIOUS
      <3>1. v = w
        BY <1>1, OthersDown
      <3>2. CASE r = t
        BY <1>5, <3>1, <3>2 DEF HasIt, TypeOK, Busy, Live
      <3>3. CASE r # t
        BY <1>0, <1>5, <3>1, <3>3 DEF HasIt, TypeOK
      <3> QED BY <3>2, <3>3
    <2>3. RowsHeld'
      BY <1>5, <2>2, UnchangedNoNewWork, RowsStayHeld DEF Undisturbed
    <2> QED BY <1>3, <1>4, <2>1, <2>3 DEF Undisturbed
  <1>6. CASE /\ UNCHANGED <<co, slot>> /\ NoNewWork /\ ~Held(t)'
    <2>1. DictsWell'
      BY <1>1, <1>6 DEF Undisturbed, DictsWell
    <2>2. \A v \in Worker, r \in Row : HasIt(v, r) => HasIt(v, r)' \/ ~Held(r)'
      <3> SUFFICES ASSUME NEW v \in Worker, NEW r \in Row, HasIt(v, r), r # t PROVE HasIt(v, r)'
        BY <1>6
      <3>1. v = w
        BY <1>1, OthersDown
      <3> QED BY <1>0, <1>6, <3>1 DEF HasIt
    <2>3. RowsHeld'
      BY <1>6, <2>2, RowsStayHeld DEF Undisturbed
    <2> QED BY <1>3, <1>4, <2>1, <2>3 DEF Undisturbed
  <1>7. CASE /\ cap[w][RowLane(t)] = 0 \/ PoolFull(w, RowLane(t))
             /\ UNCHANGED <<co, slot>>
             /\ \/ OrNothing(MarkFailed(t), status[t] = "running")
                \/ OrNothing(RequeueUnstarted(t), status[t] = "running")
    <2>1. RowsTypeOK
      BY TypeParts
    <2>2. NoNewWork
      BY <1>7, <2>1, FailedNoNewWork, MoveNoNewWork DEF OrNothing
    <2>3. ~RoomKept
      <3>1. status[t] # "absent"
        BY <1>0 DEF KnownRows
      <3>2. RowLane(t) \in Lane
        BY <2>1, <3>1, LaneAssumption DEF RowsTypeOK, RowLane
      <3>3. CASE cap[w][RowLane(t)] = 0
        <4>1. ~(cap[w][RowLane(t)] > 0) /\ cap[w] \in Configs
          BY <3>3 DEF TypeOK
        <4> QED BY <3>2, <4>1 DEF RoomKept
      <3>4. CASE PoolFull(w, RowLane(t))
        BY <1>0, <1>1, <3>4 DEF RoomKept, Undisturbed, RoomWell
      <3> QED BY <1>7, <3>3, <3>4
    <2>4. status'[t] # "running"
      BY <1>7, <2>1 DEF OrNothing, MarkFailed, RequeueUnstarted, rows, RowsTypeOK
    <2> QED BY <1>6, <1>7, <2>2, <2>3, <2>4 DEF Held
  <1> QED BY <1>0, <1>5, <1>7 DEF Route

\* A coroutine that goes on keeps its row; one that ends leaves a row not held.
LEMMA TaskGoesUndisturbed ==
  ASSUME TypeOK, TypeOK', KnownRows, Kept, Undisturbed, NEW w \in Worker, NEW t \in Row, NEW x,
         TaskGoes(w, t, x), co[w][t] \in Busy,
         x \in Busy \/ (x = "done" /\ ~Held(t)'),
         NoNewWork, UNCHANGED <<loop, snap, lease, child>>
  PROVE  Undisturbed'
  <1>1. co' = [co EXCEPT ![w][t] = x] /\ UNCHANGED <<re, slot>>
    BY DEF TaskGoes
  <1>2. Alone' /\ LeaseWell' /\ LoopsWell'
    BY DEF Undisturbed, Alone, LeaseWell, LoopsWell, loop
  <1>3. DictsWell'
    <2>1. scanned[w]
      BY DEF Undisturbed, DictsWell, Busy, Live, Executed
    <2> QED BY <1>1, <2>1 DEF Undisturbed, DictsWell, TypeOK, loop
  <1>4. RoomWell'
    BY <1>1, <1>3, RoomStays DEF Undisturbed, loop
  <1>5. RowsHeld'
    <2>1. \A v \in Worker, r \in Row : HasIt(v, r) => HasIt(v, r)' \/ ~Held(r)'
      BY <1>1 DEF HasIt, TypeOK, loop
    <2> QED BY <2>1, RowsStayHeld DEF Undisturbed
  <1> QED BY <1>2, <1>3, <1>4, <1>5 DEF Undisturbed

LEMMA TaskEndsUndisturbed ==
  ASSUME TypeOK, TypeOK', KnownRows, Kept, Undisturbed, NEW w \in Worker, NEW t \in Row,
         TaskEnds(w, t, "done"), co[w][t] \in Busy, ~Held(t)',
         NoNewWork, UNCHANGED <<loop, snap, lease, child>>
  PROVE  Undisturbed'
  <1>1. slot[w][t] = "task"
    BY DEF Undisturbed, DictsWell
  <1>2. TaskGoes(w, t, "done")
    BY <1>1 DEF TaskEnds
  <1> QED BY <1>2, TaskGoesUndisturbed

LEMMA CoroutineUndisturbed ==
  ASSUME TypeOK, TypeOK', KnownRows, Kept, Undisturbed, NEW w \in Worker, NEW t \in Row,
         Coroutine(w, t), child' = child
  PROVE  Undisturbed'
  <1>0. RowsTypeOK /\ RowsTypeOK' /\ re[w][t] = "none" /\ snap[w][t] \in {"none", "cancelling"}
    BY DEF TypeOK, Undisturbed, DictsWell
  <1>1. CASE Orphan(w, t)
    <2>1. snap[w][t] = "cancelling" /\ FinalizeCancelled(t) /\ snap' = [snap EXCEPT ![w][t] = "none"]
      BY <1>0, <1>1 DEF Orphan
    <2>2. UNCHANGED <<loop, work, lease>>
      BY <1>1 DEF Orphan
    <2>3. NoNewWork
      BY <1>0, <2>1, CancelledNoNewWork
    <2>4. Alone' /\ LeaseWell' /\ LoopsWell'
      BY <2>2 DEF Undisturbed, Alone, LeaseWell, LoopsWell, loop
    <2>5. DictsWell'
      BY <2>1, <2>2 DEF Undisturbed, DictsWell, TypeOK, work, loop
    <2>6. RoomWell'
      BY <2>2, <2>5, RoomStays DEF Undisturbed, work, loop
    <2>7. RowsHeld'
      BY <2>2, <2>3, RowsStayHeld DEF Undisturbed, HasIt, work, loop
    <2> QED BY <2>4, <2>5, <2>6, <2>7 DEF Undisturbed
  <1>2. CASE DispatchResume(w, t) \/ Enter(w, t) \/ Promote(w, t)
    BY <1>0, <1>2 DEF DispatchResume, Enter, Promote
  <1>3. CASE Begin(w, t)
    <2>1. TaskGoes(w, t, "exec") /\ co[w][t] \in Busy /\ "exec" \in Busy
      BY <1>3 DEF Begin, Busy, Live, Executed
    <2>2. NoNewWork /\ UNCHANGED <<loop, snap, lease>>
      BY <1>3, UnchangedNoNewWork DEF Begin
    <2> QED BY <2>1, <2>2, TaskGoesUndisturbed
  <1>4. CASE Answer(w, t)
    <2>1. PICK outcome \in {"ok", "err"} : co[w][t] = "exec" /\ TaskGoes(w, t, outcome)
      BY <1>0, <1>4 DEF Answer
    <2>2. co[w][t] \in Busy /\ outcome \in Busy
      BY <2>1 DEF Busy, Live, Executed
    <2>3. NoNewWork /\ UNCHANGED <<loop, snap, lease>>
      BY <1>4, UnchangedNoNewWork DEF Answer
    <2> QED BY <2>1, <2>2, <2>3, TaskGoesUndisturbed
  <1>5. CASE WriteResult(w, t) \/ WriteFailure(w, t)
    <2>1. co[w][t] \in Busy /\ UNCHANGED <<loop, snap, lease>>
      BY <1>0, <1>5 DEF WriteResult, WriteFailure, Busy, Live, Executed
    <2>2. CASE UNCHANGED rows /\ TaskGoes(w, t, "zero")
      <3>1. "zero" \in Busy /\ NoNewWork
        BY <2>2, UnchangedNoNewWork DEF Busy
      <3> QED BY <2>1, <2>2, <3>1, TaskGoesUndisturbed
    <2>3. CASE /\ MarkSucceeded(t) \/ MarkFailed(t) \/ RequeueAttempt(t)
               /\ TaskEnds(w, t, "done")
      <3>1. NoNewWork
        BY <1>0, <2>3, FailedNoNewWork, MoveNoNewWork
      <3>2. ~Held(t)'
        <4>1. status'[t] \in {"succeeded", "failed", "queued"}
          BY <1>0, <2>3 DEF MarkSucceeded, MarkFailed, RequeueAttempt, RowsTypeOK
        <4> QED BY <4>1 DEF Held
      <3> QED BY <2>1, <2>3, <3>1, <3>2, TaskEndsUndisturbed
    <2> QED BY <1>0, <1>5, <2>2, <2>3 DEF WriteResult, WriteFailure, Write
  <1>6. CASE WriteCancelled(w, t)
    <2>1. co[w][t] = "zero" /\ TaskEnds(w, t, "done")
      BY <1>0, <1>6 DEF WriteCancelled, Undisturbed, DictsWell, Busy, Live, Executed
    <2>2. FinalizeCancelled(t) /\ UNCHANGED <<loop, snap, lease>>
      BY <1>6 DEF WriteCancelled
    <2>3. NoNewWork /\ ~Held(t)'
      BY <1>0, <2>2, CancelledNoNewWork DEF Held, Active
    <2>4. co[w][t] \in Busy
      BY <2>1 DEF Busy
    <2> QED BY <2>1, <2>2, <2>3, <2>4, TaskEndsUndisturbed
  <1> QED BY <1>1, <1>2, <1>3, <1>4, <1>5, <1>6 DEF Coroutine

\* A child ends when its coroutines have: no row was held.
LEMMA StoppedUndisturbed ==
  ASSUME TypeOK, TypeOK', KnownRows, Kept, Undisturbed, NEW w \in Worker, Stopped(w), child' = child
  PROVE  Undisturbed'
  <1>1. /\ pc[w] = "wind" /\ proc[w] # "down" /\ hand[w] = NoRow
        /\ \A t \in Row : slot[w][t] = "none" \/ co[w][t] \in {"done", "lost"}
    BY DEF Stopped, At, Undisturbed, LoopsWell
  <1>2. Forget(w) /\ lease' = Released(w)
    BY DEF Stopped
  <1>3. \A v \in Worker, t \in Row : ~HasIt(v, t)
    <2>1. \A t \in Row : co[w][t] \notin Busy
      BY <1>1 DEF Undisturbed, DictsWell, Busy, Live, Executed
    <2> QED BY <1>1, <2>1, OthersDown DEF HasIt, Row, NoRow
  <1>4. Alone'
    BY <1>2 DEF Undisturbed, Alone, Forget, TypeOK
  <1>5. LeaseWell'
    <2>1. \A v \in Worker : v # w => ~owns[v] /\ lease.owner # v
      BY <1>1, OthersDown
    <2>2. owns' = [owns EXCEPT ![w] = FALSE]
      BY <1>2 DEF Forget
    <2>3. CASE owns[w] /\ lease.owner = w
      BY <1>2, <2>1, <2>2, <2>3, WorkerAssumption DEF Released, LeaseWell, TypeOK
    <2>4. CASE ~(owns[w] /\ lease.owner = w)
      BY <1>2, <2>1, <2>2, <2>4 DEF Undisturbed, Released, LeaseWell, TypeOK
    <2> QED BY <2>3, <2>4
  <1>6. LoopsWell'
    BY <1>2 DEF Undisturbed, LoopsWell, Forget, Goto, TypeOK
  <1>7. DictsWell'
    BY <1>2 DEF Undisturbed, DictsWell, Forget, TypeOK, Busy, Live, Executed
  <1>8. RoomWell'
    <2>1. \A v \in Worker : hand'[v] = NoRow
      BY <1>1, <1>2, OthersDown DEF Forget, TypeOK
    <2> QED BY <2>1 DEF RoomWell
  <1>9. RowsHeld'
    <2>1. NoNewWork
      BY <1>2, UnchangedNoNewWork DEF Forget
    <2> QED BY <1>3, <2>1, RowsStayHeld DEF Undisturbed
  <1> QED BY <1>4, <1>5, <1>6, <1>7, <1>8, <1>9 DEF Undisturbed

\* A lease runs out while its owner waits for its coroutines; it stays the owner.
LEMMA ExpireUndisturbed ==
  ASSUME TypeOK, Undisturbed, lease' = [lease EXCEPT !.expired = TRUE],
         UNCHANGED <<rows, loop, work, snap, child>>
  PROVE  Undisturbed'
  <1>1. LeaseWell'
    BY DEF Undisturbed, LeaseWell, TypeOK, loop
  <1>2. /\ Alone' /\ LoopsWell' /\ DictsWell' /\ RowsHeld'
        /\ RoomWell'
    BY DEF Undisturbed, Alone, LoopsWell, DictsWell, RowsHeld, RoomWell, Held, HasIt, PoolFull, HasRoom,
           Inflight, Waiting, Inserted, RowLane, rows, loop, work
  <1> QED BY <1>1, <1>2 DEF Undisturbed

\* The bridge starts a process only when it knows of none that runs.
LEMMA StartUndisturbed ==
  ASSUME TypeOK, TypeOK', KnownRows, Kept, Undisturbed, ~Running, NEW w \in Worker, Start(w), child' = w
  PROVE  Undisturbed'
  <1>1. \A v \in Worker : proc[v] = "down"
    BY WorkerAssumption DEF Running, Undisturbed, Alone
  <1>2. /\ proc' = [proc EXCEPT ![w] = "up"]
        /\ UNCHANGED <<rows, pc, owns, scanned, lost, hand, work, snap, lease>>
    BY DEF Start
  <1>3. \A v \in Worker : hand'[v] = NoRow
    BY <1>1, <1>2 DEF Undisturbed, LoopsWell
  <1>4. Alone' /\ LeaseWell' /\ LoopsWell'
    BY <1>1, <1>2 DEF Undisturbed, Alone, LeaseWell, LoopsWell, TypeOK
  <1>5. DictsWell' /\ RoomWell'
    BY <1>2, <1>3 DEF Undisturbed, DictsWell, RoomWell, work
  <1>6. RowsHeld'
    BY <1>2, UnchangedNoNewWork, RowsStayHeld DEF Undisturbed, HasIt, work
  <1> QED BY <1>4, <1>5, <1>6 DEF Undisturbed

LEMMA IdleExitUndisturbed ==
  ASSUME TypeOK, Undisturbed, NEW w \in Worker, IdleExit(w)
  PROVE  Undisturbed'
  <1>1. pc[w] # "dead" /\ proc[w] = "up"
    BY DEF IdleExit, Undisturbed, LoopsWell
  <1>2. /\ proc' = [proc EXCEPT ![w] = "stopping"]
        /\ UNCHANGED <<rows, pc, cap, owns, scanned, lost, hand, work, snap, lease, child>>
    BY <1>1 DEF IdleExit
  <1>3. Alone' /\ LoopsWell'
    BY <1>1, <1>2 DEF Undisturbed, Alone, LoopsWell, TypeOK
  <1>4. LeaseWell' /\ DictsWell' /\ RoomWell' /\ RowsHeld'
    BY <1>2 DEF Undisturbed, LeaseWell, DictsWell, RowsHeld, RoomWell, Held, HasIt, PoolFull, HasRoom,
                Inflight, Waiting, Inserted, RowLane, rows, work
  <1> QED BY <1>3, <1>4 DEF Undisturbed

LEMMA LoopUndisturbed ==
  ASSUME TypeOK, TypeOK', KnownRows, Kept, Undisturbed, NEW w \in Worker, Loop(w), child' = child
  PROVE  Undisturbed'
  <1>1. CASE \/ Renew(w) \/ (\E t \in Row : Drain(w, t)) \/ Claim(w) \/ Route(w) \/ Stopped(w)
    BY <1>1, RenewUndisturbed, DrainUndisturbed, ClaimUndisturbed, RouteUndisturbed, StoppedUndisturbed
  <1>2. CASE Drained(w) \/ ClaimNothing(w) \/ WindDown(w)
    <2> DEFINE x == pc'[w]
    <2>1. /\ x \in {"renew", "drain", "scan", "filter", "orphans", "image", "video", "wind"}
          /\ pc' = [pc EXCEPT ![w] = x]
          /\ x \in {"image", "video"} => scanned[w]
          /\ x \in {"scan", "filter", "orphans"} => ~scanned[w]
      <3>1. CASE Drained(w)
        BY <1>2, <3>1 DEF Drained, Goto, TypeOK
      <3>2. CASE ClaimNothing(w)
        BY <3>2 DEF ClaimNothing, NextMedia, Goto, At, TypeOK, Undisturbed, LoopsWell
      <3>3. CASE WindDown(w)
        BY <3>3 DEF WindDown, Goto, TypeOK
      <3> QED BY <1>2, <3>1, <3>2, <3>3
    <2>2. hand[w] = NoRow /\ proc[w] # "down"
      BY <1>2 DEF Drained, ClaimNothing, WindDown, At, Undisturbed, LoopsWell
    <2>3. UNCHANGED <<rows, proc, cap, owns, scanned, lost, hand, work, snap, lease>>
      BY <1>2 DEF Drained, ClaimNothing, WindDown
    <2>4. \A v \in Worker, t \in Row : snap'[v][t] \in {"none", "cancelling"}
      BY <2>3 DEF Undisturbed, DictsWell
    <2> HIDE DEF x
    <2> QED BY <2>1, <2>2, <2>3, <2>4, PlaceUndisturbed
  <1>3. CASE ScanSelect(w)
    <2>1. /\ pc[w] = "scan" /\ proc[w] # "down" /\ ~scanned[w] /\ hand[w] = NoRow
          /\ pc' = [pc EXCEPT ![w] = "filter"]
          /\ snap' = [snap EXCEPT ![w] = [t \in Row |-> OrphanPlan(t)]]
          /\ UNCHANGED <<rows, proc, cap, owns, scanned, lost, hand, work, lease>>
      BY <1>3 DEF ScanSelect, Goto, At, Undisturbed, LoopsWell
    <2>2. ASSUME NEW t \in Row
          PROVE  status[t] # "running"
      <3>1. \A v \in Worker : ~HasIt(v, t)
        <4>1. ~HasIt(w, t)
          BY <2>1 DEF Undisturbed, DictsWell, HasIt, Busy, Live, Executed, Row, NoRow
        <4> QED BY <2>1, <4>1, OthersDown
      <3> QED BY <3>1 DEF Undisturbed, RowsHeld, Held
    <2>3. \A v \in Worker, t \in Row : snap'[v][t] \in {"none", "cancelling"}
      BY <2>1, <2>2 DEF OrphanPlan, Undisturbed, DictsWell, TypeOK
    <2> QED BY <2>1, <2>3, PlaceUndisturbed
  <1>4. CASE ScanFilter(w)
    <2>1. /\ pc[w] = "filter" /\ proc[w] # "down" /\ ~scanned[w] /\ hand[w] = NoRow
          /\ pc' = [pc EXCEPT ![w] = "orphans"]
          /\ snap' = [snap EXCEPT ![w] = [t \in Row |-> IF Listed(w, t) THEN "none" ELSE snap[w][t]]]
          /\ UNCHANGED <<rows, proc, cap, owns, scanned, lost, hand, work, lease>>
      BY <1>4 DEF ScanFilter, Goto, At, Undisturbed, LoopsWell
    <2>2. \A v \in Worker, t \in Row : snap'[v][t] \in {"none", "cancelling"}
      BY <2>1 DEF Undisturbed, DictsWell, TypeOK
    <2> QED BY <2>1, <2>2, PlaceUndisturbed
  <1>5. CASE ScanEnd(w)
    <2>1. /\ pc[w] = "orphans" /\ proc[w] # "down" /\ hand[w] = NoRow
          /\ pc' = [pc EXCEPT ![w] = "image"]
          /\ scanned' = [scanned EXCEPT ![w] = TRUE]
          /\ UNCHANGED <<rows, proc, cap, owns, lost, hand, work, snap, lease>>
      BY <1>5 DEF ScanEnd, Goto, At, Undisturbed, LoopsWell
    <2>2. \A v \in Worker, t \in Row : snap'[v][t] \in {"none", "cancelling"}
      BY <2>1 DEF Undisturbed, DictsWell
    <2>3. scanned'[w]
      BY <2>1 DEF TypeOK
    <2> QED BY <2>1, <2>2, <2>3, PlaceUndisturbed
  <1> QED BY <1>1, <1>2, <1>3, <1>4, <1>5 DEF Loop

\* Requests change rows, and by no callback of a worker's more than that.
LEMMA RequestUndisturbed ==
  ASSUME TypeOK, TypeOK', Loaded, KnownRows, Kept, Undisturbed, child' = child,
         \/ UNCHANGED vars
         \/ \E k \in Key, d \in Inserted \cup {NoRow} : Enqueue(k, d)
         \/ \E s \in Session : CancelDispatch(s) \/ Signal(s) \/ \E t \in Row : CancelLoad(s, t)
         \/ \E w \in Worker, t \in Row : Submit(w, t)
  PROVE  Undisturbed'
  <1>0. RowsTypeOK
    BY TypeParts
  <1>1. UNCHANGED <<loop, work, snap, lease>>
    <2>1. ASSUME NEW s \in Session, Signal(s)
          PROVE  UNCHANGED <<loop, work, snap, lease>>
      BY <2>1, BridgeAssumption DEF Signal
    <2> QED BY <2>1 DEF vars, Enqueue, CancelDispatch, CancelLoad, Submit
  <1>2. NoNewWork
    <2>1. CASE UNCHANGED rows
      BY <2>1, UnchangedNoNewWork
    <2>2. CASE \E k \in Key, d \in Inserted \cup {NoRow} : Enqueue(k, d)
      BY <1>0, <2>2, MoveNoNewWork DEF Enqueue
    <2>3. ASSUME NEW s \in Session, CancelDispatch(s)
          PROVE  NoNewWork
      <3>1. api[s].row \in Row
        BY <2>3 DEF CancelDispatch, Loaded
      <3>2. \/ FinalizeCancelled(api[s].row)
            \/ OrNothing(MarkCancelling(api[s].row, "user"), status[api[s].row] = "running")
            \/ UNCHANGED rows
        BY <2>3 DEF CancelDispatch
      <3> QED BY <1>0, <3>1, <3>2, CancelledNoNewWork, MoveNoNewWork DEF OrNothing
    <2> QED BY <2>1, <2>2, <2>3 DEF vars, Signal, CancelLoad, Submit
  <1> QED BY <1>1, <1>2, RowsOnlyUndisturbed

DInv == DesktopTyped /\ (outages = 0 => Undisturbed)

LEMMA StepOutages ==
  ASSUME TypeOK, TypeOK', [Next]_vars \/ (\E w \in Worker : IdleExit(w)) \/ BridgeDies, outages' = 0
  PROVE  outages = 0
  <1>1. outages \in Nat
    BY OutageAssumption DEF TypeOK
  <1>2. outages' = outages \/ outages' = outages + 1
    <2>1. ASSUME NEW w \in Worker, Loop(w)
          PROVE  outages' = outages
      BY <2>1
      DEF Loop, Renew, Drain, Drained, Claim, ClaimNothing, Route, ScanSelect, ScanFilter, ScanEnd,
          WindDown, Stopped
    <2>2. ASSUME NEW w \in Worker, NEW t \in Row, Coroutine(w, t)
          PROVE  outages' = outages
      BY <2>2
      DEF Coroutine, Orphan, DispatchResume, Enter, Promote, Begin, Answer, WriteResult,
          WriteFailure, WriteCancelled
    <2>3. CASE Outage
      BY <2>3 DEF Outage, Expire, Crash, Stop, LoopFails, Fault
    <2>4. CASE (\E w \in Worker : IdleExit(w)) \/ BridgeDies
      BY <2>4 DEF IdleExit, BridgeDies, Fault
    <2> QED
      BY <2>1, <2>2, <2>3, <2>4
      DEF Next, vars, Enqueue, CancelAllQueued, CancelLoad, CancelDispatch, Signal, Start, ReloadLimits,
          Submit
  <1> QED BY <1>1, <1>2

\* Every outage is counted, but the expiry of a lease its owner does not renew.
LEMMA OutageUndisturbed ==
  ASSUME TypeOK, Undisturbed, Outage, outages = 0, outages' = 0, child' = child
  PROVE  Undisturbed'
  <1>1. \A kind : ~Fault(kind)
    BY DEF Fault
  <1>2. Expire
    BY <1>1 DEF Outage, Crash, Stop, LoopFails
  <1> QED BY <1>2, ExpireUndisturbed DEF Expire

LEMMA DesktopUndisturbed ==
  ASSUME DesktopTyped, DesktopTyped', Undisturbed, outages = 0, outages' = 0, [DesktopNext]_desktopVars
  PROVE  Undisturbed'
  <1>0. TypeOK /\ TypeOK' /\ Loaded /\ KnownRows /\ BridgeTyped
    BY DEF DesktopTyped, IInv
  <1>1. CASE ~ [Next]_vars
    <2>1. ~BridgeDies
      BY DEF BridgeDies, Fault
    <2>2. PICK w \in Worker : IdleExit(w)
      BY <1>0, <1>1, <2>1, DesktopStep
    <2> QED BY <1>0, <2>2, IdleExitUndisturbed
  <1> SUFFICES ASSUME [Next]_vars PROVE Undisturbed'
    BY <1>1
  <1>2. Kept
    BY <1>0, StepKept
  <1>3. ASSUME NEW c \in Client, NEW k \in Key, Generate(c, k) \/ AskOnline(c, k)
        PROVE  Undisturbed'
    BY <1>0, <1>2, <1>3, EnqueueTaskStep, RequestUndisturbed DEF Generate, AskOnline
  <1>4. ASSUME NEW c \in Client, Subscribe(c) \/ ClientStep(c)
        PROVE  Undisturbed'
    <2>1. CASE EnqueueOnline(c)
      <3>1. client[c].key \in Key /\ EnqueueTask(client[c].key) /\ child' = child
        BY <1>0, <2>1 DEF EnqueueOnline, ClientAt, BridgeTyped
      <3> QED BY <1>0, <1>2, <3>1, EnqueueTaskStep, RequestUndisturbed
    <2>2. CASE Subscribe(c) \/ Started(c)
      BY <1>0, <1>2, <2>2, RequestUndisturbed DEF Subscribe, Started
    <2>3. CASE EnsureChild(c) \/ StartChild(c)
      <3>1. Ensure
        BY <2>3 DEF EnsureChild, StartChild
      <3>2. CASE UNCHANGED <<vars, child, idle>>
        BY <1>0, <1>2, <3>2, RequestUndisturbed
      <3>3. CASE ~Running /\ \E w \in Worker : Start(w) /\ child' = w
        BY <1>0, <1>2, <3>3, StartUndisturbed
      <3> QED BY <3>1, <3>2, <3>3, EnsureStep
    <2> QED BY <1>4, <2>1, <2>2, <2>3 DEF ClientStep
  <1>5. ASSUME NEW s \in Session, CancelStep(s) \/ \E t \in Row : CancelLoad(s, t) /\ Same
        PROVE  Undisturbed'
    BY <1>0, <1>2, <1>5, RequestUndisturbed DEF CancelStep, Same
  <1>6. ASSUME NEW w \in Worker, SeesIdle(w) \/ IdleExit(w) \/ WorkerLoop(w)
        PROVE  Undisturbed'
    <2>1. CASE SeesIdle(w)
      BY <1>0, <1>2, <2>1, RequestUndisturbed DEF SeesIdle
    <2>2. CASE IdleExit(w)
      BY <1>0, <2>2, IdleExitUndisturbed
    <2>3. CASE WorkerLoop(w)
      BY <1>0, <1>2, <2>3, LoopUndisturbed DEF WorkerLoop, Same
    <2> QED BY <1>6, <2>1, <2>2, <2>3
  <1>7. ASSUME NEW w \in Worker, NEW t \in Row, WorkerCoroutine(w, t) \/ (Submit(w, t) /\ Same)
        PROVE  Undisturbed'
    BY <1>0, <1>2, <1>7, CoroutineUndisturbed, RequestUndisturbed DEF WorkerCoroutine, Same
  <1>8. CASE Outage /\ Same
    BY <1>0, <1>8, OutageUndisturbed DEF Same
  <1>9. CASE BridgeDies
    BY <1>9 DEF BridgeDies, Fault
  <1>10. CASE UNCHANGED desktopVars
    BY <1>0, <1>2, <1>10, RequestUndisturbed DEF desktopVars, bridge
  <1> QED BY <1>3, <1>4, <1>5, <1>6, <1>7, <1>8, <1>9, <1>10 DEF DesktopNext

LEMMA StepDInv ==
  ASSUME DInv, [DesktopNext]_desktopVars
  PROVE  DInv'
  <1>1. DesktopTyped /\ DesktopTyped'
    BY StepDesktopTyped DEF DInv
  <1>2. ASSUME outages' = 0
        PROVE  Undisturbed'
    <2>1. outages = 0
      BY <1>1, <1>2, StepOutages, DesktopStep DEF DesktopTyped, IInv
    <2> QED BY <1>1, <1>2, <2>1, DesktopUndisturbed DEF DInv
  <1> QED BY <1>1, <1>2 DEF DInv

LEMMA InitDInv == DesktopInit => DInv
  <1> SUFFICES ASSUME DesktopInit PROVE DInv
    OBVIOUS
  <1>1. Init /\ child = NoWorker
    BY DEF DesktopInit
  <1>2. Alone /\ LeaseWell /\ LoopsWell /\ RoomWell
    BY <1>1, WorkerAssumption DEF Init, Alone, LeaseWell, LoopsWell, RoomWell
  <1>3. DictsWell
    BY <1>1 DEF Init, DictsWell, Busy, Live, Executed
  <1>4. RowsHeld
    BY <1>1 DEF Init, RowsInit, RowsHeld, Held
  <1>5. Undisturbed
    BY <1>2, <1>3, <1>4 DEF Undisturbed
  <1> QED BY <1>5, InitDesktopTyped DEF DInv

LEMMA DesktopInvariance == DesktopSpec => []DInv
  <1> QED BY InitDInv, StepDInv, PTL DEF DesktopSpec

\* The child that ends because it saw an idle queue, the processes the bridge
\* starts, and a bridge that dies and forgets its child, make no task cost more
\* than its attempts.
THEOREM DesktopNeverOvercharges == DesktopSpec => []NeverOvercharged
  <1>1. DInv => NeverOvercharged
    BY DEF DInv, DesktopTyped, IInv, Core
  <1> QED BY <1>1, DesktopInvariance, PTL

RunningAttended == outages = 0 => \A t \in Row : status[t] = "running" => Attended(t)

\* Without an outage a row that is running is attended, whatever the settings say
\* and though the child decides to end on statistics that are old by then.
THEOREM DesktopRunningAttended == DesktopSpec => []RunningAttended
  <1>1. ASSUME DInv, outages = 0, NEW t \in Row, status[t] = "running"
        PROVE  Attended(t)
    BY <1>1 DEF DInv, Undisturbed, RowsHeld, Held, HasIt, Attended, Busy, Live, Executed
  <1>2. DInv => RunningAttended
    BY <1>1 DEF RunningAttended
  <1> QED BY <1>2, DesktopInvariance, PTL

\* And so is one that is being stopped, if no claim can meet a lane without room.
THEOREM DesktopAlwaysAttended ==
  ASSUME RoomKept
  PROVE  DesktopSpec => []AlwaysAttended
  <1>1. ASSUME DInv, outages = 0, NEW t \in Row, status[t] \in {"running", "cancelling"}
        PROVE  Attended(t)
    BY <1>1 DEF DInv, Undisturbed, RowsHeld, Held, HasIt, Attended, Busy, Live, Executed
  <1>2. DInv => AlwaysAttended
    BY <1>1 DEF AlwaysAttended
  <1> QED BY <1>2, DesktopInvariance, PTL

(***************************************************************************)
(* Refinement of TaskLifecycle.  Every step, of workers, cancels and       *)
(* clients, makes at most one transaction on the rows, and a claim only    *)
(* takes a row whose dependency succeeded: so no running row depends on an *)
(* active one, and a cancel ends everything below it at once.              *)
(***************************************************************************)

RowTransaction(t) ==
  \/ MarkSucceeded(t) \/ MarkFailed(t) \/ RequeueAttempt(t) \/ RequeueUnstarted(t)
  \/ MarkCancelling(t, "user") \/ MarkCancelled(t, "user")
  \/ MarkRunning(t) /\ DependencyMet(t)

Transaction ==
  \/ UNCHANGED rows
  \/ CancelQueued
  \/ \E t \in Row, k \in Key, d \in Inserted \cup {NoRow} : Insert(t, k, d)
  \/ \E t \in Row : RowTransaction(t)

LEMMA StepTransaction ==
  ASSUME TypeOK, Loaded, [Next]_vars
  PROVE  Transaction
  <1> USE DEF Transaction, RowTransaction, OrNothing, FinalizeCancelled, Write
  <1>1. CASE UNCHANGED rows
    BY <1>1
  <1>2. CASE CancelAllQueued
    BY <1>2 DEF CancelAllQueued
  <1>3. CASE \E k \in Key, d \in Inserted \cup {NoRow} : Enqueue(k, d)
    BY <1>3 DEF Enqueue
  <1>4. CASE \E s \in Session : CancelDispatch(s)
    <2>1. PICK s \in Session : CancelDispatch(s)
      BY <1>4
    <2>2. api[s].row \in Row
      BY <2>1 DEF CancelDispatch, Loaded
    <2> QED BY <2>1, <2>2 DEF CancelDispatch
  <1>5. CASE \E w \in Worker : Claim(w)
    BY <1>5 DEF Claim, ClaimableBy, Claimable
  <1>6. CASE \E w \in Worker : Route(w)
    <2>1. PICK w \in Worker : Route(w)
      BY <1>6
    <2>2. hand[w] \in Row
      BY <2>1 DEF Route, TypeOK
    <2> QED BY <2>1, <2>2 DEF Route
  <1>7. CASE \E w \in Worker, t \in Row : Drain(w, t)
    BY <1>7 DEF Drain
  <1>8. CASE \E w \in Worker, t \in Row : Orphan(w, t)
    BY <1>8 DEF Orphan
  <1>9. CASE \E w \in Worker, t \in Row :
               WriteResult(w, t) \/ WriteFailure(w, t) \/ WriteCancelled(w, t)
    BY <1>9 DEF WriteResult, WriteFailure, WriteCancelled
  <1> QED
    BY <1>1, <1>2, <1>3, <1>4, <1>5, <1>6, <1>7, <1>8, <1>9
    DEF Next, vars, Loop, Coroutine, Outage, CancelLoad, Signal, Start, ReloadLimits, Renew,
        Drained, ClaimNothing, ScanSelect, ScanFilter, ScanEnd, WindDown, Stopped, Forget,
        DispatchResume, Enter, Promote, Begin, Answer, Submit, Expire, Crash, Stop, LoopFails

\* A row that was ever claimed depends on nothing, or on a row that succeeded.
StartedInOrder ==
  \A t \in Row : status[t] \in {"running", "cancelling", "succeeded"} => DependencyMet(t)

Ordered == RowsTypeOK /\ StartedInOrder

\* The cascade of a cancel finds no running dependent to stop.
LEMMA NoRunningBelow ==
  ASSUME Ordered, NEW t \in Row, status[t] \in Active
  PROVE  RunningBelow(t) = {}
  <1> SUFFICES ASSUME NEW r \in Row, status[r] = "running",
                      dep[r] = t \/ dep[r] \in QueuedBelow(t)
               PROVE  FALSE
    BY DEF RunningBelow
  <1>1. DependencyMet(r)
    BY DEF Ordered, StartedInOrder
  <1>2. dep[r] \in Row /\ status[dep[r]] \in Active
    BY BelowIsReached DEF Active
  <1> QED BY <1>1, <1>2 DEF DependencyMet, Active, Row, NoRow

\* Succeeded rows stay so, dependencies do not change, and what starts has its met.
LEMMA ForwardOrdered ==
  ASSUME Ordered, RowsTypeOK',
         \A t \in Row : status[t] # "absent" => dep'[t] = dep[t],
         \A t \in Row : status[t] = "succeeded" => status'[t] = "succeeded",
         \A t \in Row : status'[t] \in {"running", "cancelling", "succeeded"} =>
           status[t] # "absent" /\ DependencyMet(t)
  PROVE  StartedInOrder'
  BY DEF Ordered, RowsTypeOK, StartedInOrder, DependencyMet, Row, NoRow

LEMMA TransactionOrdered ==
  ASSUME Ordered, RowsTypeOK', Transaction
  PROVE  StartedInOrder'
  <1> USE DEF Ordered, RowsTypeOK, Active
  <1>1. CASE UNCHANGED rows
    BY <1>1 DEF rows, StartedInOrder, DependencyMet
  <1>2. CASE CancelQueued
    BY <1>2, ForwardOrdered DEF CancelQueued, StartedInOrder
  <1>3. CASE \E t \in Row, k \in Key, d \in Inserted \cup {NoRow} : Insert(t, k, d)
    BY <1>3, ForwardOrdered DEF Insert, StartedInOrder
  <1>4. ASSUME NEW t \in Row, RowTransaction(t)
        PROVE  StartedInOrder'
    <2>1. CASE MarkFailed(t)
      <3>1. \A r \in QueuedBelow(t) : status[r] = "queued"
        BY BelowIsReached
      <3> QED BY <2>1, <3>1, ForwardOrdered DEF MarkFailed, StartedInOrder
    <2>2. CASE MarkCancelled(t, "user")
      <3>1. \A r \in QueuedBelow(t) : status[r] = "queued"
        BY BelowIsReached
      <3>2. RunningBelow(t) = {}
        BY <2>2, NoRunningBelow DEF MarkCancelled
      <3> QED BY <2>2, <3>1, <3>2, ForwardOrdered DEF MarkCancelled, StartedInOrder
    <2>3. CASE MarkSucceeded(t) \/ MarkCancelling(t, "user")
      BY <2>3, ForwardOrdered DEF MarkSucceeded, MarkCancelling, StartedInOrder
    <2>4. CASE RequeueAttempt(t) \/ RequeueUnstarted(t)
      BY <2>4, ForwardOrdered DEF RequeueAttempt, RequeueUnstarted, StartedInOrder
    <2>5. CASE MarkRunning(t) /\ DependencyMet(t)
      BY <2>5, ForwardOrdered DEF MarkRunning, StartedInOrder
    <2> QED BY <1>4, <2>1, <2>2, <2>3, <2>4, <2>5 DEF RowTransaction
  <1> QED BY <1>1, <1>2, <1>3, <1>4 DEF Transaction

\* An UPDATE of one row to another status.
LEMMA MoveLifecycle ==
  ASSUME NEW t \in Row, NEW from, NEW to, status[t] = from,
         \A r \in Row : status'[r] = IF r = t THEN to ELSE status[r],
         UNCHANGED <<key, dep>>
  PROVE  Lifecycle!Move({t}, PhaseOf(from), PhaseOf(to))
  BY DEF Lifecycle!Move

\* An UPDATE that ends a set of rows which has every queued row below its own.
LEMMA PerishLifecycle ==
  ASSUME NEW S \in SUBSET Row, NEW to \in Dead,
         \A t \in S : status[t] \in Active,
         \A r \in Row : status[r] = "queued" /\ dep[r] \in S => r \in S,
         \A t \in Row : status'[t] = IF t \in S THEN to ELSE status[t],
         UNCHANGED <<key, dep>>
  PROVE  Lifecycle!Next
  <1>1. \A t \in Row : PhaseOf(status[t]) = "waiting" <=> status[t] = "queued"
    BY DEF PhaseOf, Dead
  <1>2. \A t \in S : PhaseOf(status[t]) \in Lifecycle!Live
    BY DEF PhaseOf, Active, Lifecycle!Live
  <1>3. [t \in Row |-> PhaseOf(status'[t])] =
          [t \in Row |-> IF t \in S THEN "dead" ELSE PhaseOf(status[t])]
    BY DEF PhaseOf, Dead
  <1>4. Lifecycle!Perish(S) /\ S \in SUBSET Lifecycle!Alive
    BY <1>1, <1>2, <1>3 DEF Lifecycle!Perish, Lifecycle!Alive
  <1> QED BY <1>4 DEF Lifecycle!Next

LEMMA InsertLifecycle ==
  ASSUME RowsTypeOK, NEW t \in Row, NEW k \in Key, NEW d \in Inserted \cup {NoRow}, Insert(t, k, d)
  PROVE  Lifecycle!Next
  <1>1. \A r \in Row : PhaseOf(status[r]) \in Lifecycle!Live => status[r] \in Active
    BY DEF PhaseOf, Lifecycle!Live, Active, Dead
  <1>2. PhaseOf(status[t]) = "absent" /\ PhaseOf("queued") = "waiting"
    BY DEF Insert, PhaseOf, Dead
  <1>3. [r \in Row |-> PhaseOf(status'[r])] =
          [[r \in Row |-> PhaseOf(status[r])] EXCEPT ![t] = "waiting"]
    BY <1>2 DEF Insert, RowsTypeOK
  <1>4. \A r \in Lifecycle!Alive : key[r] # k
    BY <1>1 DEF Insert, ActiveWith, Lifecycle!Alive
  <1>5. d \in Row \cup {NoRow}
    BY DEF Inserted
  <1>6. Lifecycle!Submit(t)
    BY <1>2, <1>3, <1>4, <1>5 DEF Insert, Lifecycle!Submit
  <1> QED BY <1>6 DEF Lifecycle!Next

LEMMA RowLifecycle ==
  ASSUME Ordered, NEW t \in Row, RowTransaction(t)
  PROVE  Lifecycle!Next
  <1> USE DEF Ordered, RowsTypeOK
  <1>1. /\ PhaseOf("queued") = "waiting" /\ PhaseOf("running") = "working"
        /\ PhaseOf("cancelling") = "stopping" /\ PhaseOf("succeeded") = "done"
    BY DEF PhaseOf, Dead
  <1>2. CASE MarkSucceeded(t)
    <2>1. Lifecycle!Move({t}, PhaseOf("running"), PhaseOf("succeeded"))
      BY <1>2, MoveLifecycle DEF MarkSucceeded
    <2> QED BY <1>1, <2>1 DEF Lifecycle!Finish, Lifecycle!Next
  <1>3. CASE RequeueAttempt(t) \/ RequeueUnstarted(t)
    <2>1. Lifecycle!Move({t}, PhaseOf("running"), PhaseOf("queued"))
      BY <1>3, MoveLifecycle DEF RequeueAttempt, RequeueUnstarted
    <2>2. {t} \in SUBSET Lifecycle!Working
      BY <1>1, <1>3 DEF RequeueAttempt, RequeueUnstarted, Lifecycle!Working
    <2> QED BY <1>1, <2>1, <2>2 DEF Lifecycle!PutBack, Lifecycle!Next
  <1>4. CASE MarkCancelling(t, "user")
    <2>1. Lifecycle!Move({t}, PhaseOf("running"), PhaseOf("cancelling"))
      BY <1>4, MoveLifecycle DEF MarkCancelling
    <2> QED BY <1>1, <2>1 DEF Lifecycle!AskToStop, Lifecycle!Next
  <1>5. CASE MarkRunning(t) /\ DependencyMet(t)
    <2>1. Lifecycle!Move({t}, PhaseOf("queued"), PhaseOf("running"))
      BY <1>5, MoveLifecycle DEF MarkRunning
    <2>2. dep[t] = NoRow \/ PhaseOf(status[dep[t]]) = "done"
      BY <1>1, <1>5 DEF DependencyMet
    <2>3. Lifecycle!Begin(t)
      BY <1>1, <2>1, <2>2 DEF Lifecycle!Begin
    <2> QED BY <2>3 DEF Lifecycle!Next
  <1>6. CASE MarkFailed(t) \/ MarkCancelled(t, "user")
    <2> DEFINE D == {r \in Row : r = t \/ r \in QueuedBelow(t)}
    <2>1. \A r \in D : status[r] \in Active
      BY <1>6, BelowIsReached DEF MarkFailed, MarkCancelled, Active
    <2>2. \A r \in Row : status[r] = "queued" /\ dep[r] \in D => r \in D
      BY BelowIsClosed
    <2>3. \E to \in Dead : \A r \in Row : status'[r] = IF r \in D THEN to ELSE status[r]
      <3>1. CASE MarkFailed(t)
        BY <3>1 DEF MarkFailed, Dead
      <3>2. CASE MarkCancelled(t, "user")
        <4>1. RunningBelow(t) = {}
          BY <3>2, NoRunningBelow DEF MarkCancelled
        <4> QED BY <3>2, <4>1 DEF MarkCancelled, Dead
      <3> QED BY <1>6, <3>1, <3>2
    <2>4. UNCHANGED <<key, dep>>
      BY <1>6 DEF MarkFailed, MarkCancelled
    <2> QED BY <2>1, <2>2, <2>3, <2>4, PerishLifecycle
  <1> QED BY <1>2, <1>3, <1>4, <1>5, <1>6 DEF RowTransaction

LEMMA TransactionLifecycle ==
  ASSUME Ordered, Transaction
  PROVE  [Lifecycle!Next]_(Lifecycle!vars)
  <1>1. CASE UNCHANGED rows
    BY <1>1 DEF rows, Lifecycle!vars
  <1>2. CASE CancelQueued
    <2> DEFINE Q == {t \in Row : status[t] = "queued"}
    <2>1. /\ \A t \in Q : status[t] \in Active
          /\ \A t \in Row : status'[t] = IF t \in Q THEN "cancelled" ELSE status[t]
          /\ UNCHANGED <<key, dep>>
      BY <1>2 DEF CancelQueued, Active
    <2>2. "cancelled" \in Dead /\ Q \in SUBSET Row
      BY DEF Dead
    <2>3. \A r \in Row : status[r] = "queued" /\ dep[r] \in Q => r \in Q
      OBVIOUS
    <2> HIDE DEF Q
    <2> QED BY <2>1, <2>2, <2>3, PerishLifecycle
  <1>3. CASE \E t \in Row, k \in Key, d \in Inserted \cup {NoRow} : Insert(t, k, d)
    BY <1>3, InsertLifecycle DEF Ordered
  <1>4. CASE \E t \in Row : RowTransaction(t)
    BY <1>4, RowLifecycle
  <1> QED BY <1>1, <1>2, <1>3, <1>4 DEF Transaction

LEMMA InitLifecycle == Init => Lifecycle!Init /\ StartedInOrder
  BY DEF Init, RowsInit, Lifecycle!Init, PhaseOf, Dead, StartedInOrder

\* The whole queue keeps the promise its table was made for: with any number of
\* workers, in each of which dozens of coroutines write to the table, with stops,
\* crashes, stale orphan scans and cancels, a resource has one live task, a task
\* starts after the one it depends on, what is over stays over, and a task that
\* dies takes what waits for it along.
THEOREM WorkerImplementsLifecycle == Spec => LifecycleSpec
  <1> DEFINE Inv == IInv /\ StartedInOrder
  <1>1. Init => Inv
    BY InitCore, InitLifecycle
  <1>2. Inv /\ [Next]_vars => Inv' /\ [Lifecycle!Next]_(Lifecycle!vars)
    <2> SUFFICES ASSUME IInv, StartedInOrder, [Next]_vars
                 PROVE  Inv' /\ [Lifecycle!Next]_(Lifecycle!vars)
      OBVIOUS
    <2>1. IInv' /\ RowsTypeOK' /\ Ordered
      BY StepIInv DEF IInv, TypeOK, Ordered
    <2>2. Transaction
      BY StepTransaction DEF IInv
    <2> QED BY <2>1, <2>2, TransactionOrdered, TransactionLifecycle
  <1>3. Init => Lifecycle!Init
    BY InitLifecycle
  <1> QED BY <1>1, <1>2, <1>3, PTL DEF Spec, LifecycleSpec, Lifecycle!Spec

\* So does the queue of the desktop plugin, whose worker ends whenever it is idle
\* and whose bridge may die and start another worker beside the one it forgot.
THEOREM DesktopImplementsLifecycle == DesktopSpec => LifecycleSpec
  <1> DEFINE Inv == DesktopTyped /\ StartedInOrder
  <1>1. DesktopInit => Inv
    BY InitDesktopTyped, InitLifecycle DEF DesktopInit
  <1>2. Inv /\ [DesktopNext]_desktopVars => Inv' /\ [Lifecycle!Next]_(Lifecycle!vars)
    <2> SUFFICES ASSUME DesktopTyped, StartedInOrder, [DesktopNext]_desktopVars
                 PROVE  Inv' /\ [Lifecycle!Next]_(Lifecycle!vars)
      OBVIOUS
    <2>1. DesktopTyped' /\ RowsTypeOK' /\ Ordered
      BY StepDesktopTyped DEF DesktopTyped, IInv, TypeOK, Ordered
    <2>2. Transaction
      <3>1. CASE [Next]_vars
        BY <3>1, StepTransaction DEF DesktopTyped, IInv
      <3>2. CASE (\E w \in Worker : IdleExit(w)) \/ BridgeDies
        BY <3>2 DEF IdleExit, Forget, BridgeDies, Transaction
      <3> QED BY <3>1, <3>2, DesktopStep DEF DesktopTyped
    <2> QED BY <2>1, <2>2, TransactionOrdered, TransactionLifecycle
  <1>3. DesktopInit => Lifecycle!Init
    BY InitLifecycle DEF DesktopInit
  <1> QED BY <1>1, <1>2, <1>3, PTL DEF DesktopSpec, LifecycleSpec, Lifecycle!Spec
=============================================================================
