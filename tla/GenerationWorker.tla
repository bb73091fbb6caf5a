-------------------------- MODULE GenerationWorker --------------------------
(***************************************************************************)
(* The workers that serve the task table: each is one process with a main  *)
(* loop (renew the lease, drain, scan for orphans, claim, route), one      *)
(* coroutine per task in flight, and a lease row in the database.  The     *)
(* cancel API runs in the process of a worker (Host) and signals that      *)
(* worker's coroutines, or in the desktop bridge, which has no callback.   *)
(* Processes crash, stop gracefully and start again; all that survives is  *)
(* the database.                                                           *)
(*                                                                         *)
(* claim_next is one step here: what its SELECT and UPDATE may see in      *)
(* between is the subject of TaskTable.  requeue_running is left out: no   *)
(* code calls it.                                                          *)
(***************************************************************************)
EXTENDS TaskRows, FiniteSets

CONSTANTS
  Worker,       \* worker processes
  NoWorker,
  Session,      \* concurrent calls of the cancel API
  Host,         \* the worker in whose process a session runs, or NoWorker
  VideoLane,    \* the lanes whose media_type is "video"
  Resumable,    \* the video lanes whose provider implements resume_video
  Configs,      \* what the settings may say of image_max / video_max, per lane
  Unlabelled,   \* keys whose rows are enqueued with provider_id NULL
  Faults,       \* which of "crash", "stop", "slow", "loop" may happen
  MaxOutages    \* bound: how many of them do

ASSUME WorkerAssumption == NoWorker \notin Worker
ASSUME HostAssumption == Host \in [Session -> Worker \cup {NoWorker}]
ASSUME VideoAssumption == Resumable \subseteq VideoLane /\ VideoLane \subseteq Lane
ASSUME ConfigsAssumption == Configs # {} /\ Configs \subseteq [Lane -> Nat]
ASSUME OutageAssumption == MaxOutages \in Nat

VARIABLES
  proc,     \* the process: "down", "up", or "stopping" once _stop_event is set
  pc,       \* where the main loop is
  cap,      \* the limits of its pools
  owns,     \* _owns_lease
  scanned,  \* _orphan_handled_once
  lost,     \* _lease_lost_monotonic is set
  hand,     \* the row claimed and not yet routed to a pool
  co,       \* the _process_task coroutine of a row
  re,       \* the _run_one coroutine of a row that is resumed
  slot,     \* whose entry the inflight dict holds for a row
  snap,     \* what the orphan scan has still to do with a row it listed
  lease,    \* the WorkerLease row; one without an owner that expired is absent
  job,      \* Task.provider_job_id is set
  api,      \* a cancel_task call in progress
  starts,   \* history: how often a row was handed to execute_generation_task
  outages   \* how many faults there were

loop == <<proc, pc, cap, owns, scanned, lost, hand>>
work == <<co, re, slot>>
vars == <<rows, loop, work, snap, lease, job, api, starts, outages>>

Idle == [at |-> "idle", row |-> NoRow, status |-> "absent"]

\* What a coroutine does: it prepares (_extract_provider), executes, has a result
\* or an error to write, found no running row to write it to, was struck by
\* cancel().  A task's entry stays "done", or "lost" when it was cancelled, until
\* it is drained.  A resumed one is created, then pending until there is room;
\* "stuck" is one cancelled before its first step, so that its finally never ran.
Executed == {"exec", "ok", "err"}
TaskState == {"none", "start", "zero", "killed", "done", "lost"} \cup Executed
Pending == {"created", "pending", "stuck"}
ResumeState == {"none", "zero", "killed"} \cup Pending \cup Executed

TypeOK ==
  /\ RowsTypeOK
  /\ proc \in [Worker -> {"down", "up", "stopping"}]
  /\ pc \in [Worker -> {"renew", "drain", "scan", "filter", "orphans",
                        "image", "video", "wind", "dead"}]
  /\ cap \in [Worker -> Configs]
  /\ owns \in [Worker -> BOOLEAN]
  /\ scanned \in [Worker -> BOOLEAN]
  /\ lost \in [Worker -> BOOLEAN]
  /\ hand \in [Worker -> Row \cup {NoRow}]
  /\ co \in [Worker -> [Row -> TaskState]]
  /\ re \in [Worker -> [Row -> ResumeState]]
  /\ slot \in [Worker -> [Row -> {"none", "task", "resume"}]]
  /\ snap \in [Worker -> [Row -> {"none", "cancelling", "fail", "resume", "zero"}]]
  /\ lease \in [owner : Worker \cup {NoWorker}, expired : BOOLEAN]
  /\ job \in [Row -> BOOLEAN]
  /\ api \in [Session -> [at : {"idle", "loaded", "signal"}, row : Row \cup {NoRow},
                          status : Status]]
  /\ starts \in [Row -> Nat]
  /\ outages \in 0 .. MaxOutages

Init ==
  /\ RowsInit
  /\ proc = [w \in Worker |-> "down"]
  /\ pc = [w \in Worker |-> "renew"]
  /\ cap \in [Worker -> Configs]
  /\ owns = [w \in Worker |-> FALSE]
  /\ scanned = [w \in Worker |-> FALSE]
  /\ lost = [w \in Worker |-> FALSE]
  /\ hand = [w \in Worker |-> NoRow]
  /\ co = [w \in Worker |-> [t \in Row |-> "none"]]
  /\ re = [w \in Worker |-> [t \in Row |-> "none"]]
  /\ slot = [w \in Worker |-> [t \in Row |-> "none"]]
  /\ snap = [w \in Worker |-> [t \in Row |-> "none"]]
  /\ lease = [owner |-> NoWorker, expired |-> TRUE]
  /\ job = [t \in Row |-> FALSE]
  /\ api = [s \in Session |-> Idle]
  /\ starts = [t \in Row |-> 0]
  /\ outages = 0

-----------------------------------------------------------------------------
(* Pools and transactions.                                                 *)

RowLane(t) == LaneOf[key[t]]

\* The entries of a pool's inflight dict, drained or not, and with its pending
\* ones: a claim counts both, a promotion only the former.
Inflight(w, l) == {t \in Inserted : RowLane(t) = l /\ slot[w][t] # "none"}
Waiting(w, l) == {t \in Inserted : RowLane(t) = l /\ re[w][t] \in Pending}
HasRoom(w, l) == Cardinality(Inflight(w, l)) + Cardinality(Waiting(w, l)) < cap[w][l]
PoolFull(w, l) == cap[w][l] > 0 /\ ~ HasRoom(w, l)

Lanes(media) == IF media = "video" THEN VideoLane ELSE Lane \ VideoLane

\* claim_next under the blacklist of full pools, which never filters rows
\* without a provider_id.
ClaimableBy(w, media) ==
  Claimable({l \in Lanes(media) : ~ PoolFull(w, l)})
    \cup {t \in Claimable(Lanes(media)) : key[t] \in Unlabelled}

\* A guarded UPDATE that finds the row in another status returns 0 rows.
OrNothing(A, enabled) == IF enabled THEN A ELSE UNCHANGED rows

FinalizeCancelled(t) == OrNothing(MarkCancelled(t, "user"), status[t] \in Active)

At(w, place) == pc[w] = place /\ proc[w] # "down"
Goto(w, place) == pc' = [pc EXCEPT ![w] = place]
Listed(w, t) == slot[w][t] # "none" \/ re[w][t] \in Pending

TaskGoes(w, t, state) == co' = [co EXCEPT ![w][t] = state] /\ UNCHANGED <<re, slot>>
ResumeGoes(w, t, state) == re' = [re EXCEPT ![w][t] = state] /\ UNCHANGED <<co, slot>>

\* The entry of a finished task waits for the drain, if the dict still has it.
TaskEnds(w, t, state) == TaskGoes(w, t, IF slot[w][t] = "task" THEN state ELSE "none")

\* A finished task that loses its entry is forgotten.
Unlisted(w, t) == IF co[w][t] \in {"done", "lost"} THEN [co EXCEPT ![w][t] = "none"] ELSE co

\* _run_one's finally pops the row out of both dicts, whoever's entry it is.
ResumeEnds(w, t) ==
  /\ re' = [re EXCEPT ![w][t] = "none"]
  /\ slot' = [slot EXCEPT ![w][t] = "none"]
  /\ co' = Unlisted(w, t)

-----------------------------------------------------------------------------
(* The main loop: _run_loop.                                               *)

Start(w) ==
  /\ proc[w] = "down"
  /\ proc' = [proc EXCEPT ![w] = "up"]
  /\ \E limits \in Configs : cap' = [cap EXCEPT ![w] = limits]
  /\ UNCHANGED <<rows, pc, owns, scanned, lost, hand, work, snap, lease, job, api,
                 starts, outages>>

\* reload_limits: the coroutines keep their place in the pools, above the new
\* limits if need be.
ReloadLimits(w) ==
  /\ proc[w] = "up"
  /\ \E limits \in Configs : cap' = [cap EXCEPT ![w] = limits]
  /\ UNCHANGED <<rows, proc, pc, owns, scanned, lost, hand, work, snap, lease, job, api,
                 starts, outages>>

\* Mutant: the UPDATE of the lease without its WHERE on owner and lease_until.
ObtainableByAnyone(w) == TRUE

\* acquire_or_renew_lease's condition.  A missing row is one that expired.
Obtainable(w) == lease.owner = w \/ lease.expired

\* acquire_or_renew_lease, and what the loop concludes: after a loss of more
\* than three TTLs it scans for orphans again.
Renew(w) ==
  /\ At(w, "renew")
  /\ proc[w] = "up"
  /\ LET got == Obtainable(w) IN
       /\ owns' = [owns EXCEPT ![w] = got]
       /\ lease' = IF got THEN [owner |-> w, expired |-> FALSE] ELSE lease
       /\ lost' = [lost EXCEPT ![w] = ~ got /\ (@ \/ owns[w])]
       /\ \/ UNCHANGED scanned
          \/ got /\ lost[w] /\ scanned' = [scanned EXCEPT ![w] = FALSE]
  /\ Goto(w, "drain")
  /\ UNCHANGED <<rows, proc, cap, hand, work, snap, job, api, starts, outages>>

Drain(w, t) ==
  /\ At(w, "drain")
  /\ co[w][t] \in {"done", "lost"}
  /\ IF co[w][t] = "lost" THEN FinalizeCancelled(t) ELSE UNCHANGED rows
  /\ co' = [co EXCEPT ![w][t] = "none"]
  /\ slot' = [slot EXCEPT ![w][t] = "none"]
  /\ UNCHANGED <<loop, re, snap, lease, job, api, starts, outages>>

Drained(w) ==
  /\ At(w, "drain")
  /\ \A t \in Row : co[w][t] \notin {"done", "lost"}
  /\ Goto(w, IF ~ owns[w] THEN "renew" ELSE IF scanned[w] THEN "image" ELSE "scan")
  /\ UNCHANGED <<rows, proc, cap, owns, scanned, lost, hand, work, snap, lease, job, api,
                 starts, outages>>

Claim(w) ==
  /\ \E media \in {"image", "video"} :
       /\ At(w, media)
       /\ hand[w] = NoRow
       /\ \E t \in ClaimableBy(w, media) :
            /\ \A r \in ClaimableBy(w, media) : t <= r
            /\ MarkRunning(t)
            /\ hand' = [hand EXCEPT ![w] = t]
  /\ UNCHANGED <<proc, pc, cap, owns, scanned, lost, work, snap, lease, job, api, starts,
                 outages>>

NextMedia(w) == Goto(w, IF pc[w] = "image" THEN "video" ELSE "renew")

ClaimNothing(w) ==
  /\ \E media \in {"image", "video"} : At(w, media) /\ ClaimableBy(w, media) = {}
  /\ hand[w] = NoRow
  /\ NextMedia(w)
  /\ UNCHANGED <<rows, proc, cap, owns, scanned, lost, hand, work, snap, lease, job, api,
                 starts, outages>>

\* _claim_tasks after _extract_provider answered: the provider does not do this
\* media type, its pool is full after all, or the task goes into the pool.  The
\* rows the first two UPDATEs affect are not looked at.
Route(w) ==
  /\ hand[w] # NoRow
  /\ proc[w] # "down"
  /\ LET t == hand[w]  l == RowLane(t) IN
       \/ /\ cap[w][l] = 0
          /\ OrNothing(MarkFailed(t), status[t] = "running")
          /\ UNCHANGED <<pc, co, slot>>
       \/ /\ PoolFull(w, l)
          /\ OrNothing(RequeueUnstarted(t), status[t] = "running")
          /\ NextMedia(w)
          /\ UNCHANGED <<co, slot>>
       \/ /\ HasRoom(w, l)
          /\ co' = [co EXCEPT ![w][t] = "start"]
          /\ slot' = [slot EXCEPT ![w][t] = "task"]
          /\ UNCHANGED <<rows, pc>>
  /\ hand' = [hand EXCEPT ![w] = NoRow]
  /\ UNCHANGED <<proc, cap, owns, scanned, lost, re, snap, lease, job, api, starts, outages>>

-----------------------------------------------------------------------------
(* _handle_orphan_tasks_on_start and the dispatcher it leaves behind.      *)

\* Mutant: the scan takes care of the rows it can resume only.
OrphanPlanIfResumable(t) ==
  IF status[t] = "cancelling" THEN "cancelling"
  ELSE IF status[t] = "running" /\ RowLane(t) \in Resumable /\ job[t] THEN "resume" ELSE "none"

\* What becomes of an orphan: image tasks, providers without resume_video and
\* rows without a provider_job_id are lost.
OrphanPlan(t) ==
  IF status[t] = "cancelling" THEN "cancelling"
  ELSE IF status[t] # "running" THEN "none"
  ELSE IF RowLane(t) \in Resumable /\ job[t] THEN "resume" ELSE "fail"

\* list_orphan_tasks_on_start, sorted by what is to be done.
ScanSelect(w) ==
  /\ At(w, "scan")
  /\ \A t \in Row : snap[w][t] = "none"
  /\ snap' = [snap EXCEPT ![w] = [t \in Row |-> OrphanPlan(t)]]
  /\ Goto(w, "filter")
  /\ UNCHANGED <<rows, proc, cap, owns, scanned, lost, hand, work, lease, job, api, starts,
                 outages>>

\* Rows this process is still working on are skipped.
ScanFilter(w) ==
  /\ At(w, "filter")
  /\ snap' = [snap EXCEPT ![w] = [t \in Row |-> IF Listed(w, t) THEN "none" ELSE @[t]]]
  /\ Goto(w, "orphans")
  /\ UNCHANGED <<rows, proc, cap, owns, scanned, lost, hand, work, lease, job, api, starts,
                 outages>>

\* Mutant: what cannot be resumed is put back into the queue.
OrphanRequeued(w, t) ==
  /\ ~ At(w, "filter")
  /\ \/ /\ snap[w][t] \in {"cancelling", "zero"}
        /\ FinalizeCancelled(t)
     \/ /\ snap[w][t] = "fail"
        /\ OrNothing(RequeueUnstarted(t), status[t] = "running")
  /\ snap' = [snap EXCEPT ![w][t] = "none"]
  /\ UNCHANGED <<loop, work, lease, job, api, starts, outages>>

Orphan(w, t) ==
  /\ ~ At(w, "filter")
  /\ \/ /\ snap[w][t] \in {"cancelling", "zero"}
        /\ FinalizeCancelled(t)
        /\ snap' = [snap EXCEPT ![w][t] = "none"]
     \/ /\ snap[w][t] = "fail"
        /\ OrNothing(MarkFailed(t), status[t] = "running")
        /\ snap' = [snap EXCEPT ![w][t] = IF status[t] = "running" THEN "none" ELSE "zero"]
  /\ UNCHANGED <<loop, work, lease, job, api, starts, outages>>

ScanEnd(w) ==
  /\ At(w, "orphans")
  /\ \A t \in Row : snap[w][t] \in {"none", "resume"}
  /\ scanned' = [scanned EXCEPT ![w] = TRUE]
  /\ Goto(w, "image")
  /\ UNCHANGED <<rows, proc, cap, owns, lost, hand, work, snap, lease, job, api, starts,
                 outages>>

\* _dispatch_provider_bucket, per task of the bucket.
DispatchResume(w, t) ==
  /\ snap[w][t] = "resume"
  /\ pc[w] \notin {"filter", "orphans"}
  /\ \/ /\ proc[w] = "stopping"
        /\ snap' = [snap EXCEPT ![w][t] = "none"]
        /\ UNCHANGED work
     \/ /\ proc[w] = "up" /\ cap[w][RowLane(t)] = 0
        /\ snap' = [snap EXCEPT ![w][t] = "fail"]
        /\ UNCHANGED work
     \/ /\ proc[w] = "up" /\ cap[w][RowLane(t)] > 0
        /\ snap' = [snap EXCEPT ![w][t] = "none"]
        /\ ResumeGoes(w, t, "created")
  /\ UNCHANGED <<rows, loop, lease, job, api, starts, outages>>

\* The first step of _run_one: from here on its handlers are in place.
Enter(w, t) ==
  /\ re[w][t] = "created"
  /\ ResumeGoes(w, t, "pending")
  /\ UNCHANGED <<rows, loop, snap, lease, job, api, starts, outages>>

\* Mutant: an off-by-one.
RoomToPromoteOneMore(w, l) == Cardinality(Inflight(w, l)) <= cap[w][l]

RoomToPromote(w, l) == Cardinality(Inflight(w, l)) < cap[w][l]

\* _promote_pending_when_room, which polls.  The semaphore before it admits as many
\* as the limit was at the time of the scan: below, none are held back by it.
Promote(w, t) ==
  /\ re[w][t] = "pending"
  /\ \/ /\ proc[w] = "up"
        /\ RoomToPromote(w, RowLane(t))
        /\ re' = [re EXCEPT ![w][t] = "exec"]
        /\ slot' = [slot EXCEPT ![w][t] = "resume"]
        /\ co' = Unlisted(w, t)
     \/ proc[w] = "stopping" /\ ResumeEnds(w, t)
  /\ UNCHANGED <<rows, loop, snap, lease, job, api, starts, outages>>

-----------------------------------------------------------------------------
(* The coroutines: _process_task and _process_resume_task.                 *)

\* execute_generation_task is entered.
Begin(w, t) ==
  /\ co[w][t] = "start"
  /\ TaskGoes(w, t, "exec")
  /\ starts' = [starts EXCEPT ![t] = @ + 1]
  /\ UNCHANGED <<rows, loop, snap, lease, job, api, outages>>

\* The video backend has submitted and persist_provider_job_id commits.
Submit(w, t) ==
  /\ co[w][t] = "exec"
  /\ RowLane(t) \in VideoLane
  /\ ~ job[t]
  /\ job' = [job EXCEPT ![t] = TRUE]
  /\ UNCHANGED <<rows, loop, work, snap, lease, api, starts, outages>>

\* The provider's answer.
Answer(w, t) ==
  /\ \E outcome \in {"ok", "err"} :
       \/ co[w][t] = "exec" /\ TaskGoes(w, t, outcome)
       \/ re[w][t] = "exec" /\ ResumeGoes(w, t, outcome)
  /\ UNCHANGED <<rows, loop, snap, lease, job, api, starts, outages>>

\* Mutant: without the 0-rows protocol.
WriteWithoutFallback(A, t, then, otherwise) ==
  OrNothing(A, status[t] = "running") /\ then

\* One guarded UPDATE; when it affects no row, mark_task_cancelled follows.
Write(A, t, then, otherwise) ==
  \/ status[t] = "running" /\ A /\ then
  \/ status[t] # "running" /\ UNCHANGED rows /\ otherwise

WriteResult(w, t) ==
  /\ \/ /\ co[w][t] = "ok"
        /\ Write(MarkSucceeded(t), t, TaskEnds(w, t, "done"), TaskGoes(w, t, "zero"))
     \/ /\ re[w][t] = "ok"
        /\ Write(MarkSucceeded(t), t, ResumeEnds(w, t), ResumeGoes(w, t, "zero"))
  /\ UNCHANGED <<loop, snap, lease, job, api, starts, outages>>

\* A retryable failure within the budget goes back to the queue; a resume never
\* does.
WriteFailure(w, t) ==
  /\ \/ /\ co[w][t] = "err"
        /\ \/ Write(MarkFailed(t), t, TaskEnds(w, t, "done"), TaskGoes(w, t, "zero"))
           \/ Write(RequeueAttempt(t), t, TaskEnds(w, t, "done"), TaskGoes(w, t, "zero"))
     \/ /\ re[w][t] = "err"
        /\ Write(MarkFailed(t), t, ResumeEnds(w, t), ResumeGoes(w, t, "zero"))
  /\ UNCHANGED <<loop, snap, lease, job, api, starts, outages>>

\* The 0-rows protocol and the handlers of CancelledError.
WriteCancelled(w, t) ==
  /\ FinalizeCancelled(t)
  /\ \/ co[w][t] = "zero" /\ TaskEnds(w, t, "done")
     \/ co[w][t] = "killed" /\ TaskEnds(w, t, "lost")
     \/ re[w][t] \in {"zero", "killed"} /\ ResumeEnds(w, t)
  /\ UNCHANGED <<loop, snap, lease, job, api, starts, outages>>

-----------------------------------------------------------------------------
(* GenerationQueue.cancel_task: repository call, then request_cancel.      *)

Serves(s) == Host[s] \in Worker => proc[Host[s]] # "down"

CancelLoad(s, t) ==
  /\ Serves(s)
  /\ api[s].at = "idle" /\ status[t] # "absent"
  /\ api' = [api EXCEPT ![s] = [at |-> "loaded", row |-> t, status |-> status[t]]]
  /\ UNCHANGED <<rows, loop, work, snap, lease, job, starts, outages>>

CancelDispatch(s) ==
  /\ api[s].at = "loaded"
  /\ LET t == api[s].row IN
       \/ /\ api[s].status = "queued"
          /\ FinalizeCancelled(t)
          /\ api' = [api EXCEPT ![s] = Idle]
       \/ /\ api[s].status = "running"
          /\ OrNothing(MarkCancelling(t, "user"), status[t] = "running")
          /\ api' = [api EXCEPT ![s] =
               IF status'[t] = "cancelling" THEN [@ EXCEPT !.at = "signal"] ELSE Idle]
       \/ /\ api[s].status \notin {"queued", "running"}
          /\ api' = [api EXCEPT ![s] = Idle]
          /\ UNCHANGED rows
  /\ UNCHANGED <<loop, work, snap, lease, job, starts, outages>>

\* Where cancel() hits a coroutine: inside a try that handles it, or not.
TaskStruck(state) == IF state \in {"exec", "ok"} THEN "killed" ELSE "lost"
ResumeStruck(state) == IF state = "created" THEN "stuck" ELSE "killed"

\* request_cancel: the entry of the inflight dict unless it is done, else the
\* pending one.
RequestCancel(w, t) ==
  IF slot[w][t] = "task" /\ co[w][t] \notin {"done", "lost"}
  THEN TaskGoes(w, t, TaskStruck(co[w][t]))
  ELSE IF slot[w][t] = "resume" \/ re[w][t] \in {"created", "pending"}
  THEN ResumeGoes(w, t, ResumeStruck(re[w][t]))
  ELSE UNCHANGED work

\* GenerationQueue.cancel_task after the commit, by the callback of the worker in
\* this process, if any.
Signal(s) ==
  /\ api[s].at = "signal"
  /\ IF Host[s] = NoWorker THEN UNCHANGED work ELSE RequestCancel(Host[s], api[s].row)
  /\ api' = [api EXCEPT ![s] = Idle]
  /\ UNCHANGED <<rows, loop, snap, lease, job, starts, outages>>

-----------------------------------------------------------------------------
(* The clients.                                                            *)

Enqueue(k, d) ==
  /\ \E t \in Row : Insert(t, k, d)
  /\ UNCHANGED <<loop, work, snap, lease, job, api, starts, outages>>

CancelAllQueued ==
  /\ Session # {} /\ CancelQueued
  /\ UNCHANGED <<loop, work, snap, lease, job, api, starts, outages>>

-----------------------------------------------------------------------------
(* Outages.                                                                *)

Fault(kind) == kind \in Faults /\ outages < MaxOutages /\ outages' = outages + 1

Forget(w) ==
  /\ co' = [co EXCEPT ![w] = [t \in Row |-> "none"]]
  /\ re' = [re EXCEPT ![w] = [t \in Row |-> "none"]]
  /\ slot' = [slot EXCEPT ![w] = [t \in Row |-> "none"]]
  /\ snap' = [snap EXCEPT ![w] = [t \in Row |-> "none"]]
  /\ proc' = [proc EXCEPT ![w] = "down"]
  /\ owns' = [owns EXCEPT ![w] = FALSE]
  /\ scanned' = [scanned EXCEPT ![w] = FALSE]
  /\ lost' = [lost EXCEPT ![w] = FALSE]
  /\ hand' = [hand EXCEPT ![w] = NoRow]
  /\ Goto(w, "renew")
  /\ api' = [s \in Session |-> IF Host[s] = w THEN Idle ELSE api[s]]
  /\ UNCHANGED <<rows, cap, job, starts>>

\* A new process has a new owner_id: what is left of the lease belongs to nobody.
Crash(w) ==
  /\ proc[w] # "down"
  /\ Fault("crash")
  /\ lease' = IF lease.owner = w THEN [lease EXCEPT !.owner = NoWorker] ELSE lease
  /\ Forget(w)

\* The lease runs out unless its owner is alive and its loop is on time; a loop
\* that waits for its coroutines to end renews nothing.
Expire ==
  /\ ~ lease.expired
  /\ lease' = [lease EXCEPT !.expired = TRUE]
  /\ \/ lease.owner = NoWorker /\ UNCHANGED outages
     \/ lease.owner \in Worker /\ pc[lease.owner] = "wind" /\ UNCHANGED outages
     \/ lease.owner \in Worker /\ pc[lease.owner] # "wind" /\ Fault("slow")
  /\ UNCHANGED <<rows, loop, work, snap, job, api, starts>>

\* stop(): the loop ends at its next turn, the coroutines are waited for.
Stop(w) ==
  /\ proc[w] = "up" /\ pc[w] # "dead"
  /\ Fault("stop")
  /\ proc' = [proc EXCEPT ![w] = "stopping"]
  /\ UNCHANGED <<rows, pc, cap, owns, scanned, lost, hand, work, snap, lease, job, api, starts>>

WindDown(w) ==
  /\ At(w, "renew") /\ proc[w] = "stopping"
  /\ Goto(w, "wind")
  /\ UNCHANGED <<rows, proc, cap, owns, scanned, lost, hand, work, snap, lease, job, api,
                 starts, outages>>

Released(w) == IF owns[w] /\ lease.owner = w THEN [owner |-> NoWorker, expired |-> TRUE] ELSE lease

\* The dicts are cleared: a coroutine that was cancelled is not drained any more.
Stopped(w) ==
  /\ At(w, "wind")
  /\ \A t \in Row : /\ slot[w][t] = "none" \/ co[w][t] \in {"done", "lost"}
                   /\ re[w][t] \in {"none", "stuck"}
                   /\ snap[w][t] = "none"
  /\ lease' = Released(w)
  /\ Forget(w)
  /\ UNCHANGED outages

\* An exception in the loop (a locked database, say) ends it for good; finally
\* gives up the lease, the coroutines go on.
LoopFails(w) ==
  /\ proc[w] = "up" /\ pc[w] # "dead"
  /\ Fault("loop")
  /\ Goto(w, "dead")
  /\ lease' = Released(w)
  /\ owns' = [owns EXCEPT ![w] = FALSE]
  /\ hand' = [hand EXCEPT ![w] = NoRow]
  /\ snap' = IF pc[w] \in {"filter", "orphans"}
               THEN [snap EXCEPT ![w] = [t \in Row |-> "none"]] ELSE snap
  /\ UNCHANGED <<rows, proc, cap, scanned, lost, work, job, api, starts>>

-----------------------------------------------------------------------------
Loop(w) ==
  \/ Renew(w) \/ (\E t \in Row : Drain(w, t)) \/ Drained(w)
  \/ Claim(w) \/ ClaimNothing(w) \/ Route(w)
  \/ ScanSelect(w) \/ ScanFilter(w) \/ ScanEnd(w)
  \/ WindDown(w) \/ Stopped(w)

Coroutine(w, t) ==
  \/ Orphan(w, t) \/ DispatchResume(w, t) \/ Enter(w, t) \/ Promote(w, t)
  \/ Begin(w, t) \/ Answer(w, t)
  \/ WriteResult(w, t) \/ WriteFailure(w, t) \/ WriteCancelled(w, t)

Outage ==
  \/ Expire
  \/ \E w \in Worker : Crash(w) \/ Stop(w) \/ LoopFails(w)

Next ==
  \/ \E k \in Key, d \in Inserted \cup {NoRow} : Enqueue(k, d)
  \/ CancelAllQueued
  \/ \E s \in Session, t \in Row : CancelLoad(s, t)
  \/ \E s \in Session : CancelDispatch(s) \/ Signal(s)
  \/ \E w \in Worker : Start(w) \/ ReloadLimits(w) \/ Loop(w)
  \/ \E w \in Worker, t \in Row : Coroutine(w, t) \/ Submit(w, t)
  \/ Outage

Spec == Init /\ [][Next]_vars

\* The event loop runs whatever can run, a call to a provider ends (the backends
\* bound their polling), a dead owner's lease runs out, a process that went down
\* is started again, and a cancel call under way goes on.
FairSpec ==
  /\ Spec
  /\ \A w \in Worker : WF_vars(Start(w)) /\ WF_vars(Loop(w))
  /\ \A w \in Worker, t \in Row : WF_vars(Coroutine(w, t))
  /\ \A s \in Session : WF_vars(CancelDispatch(s) \/ Signal(s))
  /\ WF_vars(lease.owner = NoWorker /\ Expire)

-----------------------------------------------------------------------------
(* Safety.                                                                 *)

\* A task is handed to its executor, which pays a provider, at most once per
\* attempt, whatever crashes, leases, cancels and orphan scans do in between.
NeverOvercharged == \A t \in Row : starts[t] <= attempt[t]

\* A pool takes on a coroutine only below its limit, although claims and the
\* resume dispatcher fill it independently of each other and the limit may have
\* changed since either looked.
WithinCapacity ==
  [][\A w \in Worker, l \in Lane :
       Cardinality(Inflight(w, l)') > Cardinality(Inflight(w, l)) =>
         Cardinality(Inflight(w, l)') <= cap[w][l]]_vars

\* A row that is running or being stopped is somebody's: while a worker serves
\* the queue (and has scanned it), some worker holds the row, is working on it
\* or still has it on its list of orphans.
Attended(t) ==
  \E w \in Worker :
    \/ hand[w] = t \/ snap[w][t] # "none"
    \/ co[w][t] \notin {"none", "done"} \/ re[w][t] \notin {"none", "stuck"}
NoLostRow ==
  \A w \in Worker : proc[w] = "up" /\ lease.owner = w /\ owns[w] /\ scanned[w] =>
    \A t \in Row : status[t] \in {"running", "cancelling"} => Attended(t)

\* The executions going on, of claimed and of resumed tasks.
Executions ==
  {x \in [worker : Worker, row : Row, resumed : BOOLEAN] :
     (IF x.resumed THEN re ELSE co)[x.worker][x.row] \in Executed}

\* Two executions never work on the same resource at the same time, be it for
\* one row in two processes or for two rows of one key.
NoTwinWork == \A x, y \in Executions : key[x.row] = key[y.row] => x = y

-----------------------------------------------------------------------------
(* Liveness.                                                               *)

\* A row whose dependency is met comes to an end, in spite of retries, full
\* pools, crashes and restarts.
Served == \A t \in Row : status[t] = "queued" /\ DependencyMet(t) ~> status[t] \in Final

\* A row asked to stop is stopped.
CancellingEnds == \A t \in Row : status[t] = "cancelling" ~> status[t] = "cancelled"
=============================================================================
