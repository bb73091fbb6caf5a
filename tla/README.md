# Manju (ArcReel): a TLA+ model of its task queue, agent sessions and project files

This directory holds TLA+ specifications of the backend under `src/backend` (and of what
a page of `src/frontend` does with it), the TLC configurations that check them on small instances, and proofs checked by
TLAPS. `PROJECT.json` lists every component, run, theorem, finding and hazard and
says for each definition which source lines it models.

Contents: [the system](#the-system) · [the modules](#the-modules) ·
[the runs](#the-runs) · [fairness](#fairness) · [the proofs](#the-proofs) ·
[what the code does differently from what it says](#divergences) ·
[what is left out](#what-is-left-out) · [plan](#plan)

## The system

The plugin makes short films: a web UI and an assistant submit *generation tasks*
(a storyboard image, a video clip, a grid), a worker executes them by calling paid
image and video providers, and every result becomes a version of a project's media.
A desktop bridge runs the same code as separate processes.

| Component | State it keeps | Operations | Talks to | What makes it correct |
|---|---|---|---|---|
| Task table: `lib/db/repositories/task_repo.py`, `lib/db/models/task.py` | rows: status, dedupe key, dependency, cancelled_by, payload (retry attempt) | enqueue, claim_next, mark_succeeded / failed / cancelled, requeue_failed_attempt, requeue_running, cancel_task, cancel_all_queued, finalize_cancelled | SQLite or PostgreSQL; sessions of two processes | one active row per key; start only after the dependency succeeded; terminal is terminal; a death reaches all dependents in one transaction; `cancelling` ends as `cancelled` |
| Worker: `lib/generation_worker.py` | lease flags, provider pools (inflight and pending dicts), one coroutine per task, orphan list | renew lease, drain, orphan scan, claim, route, resume dispatch, execute, retry, request_cancel, reload_limits, stop | task table, lease row, providers | a paid execution once per attempt; one execution per resource; capacity; no row forgotten; cancels end |
| Lease: `WorkerLease` row, `acquire_or_renew_lease`, `release_lease` | owner, lease_until | acquire, renew, release, expire | workers of all processes | one owner at a time |
| Queue facade: `lib/generation_queue.py` | the worker's cancel callback | enqueue, claim, cancel (database, then signal) | task table, worker | a committed cancel is followed up |
| Queue client: `lib/generation_queue_client.py` | none | enqueue and wait, batches with dependencies | queue, polling, worker process | a row enqueued is served |
| Executors: `server/services/generation_tasks.py`, `resume_executor.py`, `lib/media_generator.py` | a coroutine's call id and job id | execute, resume | providers, ledger, versions | every call ends in the ledger; no paid result is lost; the row's result is the provider's |
| API call ledger: `lib/usage_tracker.py`, `usage_repo.py` | rows pending / success / failed | start_call, finish_call, finalize_pending_call | database | no call stays pending without a reason; a settled call stays settled |
| Version manager: `lib/version_manager.py`, `server/routers/versions.py` | `versions.json` and files | add, track, restore, delete, upload | file system | the number in `current_version` exists and is the file everybody reads |
| Task event stream: `server/routers/tasks.py` | cursor, subscribers | snapshot, follow | task events table | a client that follows misses nothing |
| Desktop bridge: `utils/arcreel_ipc_bridge.py`, `arcreel_worker_process.py` | child process | spawn, idle exit | worker | a row enqueued is served, though the worker ends itself |
| Session actor: `server/agent_runtime/session_actor.py` | command queue, one SDK client | query, interrupt, disconnect | Claude SDK | every caller is answered; one turn at a time |
| Session manager: `session_manager.py`, `service.py` | registry, locks per session, status (in memory and in the database), timers | create, restore, send, subscribe, interrupt, evict, patrol | session actor, database | the limit holds; the status follows the turn; no actor outlives its place in the registry |
| Session messages: `session_manager.py` (`ManagedSession`) | buffer, subscribers' queues | add, broadcast, subscribe | streams | critical messages come in order or the stream is cut |
| Project events: `server/services/project_events.py`; the page: `frontend/src/hooks/useProjectEventsSSE.ts`, `router.tsx` | channel per project, watch task, snapshot, subscribers; what the page shows | subscribe, unsubscribe, scan, announce a batch; load, refresh | files, event streams | nothing is missing between a snapshot and the next change; the page catches up |
| Project manager: `lib/project_manager.py` | `project.json`, scripts, lock files | save_script, locked_script, locked_episode_script, update_project, episode sync | file system; threads of several processes | no lost update; no write to a script its episode no longer has; no deadlock |
| Archive, storyboard sequence, grids, configuration, cost, rest of the frontend, migrations | files, settings | see `PROJECT.json` | | |

The behaviours that are hard: several database sessions read and then write the same
rows; the worker loop, its coroutines and the cancel API interleave at every `await`;
processes crash, stop gracefully and come back; the lease expires under a live owner;
a provider's answer races with a cancel, an orphan scan or a retry; an actor dies between
the end of a turn and its record; requests connect to a session that is being evicted;
clients join a channel whose last subscriber is leaving; threads of two processes edit
files that name each other, and die with a lock. They are listed
one by one, with their lines, under `hazards` in `PROJECT.json`.

## The modules

```
TaskLifecycle             what the queue promises (abstract)
    ^ refined by
TaskRows                  the rows and the SQL transactions on them
    ^ extended by        \___________________________
TaskTable                 sessions that interleave   GenerationWorker   workers, lease, coroutines
    ^                                                    ^          ^
MCTaskTable               instances for TLC    MCGenerationWorker   DesktopQueue  bridge, child process, clients
                                                                    ^
                                                                 MCDesktopQueue
TaskTable_proofs             GenerationWorker_proofs  (of GenerationWorker and of DesktopQueue)

UsageLedger    VersionManager          transactions of the ledger, of versions.json
        ^       ^
      MediaExecution                   one execution between them
        ^
MCMediaExecution, MediaExecution_proofs

SessionMailbox            what a session promises (abstract)
    ^ refined by
SessionActor              the actor's task, its helper tasks, its queue
    ^
MCSessionActor, SessionActor_proofs

SessionManager            the registry of sessions  <- MCSessionManager, SessionManager_proofs

MessageFeed               what a live stream promises (abstract)
    ^ refined by
SessionFanout             buffer and queues of one session  <- MCSessionFanout, SessionFanout_proofs

ProjectEvents             channels, scans, batches, subscribers
    ^ extended by
ProjectView               the page that follows them  <- MCProjectView, ProjectView_proofs

ProjectFiles              scripts, project.json, locks  <- MCProjectFiles, ProjectFiles_proofs
```

**TaskLifecycle** is the abstract specification. A task is absent, waiting, working,
stopping, done or dead; a step submits one, moves one along, puts some back, or lets a
set perish that is closed under "waits for a member of the set".

**TaskRows** has the columns the logic depends on (`status`, `key`, `dep`,
`cancelledBy`, `attempt`) and one operator per committed SQL transaction. A row is
named by its place in `queued_at` order, so "oldest first" is `<=`; the four columns
under the unique partial index `idx_tasks_dedupe_active` are one `key`. The recursive
cascades (`_cascade_failed_queued`, `_cascade_cancel_dependents`,
`_collect_queued_dependents`) are the least set `QueuedBelow`, with no recursive
operator, so that it can be reasoned about. The default engine is SQLite in its legacy
transaction mode: a `SELECT` before the first `UPDATE` runs outside the write
transaction, everything from the first `UPDATE` to the commit is atomic. Operations of
the shape "read, then guarded UPDATE" are therefore two steps in the modules that
extend this one, the others one step.

**TaskTable** runs the transactions from concurrent sessions, with no assumption on who
calls what when: what `claim_next` selected (`picked`) and what `cancel_task` loaded
(`seen`) are held between the read and the write. An INSERT that the index rejects
changes nothing; the read that follows it only words the answer and is no action.

**GenerationWorker** adds the processes. Per worker it has the process (`proc`: down, up,
stopping), the main loop (`pc`: renew → drain → scan/filter/orphans → image → video), the
flags `_owns_lease`, `_orphan_handled_once` and `_lease_lost_monotonic`, the limits, the
row just claimed (`hand`), the coroutines `_process_task` (`co`) and `_run_one` (`re`),
the entry of the inflight dict (`slot`; both coroutines of a row may exist while the dict
has one entry, and each removes it when it ends) and what the orphan scan has still to do
(`snap`). A program counter value stands for a place where the code awaits. The provider
is external: an execution ends with an answer or an error. `GenerationQueue.cancel_task`
is load, dispatch and, after the commit, `Signal`: it cancels the coroutine of the worker
in the same process (`Host[s]`, the server deployment) or nothing (`NoWorker`, the
desktop bridge, where no callback is registered). `Signal` distinguishes where `cancel()`
strikes: inside the `try` that writes `cancelled`, outside it (the drain finds a
cancelled task), or before a coroutine's first step. `claim_next` is a single step here;
its two halves are the subject of TaskTable.

Time is abstracted: the lease row says whether `lease_until` has passed. It passes for an
owner that is gone, for one that waits for its coroutines after `stop()`, and, as a fault
(`"slow"`), for one that is merely late. `lost[w]` is `_lease_lost_monotonic`; whether the
loss took longer than three TTLs is a choice.

The variable `starts` is history: `starts[t]` counts how often `execute_generation_task`
was entered for a row.

**SessionMailbox** is what a caller of a session may rely on: a command waits, takes a turn
if it is a query and nobody else has the turn, and is settled once, answered or refused.

**SessionActor** is `agent_runtime/session_actor.py`: one asyncio task that owns the SDK
client. `at` is the place where it awaits (connecting, at the queue, in `client.query`,
in `asyncio.wait`, in one of the two `client.interrupt()`, leaving the client's context),
and the local variables of `_command_loop` and `_drive_query` are variables: the query with
the turn (`current`), what the `cmd_task` took (`taken`), `pending_query` (`pending`), how
the `msg_task` stands (`stream`). The helper tasks are actions of their own (`Take`,
`Receive`), so that a command may arrive before, with or after the end of the stream.
A command is in `posted`, `sent`, `done`, `refused` according to its events and its error.
Every call of the SDK may raise and the task may be cancelled anywhere (`Faults`). A
message that is not the last changes nothing the callers of the actor wait for, and
`on_message` raising is the stream raising.

**DesktopQueue** puts GenerationWorker into the desktop plugin and reuses its actions. The
bridge keeps one child (`child`, `_worker_process`); `Ensure` starts one if there is none or
`poll()` says that it has ended. A client is a command of the user (`Generate`: the route
enqueues, the bridge ensures the child), a tool of the agent (`AskOnline`, `StartChild`,
`Started`, `EnqueueOnline`: `enqueue_task_only` trusts a lease that has not run out) or a
snapshot of the task stream that shows work (`Subscribe`). The child sees its last empty
statistics (`SeesIdle`) and some time later ends itself (`IdleExit`), with `worker.stop()`;
a process whose loop is dead forgets its coroutines by ending, as a crash does. `BridgeDies`
leaves the child behind, unknown to the next bridge; an orderly exit of the bridge, which
terminates the child, is a crash of the child and then the death of the bridge. `Start` is
only taken through `Ensure`; changes of the limits are left to the other runs.

**UsageLedger** and **VersionManager** hold the state of a resource's paid calls and of its
media, with one operator per transaction or locked operation. `calls` is the table
`api_calls` in INSERT order; of a call's cost only the job it was computed from is kept.
`file` is what `output_path` holds (nothing, something torn, an upload, or the result of a
job), `versions` the copies by number.

**MediaExecution** is the coroutine of `MediaGenerator` between the claim of a row and its
final status, in both modes (`generate`, `resume`): `at` is the place where it awaits, and
the actions are in the order of the code (`Open` a call, `Link` it to the row, `Submit`,
`Persist` the job id, poll, `Download` in a thread, settle, version, final status). `Crash`
and `Cancel` strike at every await; an exception is first reported to the ledger where the
`try` covers it (`Covered`) and fails the row otherwise. A resume is first `resuming`: it loads
the project, the generator and the ledger's row, and its `try` begins only where it asks the
provider for the job (`ResumeJob`). The orphan scan fails a row whose provider cannot resume
it, or has no lane for videos (`Recover` with `"unresumable"`). A thread that writes a download goes
on when its coroutine is cancelled (`writers`). The provider is external. Users restore and
delete versions and upload media beside it; an upload writes file and version in two steps.

**SessionManager** has the registry `sessions`, the locks by session id (`lockOf`: which lock
object the dictionary has, because an eviction drops it), the status in the database
(`meta`) and the managed objects in the order they were made, each with its status, actor,
turns, inbox and timers. A request (`caller`) is a program counter over `send_or_create`,
`get_or_connect`, `_ensure_capacity`, `send_message` and `send_new_session`; a step is what
happens between two awaits of the event loop. The end of a turn is broadcast (`Result`) and
brought to the database by the inbox (`Finalize` in two steps); the death of an actor is
recorded by a task of its own (`persisting`), in the row of the id the object has at that
moment: an object that still has its temporary id misses its row. A new session is named by
the inbox: the row is made and set to running (`MakeRow`, or `RowFails`), then the keys are
swapped (`SwapKeys`), whether or not its actor still lives. Where the name does not come in
time `_cleanup_on_error` drops the registry entry (`NamingFails`), waits for the disconnect
while actor and inbox go on, and cancels the inbox at last (`CleanedUp`); `Popped` are the
objects in between. The timers and the patrol evict (`TimerEnded`,
`Disconnected`, `Evicted`); an object is `UnderEviction` until its `_evict_one` has dropped
registry entry and lock by session id, whatever these hold by then. A request that finds a
dead object cleans up that object (`Acquire` keeps it, `Discard` retires it) and then drops
the entry of the session id as well. SessionActor's protocol is reduced to: an actor runs the queries
it is given, one after the other, and may die.

**MessageFeed** is what a subscriber may rely on: messages in order, none of the critical ones
left out while the stream lasts. **SessionFanout** is `ManagedSession`'s buffer with its
evictions and the bounded queues of the streams, with the replay a new stream is given.

**ProjectEvents** is `project_events.py`. A channel object may outlive its place in
`_channels`, so objects are numbered and `current` says which one is registered; the watch
task scans in a thread (`read` is what the thread has read before the loop compares it),
batches rebuild the snapshot in tasks of their own, a client joins, is greeted with a
snapshot, and leaves in the steps between the awaits of `unsubscribe`. The contents of a
project are a version number of what `_diff_snapshots` lists. **ProjectView** adds the page:
its first load (`router.tsx`), the loads of `refreshProject` with `refreshingRef` and
`needsRefreshRef`, and the fingerprint compared at a reconnection. Loads may fail: the first
then leaves the page empty, whatever it showed (`FirstFails`), one of `refreshProject` leaves
what is shown and starts the next if a change came meanwhile (`LoadFails`). The history `early`
marks a page that was shown an answer older than what it replaced, or whose first fingerprint
was newer than all it showed or was loading; `missed` one whose load failed and for which no
load has been called since or is still to be asked.

**ProjectFiles** is the locking of `project_manager.py`: `index` is `project.json` (the script
and the title of an episode, edits of anything else), `script` the script files. A thread's
`job` is an operation and where it stands: asking `project.json` for the episode's script,
waiting for the script's lock file, reading, changing, writing, then waiting for
`.project.json.lock` for the sync. Edits are counted in the files and beside them
(`due`, `dueProject`), so that a lost one shows. The scan of a channel
(`_ensure_script_index_synced`) goes through the scripts without holding their locks while it
writes `project.json`, and passes over one that it cannot read or whose sync raises, as that of
a file whose name and number disagree does (`ScanSkips`). A process dies with its threads, and the system releases its locks.

## The runs

Model values name keys, lanes, workers, sessions, threads and clients.
`CHECK_DEADLOCK FALSE` is set where the bounds on rows, messages and faults let the system
come to rest.

| Run | Instance | Question |
|---|---|---|
| `table` | 3 rows, 2 attempts, 3 keys in one lane, 2 sessions | do all interleavings of the repository's operations keep one active row per key, dependency order, attribution, the cascades, and implement TaskLifecycle? Three rows with three keys are the least with a row, its dependent and the dependent of that active at once; two sessions the least with a read overtaken by another session's. Lanes are the subject of the worker's runs |
| `worker_faults` | 1 resumable video row, 2 attempts, 2 workers, a cancelling client, 2 faults of any kind | is an execution paid once per attempt? Two faults let a second owner die or stall too |
| `worker_takeover` | 2 rows with and without `provider_id`, 2 workers, 2 crashes, limits 0 and 1 that change at any time | do executions of one key exclude each other, is every running row somebody's, does a pool stay within its limit? |
| `worker_live` | 2 image rows, 2 attempts, 1 worker with the cancel API in its process, 1 crash | do rows end, do cancels end, is nothing forgotten? |
| `desktop` | 1 video row that cannot be resumed, 1 attempt, 2 processes, 1 client, 1 cancel call, 1 outage: a crash, a stop, a dead loop or a dead bridge | are rows served and stopped although the worker ends itself and nobody restarts it but clients? Two processes are an orphaned child and its successor, or one that ends while the next starts. The properties held too where the video can be resumed (357,549 states), and with two image rows, one process and the outages crash and dead loop (132,023 states) |
| `media` | 2 rows, image or video, 2 attempts, 2 setbacks (crashes, retries, uploads and restores together), any cancel, any exception, a provider that may be unable to resume | do ledger, versions and the row's result agree? Two setbacks are a crash and a second one during the resume, or a crash beside a user's restore; the second row meets what the first left behind |
| `sessions` | 2 sessions, one not yet created, 2 requests, a limit of 1, 2 managed objects, 2 queries, 1 death | are turns protected, do statuses settle, does the limit hold? One session more than the limit makes evictions happen; a second request overlaps with the first, a second object with the one being evicted or dead. The properties held too with streams opened after the last query (3.8 million states) and with both sessions new (4.4 million) |
| `sessions_stuck` | the same | expected violation, see [below](#divergences) |
| `fanout` | 1 subscriber, buffer of 3, queue of 2, 5 messages of 3 kinds, 2 streams one after the other | does the stream implement MessageFeed? A broadcast treats every queue on its own, so one is enough; five messages overflow the buffer twice and the queue more than once |
| `project_view` | 2 clients, one with a page, 2 channel objects, 2 subscriptions, a write, a batch, a failure (of a scan, a rebuild or a load), queues of 1 | is nothing missing between a snapshot and the next change, does the page catch up? A queue of one makes a subscriber be dropped. The invariants were also checked at larger bounds (4.1 and 10 million states) |
| `project_files` | 2 threads and a scanner in 2 processes, 2 scripts, 2 titles, 2 operations, 1 fault (a crash, or a script the scan cannot read) | is no update lost, does everything end, do the files come to agree? Two operations and a scan are a holder and two waiters at either lock. Safety also with 3 operations (1.4 million states) |
| `session_actor` | 3 queries, 1 interrupt, 1 disconnect, every fault | does the actor implement SessionMailbox, is every command answered while it lives, and who is left without a reply when it is gone? Three queries are one with the turn, one pending and one that must be refused |

Bounds: `MaxRows` rows are ever inserted, `MaxAttempts` is the code's retry budget,
`MaxOutages` limits how many of the fault kinds in `Faults` happen; the other modules name
theirs with their constants (`MaxSetbacks`, `MaxObjects`, `MaxQueries`, `MaxDeaths`,
`MaxMessages`, `MaxStreams`, `MaxChannels`, `MaxJoins`, `MaxWrites`, `MaxBatches`,
`MaxFailures`, `MaxOps`, `MaxFaults`). `starts` needs no bound: a proof shows that it stays
within the attempts. Symmetry is used for workers, for database sessions, for the callers of
the session manager and for the keys of one lane, which nothing orders, and never in a run
with a liveness property.

What the properties say:

- `OneActivePerKey`, `StartedAfterDependency`, `CascadeAttribution` relate rows to each
  other across transactions that do not look at both; `CancellingOnlyCancels`,
  `DeathReachesAllBelow` say what a transaction may never do; `LifecycleSpec` is the
  refinement. `FinalIsFinal`, which the refinement implies, is stated for its theorem.
- `NeverOvercharged`: a row is handed to the executor at most `attempt` times.
- `NoTwinWork`: no two executions for one resource at a time.
- `NoLostRow`: while some worker serves the queue, a running or cancelling row is in
  some worker's hand, coroutine or orphan list.
- `WithinCapacity`: a pool grows only up to its limit, although `_claim_tasks` counts
  pending resumes and `_promote_pending_when_room` does not.
- `Served`, `CancellingEnds`: rows whose dependency is met end; a cancel ends.
- `AlwaysAttended`: without an outage no row is running with nobody at work on it, though
  the child decides to end on statistics that are old when it acts on them.
  `ServedUnlessDead`, `StoppingEnds`: a row is served, and one asked to stop does so, after
  whatever ended the worker; only a process whose loop is dead keeps the next from starting.
- `PendingExplained`: a call is left pending only by a cancel, by a crash before the row
  knew its job, or by a row that fails after a crash before its provider was asked again.
  `SettledIsFinal`: no later transaction changes a settled call.
  `ResultKept`: the version a succeeded row names holds what the provider returned for that
  row. `FileIsCurrent`, `CurrentExists`: `versions.json` and the file agree.
- `TurnShown`: a session with a turn to run or to settle is shown as running (this is what
  protects it from every kind of eviction). `SettledWhenQuiet`: nothing is shown as running
  when nothing is left to do. `WithinLimit`: requests that connect at the same time exceed
  the limit by less than their number; an actor whose request has dropped it and waits for its
  disconnect is not counted, by the code as by the property. `NoneLeaked`: no actor runs outside
  the registry but those that the request which dropped them is disconnecting.
  All but `WithinLimit` except, by history variables (`overlapped`, `stale`, `collided`), the
  cases listed under [divergences](#divergences).
- `FeedSpec`: the stream implements MessageFeed. `CriticalReaches`: a critical message is
  delivered or the stream ends. `TransientsGoFirst`: critical messages of a turn leave the
  buffer only if nothing else can.
- `NoGap`: a follower's last message is about what the next scan is compared with.
  `Attended`: a channel with subscribers is registered and scanned, one without is not.
  `UpToDate`, `CatchesUp`: a page that has heard everything shows it; a page does not stay
  behind the files, though loads fail: what a failed load missed is shown after the next change.
- `NoLostUpdate`: no read-modify-write of a script or of `project.json` is lost.
  `WrittenWhereBound`: `locked_episode_script` writes only the script the episode has at that
  moment. `SyncIsCurrent`: the title a sync copies is the script's at that moment.
  `OpsEnd`: nobody is stuck at a lock. `Heals`: `project.json` comes to agree with the scripts.
- `MailboxSpec`: whichever command races with the end of the stream, one query has the turn
  at a time and a reply is given once. `AtMostOneLost`: when the actor is over, all commands
  but one have a reply, and the exception is a command that the `cmd_task` held when
  something raised. `Answered`: a command is replied to or the actor ends.

Each property has a mutant in `PROJECT.json`: a plausible bug in a modelled definition
with which TLC finds the property violated under the same configuration. The type
invariants no run lists were checked by TLC while the modules were written; they are
theorems too, or parts of a proved invariant (`BridgeTypeOK`).

## Fairness

Liveness is checked under `FairSpec`. Weak fairness of the worker's loop and coroutines
is what asyncio gives: a ready callback runs. A provider's answer is fair because the
backends bound their polling. A process that is down is started again (`Start`; the
server is supervised, the bridge respawns the worker on demand), a dead owner's lease
runs out, and a cancel call under way proceeds. Nothing is assumed of clients (no
fairness of enqueues or cancels), of faults, or of changes of the limits; the job id's
commit (`Submit`) may never come.

In DesktopQueue no process starts of itself. `DesktopSpec` replaces the fairness of `Start` by
that of the user: the application shows its task stream again and again (`Subscribe`) and
something is generated again and again (`Generate`). Both are strong, because they are
possible only between other things the client does. `ServedUnlessDead` and `StoppingEnds` say
what is true under that assumption and no weaker one: a row does wait for the next client.

For the session actor weak fairness of the actor's task
and of its two helpers says that the event loop runs them, that the SDK returns from its
calls and that its stream ends; callers, exceptions and cancellations are not fair. In
SessionFanout the consumer of a stream goes on reading (`Take`). In ProjectView the event
loop runs what is ready, threads and requests end, the poll interval passes; clients, writers
and failures are not fair, and a load that fails need not be repeated. In ProjectFiles a thread that has a lock goes on, and one that
waits gets a lock that is free again and again (strong fairness: the system's lock queue
starves nobody); the scan repeats while somebody follows the project.

## The proofs

TLAPS proves for every number of rows, keys, lanes, sessions and workers, from the named
assumptions on the constants (`RowsAssumption`, `AttemptsAssumption`, `KeyAssumption`,
`LaneAssumption`, `WorkerAssumption`, `HostAssumption`, `VideoAssumption`,
`ConfigsAssumption`, `OutageAssumption`, `CommandAssumption` for any set of commands,
`FilesAssumption` for any threads, processes, scripts and titles, `MediaAssumption` and
`EventBounds` for any value of the bounds, `PageAssumption` that the pages are some of the
clients, `SessionAssumption` for any finite number of requests and any sessions,
`FanoutAssumption` that a buffer and a queue hold at least one message, and `BridgeAssumption`
that the cancel API of the plugin runs in the bridge, where no worker has its callback):

- **TaskTable_proofs**: `Typing`, `AtMostOneActive`, `DependencyFirst`, `Attribution`,
  `TerminalIsFinal`, `CancellingEndsCancelled`, `DeathCascades` and `Refinement` (the
  table implements TaskLifecycle). The inductive invariant is the conjunction of the
  type invariant, the three safety invariants and `PickedReady`: what a session selected
  for its claim has a dependency that is met. It is needed because the claim's `UPDATE`
  repeats the test of the status and not that of the dependency; it is preserved because
  a dependency, once succeeded, stays so. `OneActivePerKey` is inductive because no
  transaction but the guarded INSERT makes an inactive row active. The attribution
  invariant yields `NoRunningBelowRows`: below an active row nothing runs, so the branch of the
  cancel cascade that would turn running dependents to `cancelling` is dead code.
- **GenerationWorker_proofs**: `WorkerTyping`, `WorkerNeverOvercharges`,
  `WorkerOneClaimant`. Every transaction but the insert and the two requeues is *calm*: it
  puts no row into the queue and counts no attempt. `NeverOvercharged` is not inductive. The strengthening calls a
  worker a *claimant* of a row while it has it in hand or in a coroutine between creation
  and write, and says: one claimant per row; none for a row in the queue; a row in hand
  has no coroutine; the attempt of a row that is queued, in hand or about to start has
  not been paid for. The proof separates the steps that are *quiet* (no claim, no new
  coroutine, which is all but four) from the others, and calm transactions from the rest;
  a quiet calm step preserves the invariant by one lemma, the others have one lemma each.
  It does not use the lease at all: what keeps two lease owners from paying twice is the
  status in the database and that nothing but its claimant puts a running row back.
  `WorkerWithinCapacity` needs only that a row not yet inserted has no entry in a dict
  (`KnownRows`), which makes the counted sets finite, and that a step adds at most one entry,
  behind a test of the limit. `WorkerNoTwinWork` and `WorkerNoLostRow` have the hypothesis
  `OnlyCrashes`: no cancel calls, no stop, no stall, no dead loop, which is what
  `worker_takeover` instantiates. It is the truth about the code and not a convenience: a
  cancel ends a row that is still being executed, a stopping worker lets its lease run out
  while its coroutines go on, and a lease regained after a stall skips the scan (see
  [divergences](#divergences)). Under it the invariant (`Orderly`) is that only the owner of
  an unexpired lease has any work (`Steady`), and that once it has begun to scan every
  running row is in exactly one of its hands (`Entry`, `Exclusive`): its claim, a coroutine,
  a resume, or the list of orphans. With the index's rule that no key has two active rows
  (`OnePerKey`, which the requeues do not consult and do not need to) both follow.
  `WorkerImplementsLifecycle` and `DesktopImplementsLifecycle`: the whole queue, and not only
  its table, implements TaskLifecycle, with every fault. Each step makes at most one
  transaction (`Transaction`), and only a claim starts a row, so that what was started has a
  dependency that succeeded (`StartedInOrder`); the table's own argument does the rest.
- **GenerationWorker_proofs**, DesktopQueue: all steps but two are steps of GenerationWorker
  (`DesktopStep`), so typing and the payment invariant carry over (`DesktopNeverOvercharges`).
  `DesktopRunningAttended` and `DesktopAlwaysAttended` are about a worker that ends itself. As
  long as nothing failed (`outages = 0`) one process is up at a time and it is the child the
  bridge knows (`Alone`); it has the lease whenever it asks for it, because whoever had it
  before gave it up or is itself (`LeaseWell`), so it never counts the lease as lost and
  scans once (`LoopsWell`); a coroutine at work is in the pool, which a stop waits for (`DictsWell`); and
  every running row is in the child's hand or in a coroutine (`RowsHeld`). `idle` is not in the
  invariant: how old the statistics are does not matter, since the end waits for the pools.
  That a row *being stopped* is attended has the hypothesis `RoomKept`, every lane has room
  and no claim passes over a full pool (`RoomWell`). Without it the property is false, see
  [divergences](#divergences).
- **SessionActor_proofs**: `ActorTyping`, `ActorLosesAtMostOne`, `ActorIsMailbox`. The
  invariant says what the actor holds at each place (`Hands`), that a command is in one
  place only, in the queue once, and not replied to while it waits (`Places`), that what is
  sent and not done is the query with the turn (`OneTurn`), and that no command is *adrift*
  (neither done nor queued nor held) before something was raised and one at most after
  (`Accounted`). The actions fall into a few kinds (put everything down, turn to the next
  command, reply and go on, drain), each with a lemma. That a command is in one place only
  is needed for the mailbox: without it the turn could be given to a command with a reply.

- **ProjectFiles_proofs**: `FilesTyping`, `NothingLost`, `EditsWhereBound`, `SyncCurrent`. The
  inductive invariant is the typing, `NoLostUpdate` and, for every thread, that it is
  *sound*: at each place it has the locks that place needs and nobody else has them
  (`Placed`, `Holds`), and what it has read under a lock is still what the file holds
  (`Current`). Soundness is needed because a lost update shows only at the second write,
  when the reason for it, a read without the lock, is long past. Each action moves one thread;
  that the others stay sound is one lemma about what an action leaves alone (`StaysSound`),
  cited with the locks and files the action touches. A crash releases the locks of exactly
  the threads it forgets.

- **MediaExecution_proofs**: `MediaTyping`, `NoCallForgotten`, `SettledOnce`,
  `ResultIsOfTheJob`, `FileFollowsVersion`, `CurrentIsAVersion`. The invariant says what the
  coroutine's place tells of the row and of what it holds (`Placed`), that a call it opened is
  pending until it settles it (`Held`), and that a pending call of nobody is explained (a cancel,
  a crash, a row that failed without its provider being asked again) or found by the scan (`Explained`, stronger than the property: the scan finds only a *running* video
  row whose job is stored). For the media it says who may write when: from the download to the
  registration the file of an undisturbed row is its own (`Undisturbed`), and from then on the
  version holds the result and the file shows the version (`ResultThere`, `FileShown`).
  `SettledIsFinal` rests on `Held`: the `UPDATE` of `finish_call` has no guard, and what keeps
  it from a settled call is where the coroutine may be when it runs. That a deletion finds a
  new current version is a lemma about greatest elements of bounded sets of numbers.

- **ProjectView_proofs**: `ViewTyping`, `NothingMissed`, `WatchedChannels`,
  `PageShowsWhatItHeard`. The last message of a client that follows is its channel's snapshot
  (`LastIsSnapshot`), which each scan and batch preserves because it broadcasts what it
  stores, in the same step; that a client is subscribed to no other channel than the one it
  knows (`OnItsChannel`) makes this a statement about one channel. `Attended` needs `Tended`:
  channels are made in order, a cancelled watch task has somebody waiting for it, and whoever
  leaves leaves the channel empty. For the page, what it was told is shown, or answered and not
  yet shown, or being asked for, or to be asked for again (`PagesLoad`); a failed load takes this
  away until a change calls for another, which is what `missed` records.

- **SessionFanout_proofs**: `TypeCorrect`, `CriticalKept`, `StreamsImplementFeed`. Of a
  stream the invariant says that what is queued is in order and after what was had (`InOrder`), and that no critical message after that is missing while the stream is
  registered (`NoneMissing`): the eviction of a full queue takes a transient message, or the
  stream is cut (`RoomSound`, `CutOffSound`). From it a `Take` is a step of the feed
  (`TakeInOrder`). Of the buffer it says that once a critical message of the turn was dropped
  the buffer is full and at most its last place is transient (`BufferSound`), which is why
  `TransientsGoFirst` excepts the last place: a transient message that finds nothing but
  critical ones before it evicts one of them and not itself.

- **SessionManager_proofs**: `ManagerTyping`, `ManagerShowsTurns`, `ManagerLimit`,
  `ManagerSettles`, `ManagerLeaksNone`. `TurnShown` is inductive once it counts: an object
  that was not asked twice at once has one turn or one message to settle and never both
  (`Settle`). `WithinLimit` is proved by counting: a step admits or registers at most one
  request, which it takes from the admitted or finds room for. `SettledWhenQuiet` needs a
  reason for every status that reads running: a turn, a message, a request about to ask
  (`RunningObject`), for a row also a death not yet recorded (`RunningRow`). These rest on
  what relates a request, its object and its row (`Sound`): actors that are over stay so, a
  new session is known to nobody but its request until the SDK names it (`Creating`,
  `Unnamed`), an evicted one has a row (`RowsOfEvictions`), an object that was dropped while it
  was named has its request waiting for it (`Attended`) and leaves its session running only as
  recorded (`Dropping`), and what other requests use has been named (`Given`). `NoneLeaked` needs, of the sessions
  that no two objects met in: one object at most serves, it is the registered one
  (`OneServes`), nothing else of the session is evicted (`OneEvicted`), one request at most
  connects (`OneConnects`), and while it does, what served is on its way out (`Holder`).

The proofs corrected the models. The history variables by which some properties except known
divergences were too narrow, and TLC found the properties violated at once beyond the bounds
of the runs: `early` missed a second join of a page, `overlapped` a query that is refused on an
object at work, `collided` two requests that connect one session after `_evict_one` dropped
the lock one of them holds, and a cleanup was taken to be of what the registry has instead of
the object that was found dead.

What stays with TLC is everything under fairness (`Served`, `CancellingEnds`,
`ServedUnlessDead`, `StoppingEnds`, `Answered`, `CriticalReaches`, `CatchesUp`, `OpsEnd`,
`Heals`), which is outside the prover's reach, and `NeverStuck`, which is false. Every
invariant, action property and refinement of the passing runs is a theorem, three of them
under a hypothesis about faults or settings that the runs instantiate: `NoTwinWork`,
`NoLostRow` (`OnlyCrashes`) and `AlwaysAttended` (`RoomKept`).

## Divergences

Behaviour met while modelling that contradicts what a comment or docstring of the code says,
or that a reader of the code would not expect. The first has a run whose counterexample shows
it (`sessions_stuck`, `NeverStuck`) and an entry in `findings`; the others are part of the
models, which is why a property has the exception it has, or are outside them.

**A session that refuses every message.** The error of a dead actor is written to the
database by a task of its own (`session_manager.py:1924`). A retry of the message that reads
the row before that task has written takes the stale `running` to `get_or_connect`, the new
object begins as running without a turn, `send_message` refuses, and nothing ends a turn that
does not exist. Other ways leave a row running that nothing settles but a later message or
interruption, and `stale` records these: an eviction that finds a turn under way; a name that
comes while `_cleanup_on_error` waits for its disconnect, or just before it gives up
(`session_manager.py:2049`, `3399`), for a session whose caller was told that it failed; a name
that the inbox brings when the actor is over and left no result; and an actor that dies in a turn
between row and key, whose error is written under the temporary id (`1925`).

Task table and worker:

- A requeue between `cancel_task`'s SELECT and its UPDATE makes the cancel vanish.
- A cancel of a row that is claimed and not yet routed, whose pool turns out full, leaves the
  row `cancelling`, and its key blocked, until a restart. This is what `RoomKept` excludes: it
  needs a lane without room, or a row without a `provider_id`, which a claim takes however full
  its pool is.
- A cancel that strikes a resumed coroutine before its first step leaves the row `cancelling`
  and a dead entry in `video_pending` that takes a slot.
- A cancel decided on a status read before a claim kills dependents of an executing row.
- A stopping worker renews no lease while it waits for its coroutines.
- The key of a rejected INSERT may be free when `enqueue` looks for the row in its way
  (`task_repo.py:137`); `enqueue` raises.
- A lease lost for less than three TTLs is regained without an orphan scan
  (`generation_worker.py:411`): if another owner claimed and died in between, its rows stay
  `running` until a restart. With `"slow"` among the faults `NoLostRow` does not hold, and the
  runs that check it leave stalls out.
- Where a transaction of the worker itself fails (`generation_worker.py:640`, `737`, `896`), or
  a resumed task's lane is switched off after the scan (`855`), a row stays running until the
  next scan; the `provider_job_id` of an earlier attempt survives a retry
  (`task_repo.py:821`). No property is about these.

Desktop:

- The lease of a dead worker is trusted until it runs out, so a tool's row may be enqueued with
  no worker at all; it waits for the next client, and its own waiter gives up after 20 s.
- A dead main loop keeps its process alive while rows are queued, and so the bridge from
  starting another. This is the exception of `ServedUnlessDead`.
- Dependents of failed rows, enqueued after the failure, are never claimable
  (`generation_queue_client.py:476`) and keep the child from ever being idle. A client that gives
  up waiting leaves its row active (`140`): a batch reports failed what later succeeds.
- The bridge's polling of a project shares one `previous` snapshot among its clients.

Media:

- A call may stay pending for good without a cancel and without a crash of its own coroutine,
  although comments say that the ApiCall is finalized lest it be pending for ever
  (`media_generator.py:967`, `978`): a resume that raises before it asks the provider
  (`resume_executor.py:59`-`101`, `media_generator.py:932`-`945`) fails its row
  (`generation_worker.py:697`) outside the `try` that tells the ledger; so do a provider that
  cannot resume (`generation_worker.py:771`) and a lane without room for videos (`840`). These
  are the third reason of `PendingExplained`.
- A crash after the ledger was told of a failure and before the row was: the resume fetches the
  video and the ledger keeps `failed` and no cost (`media_generator.py:993`).
- The lock of `versions.json` is one per process (`version_manager.py:67`) and the file is
  written in place (`158`): two processes may lose a version of each other's, a crash may tear
  the file. The model has one process, as the server deployment.

Sessions:

- Two objects for one session: a request that finds no object while its session is being
  evicted, or named, makes another; `_evict_one` then drops registry entry and lock by id, and
  an actor is left that nobody can reach (the exception of `NoneLeaked`). The lock is dropped
  even while a request holds it, so that the next request takes a new one and both connect,
  although `session_manager.py:2186` counts on the lock to prevent that.
- The actor of a failed `send_new_session` runs outside the registry, uncounted by the limit, for
  as long as it takes it to serve the disconnect, on which there is no timeout
  (`session_manager.py:2049`). `NoneLeaked` says that its request is still there.
- A row whose creation fails (`2139`) is not created again: the session goes on under its
  temporary id until its request gives up.
- A request that waited for the start of an object that was evicted meanwhile is given the dead
  object (`2251`-`2266`); its query is refused, and the session shown as in error (`219`).
- Overlapping sends leave the status `completed` while the second turn runs; the tail of
  `_finalize_turn` may hit the next turn.
- `send_disconnect` sets `closed`, so that the branch that persists an interruption when the
  status is `running` is never taken.
- `client.interrupt()` raising on the way to a disconnect leaves the disconnect in no queue; who
  awaits it without a timeout (the cleanup of a failed `send_new_session`) hangs.
  `AtMostOneLost` bounds the damage to one command per actor.

- `send_or_create` empties the snapshot cache (`service.py:259`) before the awaits of
  `send_message`, while the status still reads `completed`. A `get_snapshot` in between, or
  one under way, stores the old conversation again (`214`, "Cache snapshots for terminal
  sessions (transcript won't change)"); once the turn has ended it is served without the last
  round, until the next message.
- `stream_events` reads the transcript after it has subscribed and applies live messages
  without comparing them with it, so that a message said and stored in between is shown twice.
  `get_snapshot` reads the transcript and, an await later, the buffer: what a finalize prunes
  in between is in neither. Snapshots are not in the model.

Project events and page:

- A client that joins a channel while its last subscriber waits for the watch task to end is
  left on a channel nobody scans, or keeps one scanned that is not registered (the exception
  of `Attended`).
- A first scan that fails leaves the fingerprint empty, and the first success is silent.
- A subscriber dropped for a full queue keeps an idle stream.
- A batch replaces the snapshot by what it finds, so that changes it did not list are not
  listed by anybody; the fingerprint still tells the page to load.
- A page whose first load was read before the change that the stream's first snapshot already
  has, or is answered after a newer load, stays stale until the next change (the exception of
  `UpToDate` and `CatchesUp`).
- A load that fails is not repeated, and the fingerprint that called for it counts as seen:
  a failure of `refreshProject` leads only to the load that was called for meanwhile, which its
  comment intends (`useProjectEventsSSE.ts:179`), and a first load that fails empties the page,
  even if a later one was shown (`router.tsx:65`). Either way
  the page stays behind until the next change (`missed`).
- Removed episodes, scripts and assets are not listed by a diff.
- Task polls of the frontend are not numbered: a late answer can take statuses back.

Project files:

- Two scripts that say the same episode make every scan rewrite `project.json` and override a
  PATCH that binds the episode to another script; a title that was PATCHed is put back by the
  next scan. A script whose file name and number disagree is never synced
  (`project_events.py:441`).
- The generator's `save_script` replaces what concurrent tasks wrote back into the script;
  `NoLostUpdate` counts edits since a script was last replaced.
- The agent's own file tools write scripts without the locks, and `save_project` is for creation
  only; neither is in the model. `normalize_script(save=True)` has no callers.

## What is left out

PostgreSQL's isolation, the event log and cursors, the columns no decision depends on,
failures of the database inside a coroutine or in the ledger, the semaphore of the resume
dispatcher (it admits as many as the limit was at the scan, which the promotion's own test
bounds too), `requeue_running` in the worker's module (nothing calls it; TaskTable has it),
what `batch_enqueue_and_wait` makes of its rows' answers, what each provider's client sends,
prompts, script generation and the other text processing (about which the properties here
have nothing to say), closing a session on request (`close_session`, whose only caller deletes the row afterwards,
`service.py:156`), evictions and timers of an object that still has its temporary id, a
death between the two writes that make a session's row, changes
of a project that undo each other between two scans (versions of `files` only grow, so that the
fingerprint never repeats, `project_events.py:338`), a page that goes from one project to another,
and the components marked `not_modelled` in `PROJECT.json` with their
reasons. Large parts of the repository by lines are of that kind: templates, prompt builders,
price tables, archive I/O, provider clients and the user interface. The models cover the parts
whose correctness depends on order, concurrency and failure.

## Plan

1. (done) TaskRows, TaskTable, TaskLifecycle with proofs; GenerationWorker with proofs of
   typing and of `NeverOvercharged`.
2. (done) SessionMailbox, SessionActor, with proofs of its safety and of the refinement.
3. (done) UsageLedger, VersionManager, MediaExecution.
4. (done) SessionManager; MessageFeed and SessionFanout.
5. (done) ProjectEvents, ProjectView; ProjectFiles with its proofs.
6. (done) DesktopQueue.
7. (done) Proofs of `WithinCapacity`, `NoTwinWork` and `NoLostRow`; MediaExecution_proofs,
   ProjectView_proofs, SessionManager_proofs.
8. (done) Proofs: worker and desktop refine TaskLifecycle; SessionFanout implements
   MessageFeed, and `TransientsGoFirst`; `AlwaysAttended`.
9. The task event log with its cursor; `batch_enqueue_and_wait`; two processes at
   `versions.json`.
10. Pure algorithms as functions: storyboard grouping, the stream projection.
