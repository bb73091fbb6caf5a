---------------------------- MODULE DesktopQueue ----------------------------
(***************************************************************************)
(* The queue in the desktop plugin: the bridge process serves the user's    *)
(* commands and the agent's tools (the clients), and keeps one child        *)
(* process for the worker of GenerationWorker.  The child ends itself when  *)
(* the queue has been empty for a while; the next client that finds work,   *)
(* or no lease, starts another.  A bridge that dies leaves its child        *)
(* behind, and the next one knows nothing of it.                            *)
(*                                                                         *)
(* wait_for_task only reads: it is left out, as is what its caller makes of  *)
(* the answer.  A child that fails to start is left out.                    *)
(***************************************************************************)
EXTENDS GenerationWorker

CONSTANT Client  \* commands and tools under way in the bridge

\* The cancel API runs in the bridge, whose queue has no worker's callback.
ASSUME BridgeAssumption == \A s \in Session : Host[s] = NoWorker

VARIABLES
  child,   \* _worker_process
  idle,    \* _wait_until_idle of a child has seen its last empty queue
  client   \* what a client is about to do, and for which key

bridge == <<child, idle, client>>
desktopVars == <<vars, bridge>>

Resting == [at |-> "resting", key |-> NoKey]

\* The types of the bridge's variables.
BridgeTypeOK ==
  /\ child \in Worker \cup {NoWorker}
  /\ idle \in [Worker -> BOOLEAN]
  /\ client \in [Client -> [at : {"resting", "ensure", "start", "starting", "enqueue"},
                            key : Key \cup {NoKey}]]

DesktopInit ==
  /\ Init
  /\ child = NoWorker
  /\ idle = [w \in Worker |-> FALSE]
  /\ client = [c \in Client |-> Resting]

ClientAt(c, place) == client[c].at = place
Goes(c, place) == client' = [client EXCEPT ![c].at = place]
Rests(c) == client' = [client EXCEPT ![c] = Resting]

-----------------------------------------------------------------------------
(* Starting the child.                                                     *)

\* Mutant: poll() is not asked.
RunningUnpolled == child # NoWorker

\* _worker_process is there and poll() says that it has not ended.
Running == child # NoWorker /\ proc[child] # "down"

\* _ensure_worker_process.  Processes are all alike; Worker bounds how many there are.
Ensure ==
  IF Running
  THEN UNCHANGED <<vars, child, idle>>
  ELSE /\ \E w \in Worker : proc[w] = "down"
       /\ LET w == CHOOSE w \in Worker : proc[w] = "down"
          IN  Start(w) /\ child' = w /\ UNCHANGED idle

\* is_worker_online: the row of the lease, whoever is or was its owner.
Online == ~ lease.expired

-----------------------------------------------------------------------------
(* The clients.                                                            *)

\* enqueue: a new row, or the active one there is of this key.  (When the bound on
\* rows is reached the request counts for nothing.)
EnqueueTask(k) ==
  \/ (ActiveWith(k) # {} \/ Inserted = Row) /\ UNCHANGED vars
  \/ \E d \in Inserted \cup {NoRow} : Enqueue(k, d)

\* A command that generates: the route enqueues, and the bridge ensures the child.
Generate(c, k) ==
  /\ ClientAt(c, "resting")
  /\ EnqueueTask(k)
  /\ Goes(c, "ensure")
  /\ UNCHANGED <<child, idle>>

\* A snapshot of the task stream that shows work, not counting what is cancelling.
Subscribe(c) ==
  /\ ClientAt(c, "resting")
  /\ \E t \in Row : status[t] \in {"queued", "running"}
  /\ Goes(c, "ensure")
  /\ UNCHANGED <<vars, child, idle>>

EnsureChild(c) == ClientAt(c, "ensure") /\ Ensure /\ Rests(c)

\* A tool of the agent, enqueue_task_only: it trusts a lease that has not run out.
AskOnline(c, k) ==
  /\ ClientAt(c, "resting")
  /\ client' = [client EXCEPT ![c] = [at |-> IF Online THEN "enqueue" ELSE "start", key |-> k]]
  /\ UNCHANGED <<vars, child, idle>>

StartChild(c) == ClientAt(c, "start") /\ Ensure /\ Goes(c, "starting")

\* Within its grace it finds a worker, or it raises WorkerOfflineError.
Started(c) ==
  /\ ClientAt(c, "starting")
  /\ IF Online THEN Goes(c, "enqueue") ELSE Rests(c)
  /\ UNCHANGED <<vars, child, idle>>

EnqueueOnline(c) ==
  /\ ClientAt(c, "enqueue")
  /\ EnqueueTask(client[c].key)
  /\ Rests(c)
  /\ UNCHANGED <<child, idle>>

-----------------------------------------------------------------------------
(* The child: arcreel_worker_process.main.                                 *)

\* The statistics show nothing queued or running, and have not for the idle
\* timeout.  That is longer than a lease: the loop has its lease and its scan
\* behind it, or another worker has the lease, or it is dead.
SeesIdle(w) ==
  /\ proc[w] = "up" /\ ~ idle[w]
  /\ \A t \in Row : status[t] \notin {"queued", "running"}
  /\ scanned[w] \/ pc[w] = "dead" \/ lease.owner \in Worker \ {w}
  /\ idle' = [idle EXCEPT ![w] = TRUE]
  /\ UNCHANGED <<vars, child, client>>

\* Mutant: main returns without worker.stop().
IdleExitAtOnce(w) ==
  /\ proc[w] = "up" /\ idle[w]
  /\ Forget(w)
  /\ idle' = [idle EXCEPT ![w] = FALSE]
  /\ UNCHANGED <<lease, outages, child, client>>

\* worker.stop(): the loop, if it lives, winds down; awaiting a dead one raises.
IdleExit(w) ==
  /\ proc[w] = "up" /\ idle[w]
  /\ IF pc[w] = "dead"
     THEN Forget(w) /\ UNCHANGED <<lease, outages>>
     ELSE /\ proc' = [proc EXCEPT ![w] = "stopping"]
          /\ UNCHANGED <<rows, pc, cap, owns, scanned, lost, hand, work, snap, lease, job, api,
                         starts, outages>>
  /\ idle' = [idle EXCEPT ![w] = FALSE]
  /\ UNCHANGED <<child, client>>

\* The worker's own steps; what the process knew is gone with it.  (Stop, among the
\* outages, is a read of the statistics that raises.)
Same ==
  /\ idle' = [w \in Worker |-> idle[w] /\ proc'[w] # "down"]
  /\ UNCHANGED <<child, client>>

\* The bridge dies, and with it its clients and calls of the cancel API.
BridgeDies ==
  /\ Fault("bridge")
  /\ child' = NoWorker
  /\ client' = [c \in Client |-> Resting]
  /\ api' = [s \in Session |-> Idle]
  /\ UNCHANGED <<rows, loop, work, snap, lease, job, starts, idle>>

-----------------------------------------------------------------------------
WorkerLoop(w) == Loop(w) /\ Same
WorkerCoroutine(w, t) == Coroutine(w, t) /\ Same
CancelStep(s) == (CancelDispatch(s) \/ Signal(s)) /\ Same
LeaseRunsOut == lease.owner = NoWorker /\ Expire /\ Same

ClientStep(c) == EnsureChild(c) \/ StartChild(c) \/ Started(c) \/ EnqueueOnline(c)

DesktopNext ==
  \/ \E c \in Client, k \in Key : Generate(c, k) \/ AskOnline(c, k)
  \/ \E c \in Client : Subscribe(c) \/ ClientStep(c)
  \/ \E s \in Session, t \in Row : CancelLoad(s, t) /\ Same
  \/ \E s \in Session : CancelStep(s)
  \/ \E w \in Worker : SeesIdle(w) \/ IdleExit(w) \/ WorkerLoop(w)
  \/ \E w \in Worker, t \in Row : WorkerCoroutine(w, t) \/ (Submit(w, t) /\ Same)
  \/ Outage /\ Same
  \/ BridgeDies

\* As in GenerationWorker, but no process starts of itself: the user comes back
\* to the application, and generates something, again and again.
DesktopSpec ==
  /\ DesktopInit /\ [][DesktopNext]_desktopVars
  /\ \A w \in Worker : WF_desktopVars(WorkerLoop(w))
  /\ \A w \in Worker, t \in Row : WF_desktopVars(WorkerCoroutine(w, t))
  /\ \A s \in Session : WF_desktopVars(CancelStep(s))
  /\ \A c \in Client : WF_desktopVars(ClientStep(c))
  /\ WF_desktopVars(LeaseRunsOut)
  /\ SF_desktopVars(\E c \in Client : Subscribe(c))
  /\ SF_desktopVars(\E c \in Client, k \in Key : Generate(c, k))

-----------------------------------------------------------------------------
(* Properties.                                                             *)

\* Without an outage no row is running, or being stopped, with nobody at work on
\* it, though processes end and start while rows come: the child's decision to
\* end is made on statistics that are old when it acts on them.
AlwaysAttended ==
  outages = 0 => \A t \in Row : status[t] \in {"running", "cancelling"} => Attended(t)

\* Whatever ended the worker that should have served it (idleness, a crash, with
\* a lease that still looked alive; the bridge and the knowledge of the child), a
\* row whose dependency is met does not stay: unless the child's loop is dead,
\* which keeps the process, and so the bridge from starting another.
ServedUnlessDead ==
  \A t \in Row :
    []<>(status[t] \in Active /\ DependencyMet(t) => child \in Worker /\ pc[child] = "dead")

\* In the desktop plugin, where no signal reaches a coroutine and nobody starts a
\* worker for the sake of a cancelling row, a row asked to stop does so.
StoppingEnds ==
  \A t \in Row : []<>(status[t] = "cancelling" => child \in Worker /\ pc[child] = "dead")
=============================================================================
