--------------------------- MODULE ProjectEvents ---------------------------
(***************************************************************************)
(* How the clients of a project learn that its files have changed           *)
(* (server/services/project_events.py): a channel per project, a task that  *)
(* scans the files again and again and reports what differs from the last   *)
(* snapshot, batches that writers announce themselves, and a queue per      *)
(* subscriber.  The contents of a project are abstracted to a version number *)
(* of what _diff_snapshots lists.                                           *)
(***************************************************************************)
EXTENDS Integers, Sequences, FiniteSets

CONSTANTS Client,        \* the subscribers, one connection at a time each
          MaxChannels,   \* bound: channel objects ever made
          MaxJoins,      \* bound: subscriptions ever made
          MaxWrites,     \* bound: writes to the files that a diff lists
          MaxBatches,    \* bound: batches ever announced
          MaxFailures,   \* bound: scans and rebuilds that raise
          QueueSize      \* asyncio.Queue(maxsize=100)

ASSUME EventBounds ==
  /\ {MaxChannels, QueueSize} \subseteq Nat \ {0}
  /\ {MaxJoins, MaxWrites, MaxBatches, MaxFailures} \subseteq Nat

VARIABLES
  files,     \* the contents of project.json and the scripts
  current,   \* _channels[project_name], 0 if there is none
  subs,      \* per channel object: subscribers
  snap,      \* snapshot (and fingerprint)
  ready,     \* ready_event
  watch,     \* the watch task: "none", "reading", "waiting", "cut", "over"
  read,      \* what a scan's thread has read
  rebuilds,  \* the batch tasks: the channel and what the thread has read
  at,        \* per client: "out", "joining", "freed", "in", "leaving", "popping"
  on,        \* the channel object it subscribed to or is leaving
  greeting,  \* the snapshot event it was not sent yet
  queue, told, \* its queue, the fingerprint it heard last
  made, joins, batches, failures, \* counters of the bounds
  crossed    \* history: a channel was left or joined under somebody's feet

service == <<current, subs, snap, ready, watch, read, rebuilds>>
clients == <<at, on, greeting, queue, told>>
events == <<files, service, clients, made, joins, batches, failures, crossed>>

Channel == 1..MaxChannels
Contents == 0..MaxWrites      \* what _build_snapshot makes of the files
NoContents == -1              \* None, fingerprint ""
Seen == Contents \cup {NoContents}
NotRead == -2                 \* nothing yet, of a thread or an event

EventsInit ==
  /\ files = 0
  /\ current = 0
  /\ subs = [k \in Channel |-> {}]
  /\ snap = [k \in Channel |-> NoContents]
  /\ ready = [k \in Channel |-> FALSE]
  /\ watch = [k \in Channel |-> "none"]
  /\ read = [k \in Channel |-> NotRead]
  /\ rebuilds = {}
  /\ at = [c \in Client |-> "out"]
  /\ on = [c \in Client |-> 0]
  /\ greeting = [c \in Client |-> NotRead]
  /\ queue = [c \in Client |-> <<>>]
  /\ told = [c \in Client |-> NoContents]
  /\ made = 0 /\ joins = 0 /\ batches = 0 /\ failures = 0
  /\ crossed = FALSE

-----------------------------------------------------------------------------
(* Writers.  A hint only shortens the wait for the next scan, which comes   *)
(* anyway; a batch comes some time after its writes.                        *)

Write ==
  /\ files < MaxWrites
  /\ files' = files + 1
  /\ UNCHANGED <<service, clients, made, joins, batches, failures, crossed>>

-----------------------------------------------------------------------------
(* Broadcast.                                                              *)

Full(k) == {c \in subs[k] : Len(queue[c]) >= QueueSize}

\* Mutant: a full queue loses the message and keeps its place.
BroadcastLossy(k, fingerprint) ==
  /\ queue' = [c \in Client |-> IF c \in subs[k] \ Full(k) THEN Append(queue[c], fingerprint)
                                                          ELSE queue[c]]
  /\ UNCHANGED subs

\* A subscriber whose queue is full is dropped, without a word to it.
Broadcast(k, fingerprint) ==
  /\ queue' = [c \in Client |-> IF c \in subs[k] \ Full(k) THEN Append(queue[c], fingerprint)
                                                          ELSE queue[c]]
  /\ subs' = [subs EXCEPT ![k] = @ \ Full(k)]

\* ready_event.set() releases whoever waits for the first scan.
Release(k) ==
  /\ ready' = [ready EXCEPT ![k] = TRUE]
  /\ at' = [c \in Client |-> IF at[c] = "joining" /\ on[c] = k THEN "freed" ELSE at[c]]

-----------------------------------------------------------------------------
(* The watch task.                                                         *)

\* The first thread of a task reads, asyncio.to_thread(self._rebuild_snapshot);
\* that of a later round is part of the wait before it.
ReadFiles(k) ==
  /\ watch[k] = "reading" /\ read[k] = NotRead
  /\ read' = [read EXCEPT ![k] = files]
  /\ UNCHANGED <<files, current, subs, snap, ready, watch, rebuilds, clients, made,
                 joins, batches, failures, crossed>>

ScanDone(k) ==
  /\ read' = [read EXCEPT ![k] = NotRead]
  /\ watch' = [watch EXCEPT ![k] = "waiting"]
  /\ Release(k)

ApplyScan(k) ==
  /\ watch[k] = "reading" /\ read[k] # NotRead
  /\ snap' = [snap EXCEPT ![k] = read[k]]
  /\ IF snap[k] \notin {NoContents, read[k]}
     THEN Broadcast(k, read[k])
     ELSE UNCHANGED <<queue, subs>>
  /\ ScanDone(k)
  /\ UNCHANGED <<files, current, rebuilds, on, greeting, told, made, joins, batches, failures, crossed>>

ScanFails(k) ==
  /\ watch[k] = "reading"
  /\ failures < MaxFailures
  /\ failures' = failures + 1
  /\ ScanDone(k)
  /\ UNCHANGED <<files, current, subs, snap, rebuilds, on, greeting, queue, told, made,
                 joins, batches, crossed>>

\* The poll interval has passed or scan_now is set; then the loop's condition.
WakeUp(k) ==
  /\ watch[k] = "waiting"
  /\ IF subs[k] = {}
     THEN watch' = [watch EXCEPT ![k] = "over"] /\ UNCHANGED read
     ELSE watch' = [watch EXCEPT ![k] = "reading"] /\ read' = [read EXCEPT ![k] = files]
  /\ UNCHANGED <<files, current, subs, snap, ready, rebuilds, clients, made, joins, batches,
                 failures, crossed>>

\* A cancelled task comes to its end, whatever its thread has read.
WatchEnds(k) ==
  /\ watch[k] = "cut"
  /\ watch' = [watch EXCEPT ![k] = "over"]
  /\ read' = [read EXCEPT ![k] = NotRead]
  /\ ready' = [ready EXCEPT ![k] = TRUE]
  /\ at' = [c \in Client |-> CASE at[c] = "joining" /\ on[c] = k -> "freed"
                              [] at[c] = "leaving" /\ on[c] = k -> "popping"
                              [] OTHER -> at[c]]
  /\ UNCHANGED <<files, current, subs, snap, rebuilds, on, greeting, queue, told, made,
                 joins, batches, failures, crossed>>

-----------------------------------------------------------------------------
(* Batches.  Each has a task of its own, so that its thread and the one of   *)
(* the scan may read in one order and be applied in the other.              *)

\* _apply_emitted_batch and the thread; ignored where there is no channel.
ApplyBatch ==
  /\ current # 0
  /\ batches < MaxBatches
  /\ batches' = batches + 1
  /\ rebuilds' = rebuilds \cup {[batch |-> batches', on |-> current, saw |-> files]}
  /\ UNCHANGED <<files, current, subs, snap, ready, watch, read, clients, made, joins, failures,
                 crossed>>

\* The snapshot is replaced without a diff: what else has changed is not listed.
RebuildDone(b) ==
  /\ rebuilds' = rebuilds \ {b}
  /\ snap' = [snap EXCEPT ![b.on] = b.saw]
  /\ Broadcast(b.on, b.saw)
  /\ UNCHANGED <<files, current, ready, watch, read, at, on, greeting, told, made, joins, batches,
                 failures, crossed>>

RebuildFails(b) ==
  /\ failures < MaxFailures
  /\ failures' = failures + 1
  /\ rebuilds' = rebuilds \ {b}
  /\ UNCHANGED <<files, current, subs, snap, ready, watch, read, clients, made,
                 joins, batches, crossed>>

-----------------------------------------------------------------------------
(* Subscribers.                                                            *)

Leavers(k) == {c \in Client : at[c] \in {"leaving", "popping"} /\ on[c] = k}

\* _subscribe up to the wait for the first scan.
Subscribe(c) ==
  /\ at[c] = "out"
  /\ \A k \in Channel : c \notin subs[k]        \* its queue is a new one
  /\ joins < MaxJoins
  /\ current # 0 \/ made < MaxChannels
  /\ joins' = joins + 1
  /\ LET k == IF current = 0 THEN made + 1 ELSE current
         start == watch[k] \in {"none", "over"}
     IN  /\ current' = k
         /\ made' = IF current = 0 THEN made + 1 ELSE made
         /\ subs' = [subs EXCEPT ![k] = @ \cup {c}]
         /\ watch' = [watch EXCEPT ![k] = IF start THEN "reading" ELSE @]
         /\ ready' = [ready EXCEPT ![k] = @ /\ ~start]
         /\ on' = [on EXCEPT ![c] = k]
         /\ queue' = [queue EXCEPT ![c] = <<>>]
         /\ IF ready[k] /\ ~start
            THEN at' = [at EXCEPT ![c] = "in"] /\ greeting' = [greeting EXCEPT ![c] = snap[k]]
            ELSE at' = [at EXCEPT ![c] = "joining"] /\ UNCHANGED greeting
         /\ crossed' = (crossed \/ Leavers(k) # {})
  /\ UNCHANGED <<files, snap, read, rebuilds, told, batches, failures>>

\* The wait is over: it gets the fingerprint there is now.
Subscribed(c) ==
  /\ at[c] = "freed"
  /\ at' = [at EXCEPT ![c] = "in"]
  /\ greeting' = [greeting EXCEPT ![c] = snap[on[c]]]
  /\ UNCHANGED <<files, service, on, queue, told, made, joins, batches, failures, crossed>>

\* What the stream sends: the snapshot, then what is in the queue.
Snapshot(c) ==
  /\ at[c] = "in" /\ greeting[c] # NotRead
  /\ told' = [told EXCEPT ![c] = greeting[c]]
  /\ greeting' = [greeting EXCEPT ![c] = NotRead]
  /\ UNCHANGED <<files, service, at, on, queue, made, joins, batches, failures, crossed>>

Take(c) ==
  /\ at[c] = "in" /\ greeting[c] = NotRead /\ queue[c] # <<>>
  /\ told' = [told EXCEPT ![c] = Head(queue[c])]
  /\ queue' = [queue EXCEPT ![c] = Tail(@)]
  /\ UNCHANGED <<files, service, at, on, greeting, made, joins, batches, failures, crossed>>

\* _channels.pop(project_name), whichever channel that is by now.
Pop(c) ==
  /\ current' = 0
  /\ crossed' = (crossed \/ current \notin {0, on[c]})

Cancelled(k) == [watch EXCEPT ![k] = IF @ \in {"reading", "waiting"} THEN "cut" ELSE @]

\* Mutant: only the stream's exit cleans up, which a waiting client does not reach.
GiveUpUnseen(c) ==
  /\ at[c] \in {"joining", "freed"}
  /\ at' = [at EXCEPT ![c] = "out"]
  /\ on' = [on EXCEPT ![c] = 0]
  /\ UNCHANGED <<files, service, greeting, queue, told, made, joins, batches, failures, crossed>>

\* The client goes away while it waits for the first scan: cleaned up at once.
GiveUp(c) ==
  /\ at[c] \in {"joining", "freed"}
  /\ at' = [at EXCEPT ![c] = "out"]
  /\ queue' = [queue EXCEPT ![c] = <<>>]
  /\ subs' = [subs EXCEPT ![on[c]] = @ \ {c}]
  /\ on' = [on EXCEPT ![c] = 0]
  /\ IF subs'[on[c]] = {}
     THEN /\ watch' = Cancelled(on[c])
          /\ Pop(c)
     ELSE UNCHANGED <<watch, current, crossed>>
  /\ UNCHANGED <<files, snap, ready, read, rebuilds, greeting, told, made, joins,
                 batches, failures>>

\* _unsubscribe: the channel is looked up by the project's name ...
Disconnect(c) ==
  /\ at[c] = "in"
  /\ queue' = [queue EXCEPT ![c] = <<>>]
  /\ greeting' = [greeting EXCEPT ![c] = NotRead]
  /\ subs' = [k \in Channel |-> IF k = current THEN subs[k] \ {c} ELSE subs[k]]
  /\ IF current # 0 /\ subs'[current] = {}
     THEN /\ at' = [at EXCEPT ![c] = IF watch[current] = "over" THEN "popping" ELSE "leaving"]
          /\ on' = [on EXCEPT ![c] = current]
          /\ watch' = Cancelled(current)
     ELSE /\ at' = [at EXCEPT ![c] = "out"]
          /\ on' = [on EXCEPT ![c] = 0]
          /\ UNCHANGED watch
  /\ UNCHANGED <<files, current, snap, ready, read, rebuilds, told, made, joins, batches,
                 failures, crossed>>

\* ... and popped by it when its task has ended.
Left(c) ==
  /\ at[c] = "popping"
  /\ at' = [at EXCEPT ![c] = "out"]
  /\ on' = [on EXCEPT ![c] = 0]
  /\ Pop(c)
  /\ UNCHANGED <<files, subs, snap, ready, watch, read, rebuilds, greeting, queue, told, made,
                 joins, batches, failures>>
=============================================================================
