---------------------------- MODULE SessionActor ----------------------------
(***************************************************************************)
(* SessionActor: one asyncio task that owns an SDK client, and a queue of  *)
(* commands it is sent.  A place of the task (at) is a place where it      *)
(* awaits; while it drives a query two helper tasks run beside it, one     *)
(* that receives the next message and one that takes the next command out  *)
(* of the queue.  A message that is not the last one changes nothing here. *)
(* The SDK client is external: each call of it succeeds or raises.         *)
(***************************************************************************)
EXTENDS Sequences, FiniteSets

CONSTANTS
  Query, Interrupt, Disconnect,  \* the commands, by type
  NoCommand,
  Faults  \* which calls may raise: "connect", "query", "interrupt", "recv"; "cancel"

Command == Query \cup Interrupt \cup Disconnect

ASSUME CommandAssumption ==
  /\ NoCommand \notin Command
  /\ Query \cap Interrupt = {} /\ Query \cap Disconnect = {} /\ Interrupt \cap Disconnect = {}

VARIABLES
  at,       \* where the actor's task is
  queue,    \* _cmd_queue
  current,  \* the query whose turn it is
  taken,    \* the command the cmd_task took out of the queue
  pending,  \* pending_query
  stream,   \* the msg_task: "open" until the stream ended or raised
  fatal,    \* what _fatal is, "none" as long as nothing was raised
  posted,   \* the commands a caller sent
  sent,     \* those whose sent is set
  done,     \* those whose done is set
  refused   \* those whose error is set

turn == <<current, taken, pending, stream>>
replies == <<sent, done, refused>>
vars == <<at, queue, turn, fatal, posted, replies>>

Kinds == {"connect", "query", "interrupt", "recv", "cancel"}

TypeOK ==
  /\ at \in {"connect", "get", "query", "wait", "interrupt", "part", "leave", "over"}
  /\ queue \in Seq(Command)
  /\ current \in Query \cup {NoCommand}
  /\ taken \in Command \cup {NoCommand}
  /\ pending \in Query \cup {NoCommand}
  /\ stream \in {"open", "ended", "raised"}
  /\ fatal \in Kinds \cup {"none"}
  /\ posted \subseteq Command
  /\ sent \subseteq posted
  /\ done \subseteq sent
  /\ refused \subseteq done

Init ==
  /\ at = "connect"
  /\ queue = <<>>
  /\ current = NoCommand /\ taken = NoCommand /\ pending = NoCommand
  /\ stream = "open"
  /\ fatal = "none"
  /\ posted = {} /\ sent = {} /\ done = {} /\ refused = {}

Some(c) == {c} \ {NoCommand}
Queued == {queue[i] : i \in DOMAIN queue}

\* complete(): answered without an error, refused with one.
Complete(answered, rejected) ==
  /\ sent' = sent \cup answered \cup rejected
  /\ done' = done \cup answered \cup rejected
  /\ refused' = refused \cup rejected

NoTurn == current' = NoCommand /\ taken' = NoCommand /\ pending' = NoCommand /\ stream' = "open"

-----------------------------------------------------------------------------
(* Callers.                                                                *)

\* enqueue
Post(c) ==
  /\ c \notin posted
  /\ posted' = posted \cup {c}
  /\ IF at = "over" THEN Complete({}, {c}) /\ UNCHANGED queue
     ELSE queue' = Append(queue, c) /\ UNCHANGED replies
  /\ UNCHANGED <<at, turn, fatal>>

-----------------------------------------------------------------------------
(* _run and _command_loop.                                                 *)

\* An exception leaves the loop: the client's context is exited.
Raise(kind, answered, rejected) ==
  /\ kind \in Faults
  /\ fatal' = kind
  /\ at' = "leave"
  /\ NoTurn
  /\ Complete(answered, rejected)

Connect ==
  /\ at = "connect"
  /\ \/ at' = "get" /\ UNCHANGED <<queue, turn, fatal, replies>>
     \/ /\ "connect" \in Faults
        /\ fatal' = "connect"
        /\ at' = "over"
        /\ queue' = <<>>
        /\ Complete({}, Queued)
        /\ UNCHANGED turn
  /\ UNCHANGED posted

\* The loop's treatment of a command, up to its next await; others are answered
\* in the same breath.
Handle(c, answered) ==
  \/ /\ c \in Disconnect
     /\ at' = "leave" /\ NoTurn /\ Complete(answered \cup {c}, {})
  \/ /\ c \in Interrupt
     /\ at' = "get" /\ NoTurn /\ Complete(answered \cup {c}, {})
  \/ /\ c \in Query
     /\ at' = "query"
     /\ current' = c /\ taken' = NoCommand /\ pending' = NoCommand /\ stream' = "open"
     /\ sent' = sent /\ done' = done \cup answered /\ refused' = refused

Get ==
  /\ at = "get"
  /\ queue # <<>>
  /\ queue' = Tail(queue)
  /\ Handle(Head(queue), {})
  /\ UNCHANGED <<fatal, posted>>

\* client.query
SendPrompt ==
  /\ at = "query"
  /\ \/ /\ at' = "wait"
        /\ sent' = sent \cup {current}
        /\ UNCHANGED <<turn, fatal, done, refused>>
     \/ Raise("query", {}, {current})
  /\ UNCHANGED <<queue, posted>>

\* The client's context is exited; _drain_pending_commands.
Leave ==
  /\ at = "leave"
  /\ at' = "over"
  /\ queue' = <<>>
  /\ Complete({}, Queued \ done)
  /\ UNCHANGED <<turn, fatal, posted>>

-----------------------------------------------------------------------------
(* _drive_query.                                                           *)

\* cmd_task.
Take ==
  /\ at = "wait"
  /\ taken = NoCommand
  /\ queue # <<>>
  /\ taken' = Head(queue)
  /\ queue' = Tail(queue)
  /\ UNCHANGED <<at, current, pending, stream, fatal, posted, replies>>

\* msg_task, which goes on while the actor awaits client.interrupt().
Receive ==
  /\ at \in {"wait", "interrupt", "part"}
  /\ stream = "open"
  /\ stream' \in {"ended"} \cup (IF "recv" \in Faults THEN {"raised"} ELSE {})
  /\ UNCHANGED <<at, queue, current, taken, pending, fatal, posted, replies>>

\* Mutant: the query's done is not set when a pending one takes over.
StreamEndsUnreported ==
  /\ at = "wait"
  /\ stream = "ended"
  /\ \/ pending # NoCommand /\ Handle(pending, {})
     \/ pending = NoCommand /\ taken # NoCommand /\ Handle(taken, {current})
     \/ /\ pending = NoCommand /\ taken = NoCommand
        /\ at' = "get" /\ NoTurn /\ Complete({current}, {})
  /\ UNCHANGED <<queue, fatal, posted>>

\* The stream has ended: a pending query comes first, and a command taken
\* meanwhile goes back into the queue, at its end.
StreamEnds ==
  /\ at = "wait"
  /\ stream = "ended"
  /\ \/ /\ pending # NoCommand
        /\ queue' = queue \o (IF taken = NoCommand THEN <<>> ELSE <<taken>>)
        /\ Handle(pending, {current})
     \/ /\ pending = NoCommand /\ taken # NoCommand
        /\ Handle(taken, {current})
        /\ UNCHANGED queue
     \/ /\ pending = NoCommand /\ taken = NoCommand
        /\ at' = "get" /\ NoTurn
        /\ Complete({current}, {})
        /\ UNCHANGED queue
  /\ UNCHANGED <<fatal, posted>>

\* What _drive_query's finally and _command_loop's except complete.
Abandoned == Some(pending) \cup {current}

StreamRaises ==
  /\ at = "wait"
  /\ stream = "raised"
  /\ Raise("recv", {}, Abandoned)
  /\ UNCHANGED <<queue, posted>>

\* Mutant: the latest query replaces the pending one.
ServeLatest ==
  /\ at = "wait"
  /\ stream = "open"
  /\ \/ taken \in Interrupt /\ at' = "interrupt" /\ UNCHANGED turn
     \/ taken \in Disconnect /\ at' = "part" /\ UNCHANGED turn
     \/ /\ taken \in Query
        /\ pending' = taken /\ taken' = NoCommand
        /\ UNCHANGED <<at, current, stream>>
  /\ UNCHANGED <<queue, fatal, posted, replies>>

\* A command that comes in while the query is driven.
Serve ==
  /\ at = "wait"
  /\ stream = "open"
  /\ \/ /\ taken \in Interrupt
        /\ at' = "interrupt"
        /\ UNCHANGED <<turn, replies>>
     \/ /\ taken \in Disconnect
        /\ at' = "part"
        /\ UNCHANGED <<turn, replies>>
     \/ /\ taken \in Query /\ pending = NoCommand
        /\ pending' = taken /\ taken' = NoCommand
        /\ UNCHANGED <<at, current, stream, replies>>
     \/ /\ taken \in Query /\ pending # NoCommand
        /\ Complete({}, {taken}) /\ taken' = NoCommand
        /\ UNCHANGED <<at, current, pending, stream>>
  /\ UNCHANGED <<queue, fatal, posted>>

\* Mutant: when it fails, the caller is forgotten.
InterruptedUnanswered ==
  /\ at = "interrupt"
  /\ \/ /\ at' = "wait"
        /\ Complete({taken}, {}) /\ taken' = NoCommand
        /\ UNCHANGED <<current, pending, stream, fatal>>
     \/ Raise("interrupt", {}, Abandoned)
  /\ UNCHANGED <<queue, posted>>

\* client.interrupt() for an interrupt command: it is completed either way.
Interrupted ==
  /\ at = "interrupt"
  /\ \/ /\ at' = "wait"
        /\ Complete({taken}, {}) /\ taken' = NoCommand
        /\ UNCHANGED <<current, pending, stream, fatal>>
     \/ Raise("interrupt", {}, Abandoned \cup {taken})
  /\ UNCHANGED <<queue, posted>>

\* client.interrupt() on the way to a disconnect.
Parted ==
  /\ at = "part"
  /\ \/ /\ at' = "leave" /\ NoTurn
        /\ Complete({current, taken}, Some(pending))
        /\ UNCHANGED fatal
     \/ Raise("interrupt", {}, Abandoned)
  /\ UNCHANGED <<queue, posted>>

-----------------------------------------------------------------------------
(* cancel_and_wait: CancelledError is raised where the task awaits.        *)

Cancel ==
  /\ "cancel" \in Faults
  /\ \/ /\ at \in {"connect", "leave"}
        /\ fatal' = "cancel" /\ at' = "over" /\ queue' = <<>>
        /\ Complete({}, Queued \ done)
        /\ UNCHANGED turn
     \/ /\ at \in {"get", "query", "wait", "part"}
        /\ Raise("cancel", {}, Some(current) \cup Some(pending))
        /\ UNCHANGED queue
     \/ /\ at = "interrupt"
        /\ Raise("cancel", {taken}, Abandoned)
        /\ UNCHANGED queue
  /\ UNCHANGED posted

-----------------------------------------------------------------------------
Actor ==
  \/ Connect \/ Get \/ SendPrompt \/ Leave
  \/ StreamEnds \/ StreamRaises \/ Serve \/ Interrupted \/ Parted

Next == Actor \/ Take \/ Receive \/ Cancel \/ \E c \in Command : Post(c)

Spec == Init /\ [][Next]_vars

\* The event loop runs the three tasks, the SDK returns from its calls and ends
\* its stream.
FairSpec == Spec /\ WF_vars(Actor) /\ WF_vars(Take) /\ WF_vars(Receive)

-----------------------------------------------------------------------------
(* Safety.                                                                 *)

\* When the actor is gone, at most one of all the commands it was sent is left
\* without a reply: one it had taken out of the queue while the stream raised or
\* the actor was cancelled, or the disconnect that an interrupt failed for.
\* Whatever is in the queue, is pending or has the turn is replied to.
AtMostOneLost ==
  at = "over" =>
    \/ posted \subseteq done
    \/ /\ fatal \in {"interrupt", "recv", "cancel"}
       /\ \E c \in posted : posted \ {c} \subseteq done /\ (fatal = "interrupt" => c \in Disconnect)

\* The commands, seen by those who sent them.
PhaseOf(c) ==
  IF c \notin posted THEN "new"
  ELSE IF c \in refused THEN "refused"
  ELSE IF c \in done THEN "answered"
  ELSE IF c \in sent THEN "turn" ELSE "waiting"

\* The actor is a mailbox: a reply is final, a query is answered only after its
\* turn, and one query at a time has the turn, whichever command races with the
\* end of the stream and whatever raises.
Mailbox == INSTANCE SessionMailbox
  WITH Order <- Interrupt \cup Disconnect, phase <- [c \in Command |-> PhaseOf(c)]
MailboxSpec == Mailbox!Spec

-----------------------------------------------------------------------------
(* Liveness.                                                               *)

\* A command is replied to, or the actor comes to its end.
Answered == \A c \in Command : c \in posted ~> c \in done \/ at = "over"
=============================================================================
