---------------------------- MODULE SessionFanout ----------------------------
(***************************************************************************)
(* The messages of one managed session: the buffer new streams are given,  *)
(* and the bounded queues through which the live ones get what is          *)
(* broadcast.  A message is its place in the order of the broadcasts; of   *)
(* its content only the kind is kept.  Actor, requests and streams share   *)
(* an event loop and none of these operations awaits, so each is a step.   *)
(***************************************************************************)
EXTENDS Naturals, Sequences, SequencesExt, FiniteSets

CONSTANTS
  Subscribers,
  BufferMax,   \* buffer_max_size
  QueueMax,    \* maxsize of a subscriber's queue
  MaxMessages, \* bound
  MaxStreams   \* bound: subscriptions

\* result, runtime_status, user and assistant are "critical" here; of the
\* others stream_event is the transient one.
Kinds == {"critical", "stream_event", "system"}
CriticalTypes == {"critical"}
TransientTypes == {"stream_event"}

ASSUME FanoutAssumption ==
  /\ {BufferMax, QueueMax} \subseteq Nat \ {0}
  /\ {MaxMessages, MaxStreams} \subseteq Nat

VARIABLES
  log,     \* history: the kinds of all messages broadcast
  buffer,  \* message_buffer
  stream,  \* subscriber -> its stream
  streams, \* subscriptions so far
  dropped  \* history: a critical message of this turn has left the buffer

vars == <<log, buffer, stream, streams, dropped>>

Overflow == 0 \* the _queue_overflow signal
Closed == [open |-> FALSE, registered |-> FALSE, replay |-> <<>>, queue |-> <<>>, last |-> 0]

IsCritical(n) == n # Overflow /\ log'[n] \in CriticalTypes

TypeOK ==
  /\ log \in Seq(Kinds) /\ Len(log) <= MaxMessages
  /\ buffer \in Seq(DOMAIN log) /\ Len(buffer) <= BufferMax
  /\ stream \in [Subscribers ->
                   [open : BOOLEAN, registered : BOOLEAN, replay : Seq(DOMAIN log),
                    queue : Seq(DOMAIN log \cup {Overflow}), last : 0 .. Len(log)]]
  /\ \A s \in Subscribers : Len(stream[s].queue) <= QueueMax
  /\ streams \in 0 .. MaxStreams /\ dropped \in BOOLEAN

Init ==
  /\ log = <<>> /\ buffer = <<>> /\ streams = 0 /\ dropped = FALSE
  /\ stream = [s \in Subscribers |-> Closed]

-----------------------------------------------------------------------------
(* The buffer.                                                             *)

Places(seq, P(_)) == {i \in DOMAIN seq : P(seq[i])}
FirstOf(places) == CHOOSE i \in places : \A j \in places : i <= j

\* Mutant: the oldest entry, whatever it is.
EvicteePlaceOldest(long) == 1

\* _evict_oldest_buffer_entry: the oldest transient one but for the last, or
\* else the oldest.
EvicteePlace(long) ==
  LET transient == Places(Front(long), LAMBDA n : log'[n] \in TransientTypes) IN
  IF transient = {} THEN 1 ELSE FirstOf(transient)

Buffered(n) ==
  LET long == Append(buffer, n)
      place == EvicteePlace(long)
  IN
  IF Len(long) <= BufferMax
  THEN buffer' = long /\ UNCHANGED dropped
  ELSE /\ buffer' = RemoveAt(long, place)
       /\ dropped' = (dropped \/ IsCritical(long[place]))

-----------------------------------------------------------------------------
(* The subscribers' queues.                                                *)

\* Mutant: the oldest message makes room.
WithoutNonCriticalOldest(queue) == Tail(queue)

\* _evict_non_critical: the oldest one that is not critical goes, if there is one.
WithoutNonCritical(queue) ==
  LET spare == Places(queue, LAMBDA n : ~IsCritical(n)) IN
  IF spare = {} THEN queue ELSE RemoveAt(queue, FirstOf(spare))

\* Mutant: a subscriber that cannot take a critical message keeps what it has.
CutOffSilently(st) == st

\* _drain_and_signal_reconnect.
CutOff(st) == [st EXCEPT !.queue = <<Overflow>>, !.registered = FALSE]

HasRoom(queue) == Len(queue) < QueueMax

\* _try_enqueue, and what the broadcast does when it fails.
Offered(st, n) ==
  IF HasRoom(st.queue) THEN [st EXCEPT !.queue = Append(@, n)]
  ELSE IF ~IsCritical(n) THEN st
  ELSE LET room == WithoutNonCritical(st.queue) IN
       IF HasRoom(room) THEN [st EXCEPT !.queue = Append(room, n)] ELSE CutOff(st)

Broadcast(n) ==
  stream' = [s \in Subscribers |-> IF stream[s].registered THEN Offered(stream[s], n) ELSE stream[s]]

Arrives(kind) == Len(log) < MaxMessages /\ log' = Append(log, kind)

AddMessage(kind) ==
  /\ Arrives(kind)
  /\ Buffered(Len(log'))
  /\ Broadcast(Len(log'))
  /\ UNCHANGED streams

\* _mark_session_terminal's notices are not buffered.
Notice ==
  /\ Arrives("critical")
  /\ Broadcast(Len(log'))
  /\ UNCHANGED <<buffer, streams, dropped>>

\* The places of the messages that are neither critical nor transient.
Kept == Places(buffer, LAMBDA n : log[n] \notin CriticalTypes \cup TransientTypes)

\* _prune_transient_buffer, when a turn ends and when one begins: these are
\* kept, in their order.
Prune ==
  /\ buffer # <<>>
  /\ \E place \in [1 .. Cardinality(Kept) -> Kept] :
       /\ \A i, j \in DOMAIN place : i < j => place[i] < place[j]
       /\ buffer' = [i \in DOMAIN place |-> buffer[place[i]]]
  /\ dropped' = FALSE
  /\ UNCHANGED <<log, stream, streams>>

-----------------------------------------------------------------------------
(* The streams.                                                            *)

\* _subscribe: snapshot and registration without an await between them.
Subscribe(s) ==
  /\ ~stream[s].open /\ streams < MaxStreams
  /\ streams' = streams + 1
  /\ stream' = [stream EXCEPT ![s] =
       [open |-> TRUE, registered |-> TRUE, replay |-> buffer, queue |-> <<>>, last |-> Len(log)]]
  /\ UNCHANGED <<log, buffer, dropped>>

Yielded(st) == [st EXCEPT !.queue = Tail(st.queue), !.last = Head(st.queue)]

\* The overflow signal ends the iteration.
Take(s) ==
  /\ stream[s].open /\ stream[s].queue # <<>>
  /\ stream' = [stream EXCEPT ![s] =
       IF Head(stream[s].queue) = Overflow THEN Closed ELSE Yielded(stream[s])]
  /\ UNCHANGED <<log, buffer, streams, dropped>>

\* The client is gone.
Unsubscribe(s) ==
  /\ stream[s].open
  /\ stream' = [stream EXCEPT ![s] = Closed]
  /\ UNCHANGED <<log, buffer, streams, dropped>>

Next ==
  \/ \E kind \in Kinds : AddMessage(kind)
  \/ Notice \/ Prune
  \/ \E s \in Subscribers : Subscribe(s) \/ Take(s) \/ Unsubscribe(s)

\* A stream's consumer goes on reading.
Spec == Init /\ [][Next]_vars /\ \A s \in Subscribers : WF_vars(Take(s))

-----------------------------------------------------------------------------
(* Properties.                                                             *)

\* What a stream promises its client is what it gets.
Feed == INSTANCE MessageFeed WITH
  feed <- [s \in Subscribers |->
             IF stream[s].open THEN [open |-> TRUE, last |-> stream[s].last]
                               ELSE [open |-> FALSE, last |-> 0]]

FeedSpec == Feed!FeedSpec

\* A critical message reaches every stream that is registered when it comes,
\* unless the stream ends.
CriticalReaches ==
  \A s \in Subscribers, n \in 1 .. MaxMessages :
    (n \in DOMAIN log /\ log[n] \in CriticalTypes /\ stream[s].registered /\ stream[s].last < n)
      ~> (~stream[s].open \/ stream[s].last >= n)

\* Critical messages of the turn leave the buffer only when there is nothing
\* else to leave it: while a transient message is kept before the last one, a
\* new stream is given all of them.
TransientsGoFirst ==
  (\E i \in 1 .. Len(buffer) - 1 : log[buffer[i]] \in TransientTypes) => ~dropped
=============================================================================
