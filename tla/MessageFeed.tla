----------------------------- MODULE MessageFeed -----------------------------
(***************************************************************************)
(* What the live stream of a session promises a subscriber: the messages   *)
(* broadcast since it subscribed come in their order, and none of them     *)
(* that is critical is left out while the stream lasts.  A stream that     *)
(* cannot keep this promise is cut, and the client connects again.         *)
(***************************************************************************)
EXTENDS Naturals, Sequences

CONSTANTS Kinds, CriticalTypes, Subscribers

VARIABLES
  log,  \* the kinds of the messages broadcast so far
  feed  \* subscriber -> [open, last]: the last message it has had

Init ==
  /\ log = <<>>
  /\ feed = [s \in Subscribers |-> [open |-> FALSE, last |-> 0]]

Broadcast == \E kind \in Kinds : log' = Append(log, kind) /\ UNCHANGED feed

Subscribe(s) ==
  /\ ~feed[s].open
  /\ feed' = [feed EXCEPT ![s] = [open |-> TRUE, last |-> Len(log)]]
  /\ UNCHANGED log

\* The next message to have may leave out those before it that are not critical.
Deliver(s) ==
  /\ feed[s].open
  /\ \E n \in feed[s].last + 1 .. Len(log) :
       /\ \A k \in feed[s].last + 1 .. n - 1 : log[k] \notin CriticalTypes
       /\ feed' = [feed EXCEPT ![s].last = n]
  /\ UNCHANGED log

Close(s) ==
  /\ feed[s].open
  /\ feed' = [feed EXCEPT ![s] = [open |-> FALSE, last |-> 0]]
  /\ UNCHANGED log

Next == Broadcast \/ \E s \in Subscribers : Subscribe(s) \/ Deliver(s) \/ Close(s)

FeedSpec == Init /\ [][Next]_<<log, feed>>
=============================================================================
