--------------------------- MODULE SessionManager ---------------------------
(***************************************************************************)
(* SessionManager: the registry of the live sessions of the assistant.  A  *)
(* session of the database (its id, here sid) is served by a managed       *)
(* object with an actor that owns the SDK client; requests find or make    *)
(* the object of their session, a limit evicts the idle ones, timers and a *)
(* patrol clean up, and the inbox of an object brings the results of its   *)
(* turns to the database after they were broadcast.  Everything runs on    *)
(* one event loop: a step here is what happens between two awaits.         *)
(* The actor's own protocol is SessionActor's; here it runs the queries it *)
(* is given, one after the other, and may die.                             *)
(***************************************************************************)
EXTENDS Naturals, Sequences, FiniteSets

CONSTANTS
  Sids,       \* sessions of the database
  NewSids,    \* those of them not yet created
  Callers,    \* concurrent requests
  MaxActive,  \* agent_max_concurrent_sessions
  MaxObjects, \* bound: managed objects ever made
  MaxQueries, \* bound: queries ever given to an actor; no request comes after them
  MaxDeaths   \* bound: actors that die

ASSUME SessionAssumption ==
  /\ NewSids \subseteq Sids /\ IsFiniteSet(Callers)
  /\ MaxActive \in Nat \ {0}
  /\ {MaxObjects, MaxQueries, MaxDeaths} \subseteq Nat

VARIABLES
  sessions,      \* sid -> its object in the registry, or Nobody
  disconnecting, \* _disconnecting
  lockOf,        \* sid -> which lock _connect_locks has for it
  meta,          \* sid -> the status in the database
  managed,       \* the objects, in the order they were made
  caller,        \* what each request is doing
  persisting,    \* objects whose dead actor's status is not in the database yet
  asked,         \* queries given so far
  deaths,        \* actors that died so far
  overlapped,    \* history: objects asked a query while another was not settled
  stale,         \* history: sids left running by one of the ways SettledWhenQuiet lists
  collided       \* history: sids that two objects were being made or evicted for at once

history == <<overlapped, stale, collided>>
vars == <<sessions, disconnecting, lockOf, meta, managed, caller, persisting, asked, deaths, history>>

Nobody == 0
Idle == [pc |-> "idle"]

\* "ended" stands for idle, completed, error and interrupted alike.
Statuses == {"running", "ended", "closed"}

\* The keys of an object its request registered under a temporary id: not named
\* yet, with a row, or with none because it could not be made.
Temporary == {"temp", "created", "unnamed"}

\* Those of one its request has dropped, while it disconnects the actor: with a
\* name that may still come from the inbox, or without.
Popped == {"popped", "closing"}

\* Where a request holds the lock of its session.
Locked == {"discard", "capacity", "evicting", "build", "starting"}

TypeOK ==
  /\ sessions \in [Sids -> 0 .. Len(managed)]
  /\ disconnecting \subseteq Sids
  /\ lockOf \in [Sids -> Nat]
  /\ meta \in [Sids -> {"absent", "running", "ended"}]
  /\ Len(managed) <= MaxObjects
  /\ \A o \in DOMAIN managed :
       /\ managed[o].sid \in Sids /\ managed[o].key \in Temporary \cup Popped \cup {"sid", "dropped"}
       /\ managed[o].status \in Statuses /\ managed[o].actor \in {"starting", "up", "over"}
       /\ managed[o].turns + managed[o].inbox \in 0 .. asked
       /\ managed[o].timer \in BOOLEAN /\ managed[o].settling \in BOOLEAN
       /\ managed[o].evict \in {"no", "timer", "disconnect", "drain", "done"}
  /\ \A c \in Callers : caller[c] = Idle \/ caller[c].sid \in Sids
  /\ persisting \cup overlapped \subseteq DOMAIN managed
  /\ stale \cup collided \subseteq Sids
  /\ asked \in 0 .. MaxQueries /\ deaths \in 0 .. MaxDeaths

Init ==
  /\ sessions = [s \in Sids |-> Nobody] /\ disconnecting = {} /\ lockOf = [s \in Sids |-> 0]
  /\ meta = [s \in Sids |-> IF s \in NewSids THEN "absent" ELSE "ended"]
  /\ managed = <<>> /\ caller = [c \in Callers |-> Idle]
  /\ persisting = {} /\ asked = 0 /\ deaths = 0 /\ overlapped = {} /\ stale = {} /\ collided = {}

-----------------------------------------------------------------------------
(* Helpers.                                                                *)

Live(o) == managed[o].actor = "up"
Over(o) == managed[o].actor = "over"
Sid(o) == managed[o].sid

\* What the registry has that counts against the limit.
Active ==
  ({sessions[s] : s \in Sids \ disconnecting} \ {Nobody})
    \cup {o \in DOMAIN managed : managed[o].key \in Temporary}

\* The inbox processor has nothing left to do.
Drained(o) == managed[o].inbox = 0 /\ ~managed[o].settling

Now(c, pc) == caller' = [caller EXCEPT ![c].pc = pc]
Leave(c) == caller' = [caller EXCEPT ![c] = Idle]

\* _schedule_cleanup: of whatever the registry has under the id of o.  A timer of
\* a temporary id finds nothing when it ends.
Scheduled(objects, o) ==
  IF sessions[Sid(o)] = Nobody \/ managed[o].key # "sid" THEN objects
  ELSE [objects EXCEPT ![sessions[Sid(o)]].timer = TRUE]

Unregistered(s) == sessions' = [sessions EXCEPT ![s] = Nobody]

NewObject(s, status, key) ==
  [sid |-> s, key |-> key, status |-> status, actor |-> "starting", turns |-> 0,
   inbox |-> 0, settling |-> FALSE, timer |-> FALSE, evict |-> "no"]

UnderEviction(o) == managed[o].evict \in {"timer", "disconnect", "drain"}

\* An object that nothing refers to any more but a request that comes too late, or
\* an _evict_one that is under way and drops its id once more.
Retired(o) == [managed EXCEPT ![o] =
  [NewObject(Sid(o), "closed", "dropped") EXCEPT
     !.actor = "over", !.evict = IF UnderEviction(o) THEN managed[o].evict ELSE "done"]]

\* _evict_one up to its first await: of the timer's end, if there is one, or
\* of the disconnect it has enqueued.
Evicting(o, objects) ==
  /\ Sid(o) \notin disconnecting /\ managed[o].key = "sid"
  /\ disconnecting' = disconnecting \cup {Sid(o)}
  /\ managed' = [objects EXCEPT ![o].timer = FALSE,
       ![o].evict = IF objects[o].timer THEN "timer" ELSE "disconnect"]

\* The timers wait at least ten seconds: no request is in the middle of sending.
InUse(o) == \E c \in Callers : /\ caller[c] # Idle /\ caller[c].object = o
                                /\ caller[c].pc \in {"writing", "query"}

-----------------------------------------------------------------------------
(* send_message and _subscribe: requests for a session of the database.    *)

\* send_or_create reads the database first.
Send(c, s) ==
  /\ caller[c] = Idle /\ meta[s] # "absent" /\ asked < MaxQueries
  /\ caller' = [caller EXCEPT ![c] =
       [pc |-> "find", op |-> "send", sid |-> s, seen |-> meta[s], object |-> Nobody, lock |-> 0]]
  /\ UNCHANGED <<sessions, disconnecting, lockOf, meta, managed, persisting, asked, deaths, history>>

Status(s) == IF sessions[s] # Nobody THEN managed[sessions[s]].status ELSE meta[s]

\* An event stream is opened for a running session only (and here, as nothing
\* bounds their number, while there are queries left).
Attach(c, s) ==
  /\ caller[c] = Idle /\ Status(s) = "running" /\ asked < MaxQueries
  /\ caller' = [caller EXCEPT ![c] =
       [pc |-> "find", op |-> "attach", sid |-> s, seen |-> meta[s], object |-> Nobody, lock |-> 0]]
  /\ UNCHANGED <<sessions, disconnecting, lockOf, meta, managed, persisting, asked, deaths, history>>

\* get_or_connect has returned o: a message cancels the cleanup, and is
\* refused while a turn runs.
Arrive(c, o, objects) ==
  IF caller[c].op = "send"
  THEN /\ managed' = [objects EXCEPT ![o].timer = FALSE]
       /\ IF objects[o].status = "running" THEN Leave(c)
          ELSE caller' = [caller EXCEPT ![c].pc = "writing", ![c].object = o,
                                        ![c].seen = "ended", ![c].lock = 0]
  ELSE managed' = objects /\ Leave(c)

Usable(s) == sessions[s] # Nobody /\ s \notin disconnecting /\ ~Over(sessions[s])

Find(c) ==
  /\ caller[c].pc = "find"
  /\ IF Usable(caller[c].sid)
     THEN Arrive(c, sessions[caller[c].sid], managed)
     ELSE /\ caller' = [caller EXCEPT ![c].pc = "lock", ![c].lock = lockOf[caller[c].sid]]
          /\ UNCHANGED managed
  /\ UNCHANGED <<sessions, disconnecting, lockOf, meta, persisting, asked, deaths, history>>

\* A request is connecting s under its lock, be it one that an eviction has dropped.
Connecting(s) ==
  \E c \in Callers : caller[c] # Idle /\ caller[c].pc \in Locked /\ caller[c].sid = s

\* A request is connecting s under another lock than this one.
Bypassed(s, lock) ==
  \E c \in Callers : /\ caller[c] # Idle /\ caller[c].pc \in Locked
                      /\ caller[c].sid = s /\ caller[c].lock # lock

\* Mutant: no lock.
FreeAlways(s, lock) == TRUE

Free(s, lock) ==
  ~\E c \in Callers : /\ caller[c] # Idle /\ caller[c].pc \in Locked
                      /\ caller[c].sid = s /\ caller[c].lock = lock

\* The re-check under the lock.  A stream has its meta read here.
Acquire(c) ==
  /\ caller[c].pc = "lock" /\ Free(caller[c].sid, caller[c].lock)
  /\ LET s == caller[c].sid
         dead == sessions[s] # Nobody /\ s \notin disconnecting
     IN
     IF Usable(s) THEN Arrive(c, sessions[s], managed) /\ UNCHANGED collided
     ELSE /\ collided' = IF Bypassed(s, caller[c].lock) THEN collided \cup {s} ELSE collided
          /\ caller' = [caller EXCEPT
               ![c].pc = IF dead THEN "discard" ELSE "capacity",
               ![c].object = IF dead THEN sessions[s] ELSE Nobody,
               ![c].seen = IF caller[c].op = "send" THEN @ ELSE meta[s]]
          /\ UNCHANGED managed
  /\ UNCHANGED <<sessions, disconnecting, lockOf, meta, persisting, asked, deaths, overlapped, stale>>

\* _discard_dead_session waits for the inbox processor; then it drops the id,
\* whoever's it is by now.
Discard(c) ==
  /\ caller[c].pc = "discard" /\ Drained(caller[c].object)
  /\ LET s == caller[c].sid IN
     /\ managed' = Retired(caller[c].object)
     /\ Unregistered(s)
     /\ disconnecting' = disconnecting \ {s}
  /\ caller' = [caller EXCEPT ![c].pc = "capacity", ![c].object = Nobody]
  /\ UNCHANGED <<lockOf, meta, persisting, asked, deaths, history>>

-----------------------------------------------------------------------------
(* _ensure_capacity.                                                       *)

\* Mutant: one more than the limit.
FullOneMore == Cardinality(Active) > MaxActive

Full == Cardinality(Active) >= MaxActive

Room(c) ==
  /\ caller[c].pc = "capacity" /\ ~Full
  /\ Now(c, "build")
  /\ UNCHANGED <<sessions, disconnecting, lockOf, meta, managed, persisting, asked, deaths, history>>

\* The code takes the one longest without activity; here any.
Victims == {o \in Active : managed[o].status # "running"}

MakeRoom(c, o) ==
  /\ caller[c].pc = "capacity" /\ Full
  /\ o \in Victims
  /\ Evicting(o, managed)
  /\ caller' = [caller EXCEPT ![c].pc = "evicting", ![c].object = o]
  /\ UNCHANGED <<sessions, lockOf, meta, persisting, asked, deaths, history>>

NoRoom(c) ==
  /\ caller[c].pc = "capacity" /\ Full /\ Victims = {}
  /\ Leave(c)
  /\ UNCHANGED <<sessions, disconnecting, lockOf, meta, managed, persisting, asked, deaths, history>>

\* The limit is not looked at again.
RoomMade(c) ==
  /\ caller[c].pc = "evicting" /\ managed[caller[c].object].evict = "done"
  /\ Now(c, "build")
  /\ UNCHANGED <<sessions, disconnecting, lockOf, meta, managed, persisting, asked, deaths, history>>

-----------------------------------------------------------------------------
(* The rest of get_or_connect and send_new_session.                        *)

\* A new session has no id, no lock and no row before the SDK names it.
Create(c, s) ==
  /\ caller[c] = Idle /\ meta[s] = "absent" /\ asked < MaxQueries
  /\ ~\E o \in DOMAIN managed : Sid(o) = s
  /\ ~\E d \in Callers : caller[d] # Idle /\ caller[d].sid = s
  /\ caller' = [caller EXCEPT ![c] =
       [pc |-> "capacity", op |-> "create", sid |-> s, seen |-> "absent", object |-> Nobody, lock |-> 0]]
  /\ UNCHANGED <<sessions, disconnecting, lockOf, meta, managed, persisting, asked, deaths, history>>

Register(c) ==
  /\ caller[c].pc = "build" /\ Len(managed) < MaxObjects
  /\ LET s == caller[c].sid
         o == Len(managed) + 1
     IN
     IF caller[c].op = "create"
     THEN /\ managed' = Append(managed, NewObject(s, "running", "temp"))
          /\ UNCHANGED <<sessions, stale, collided>>
     ELSE /\ managed' = Append(managed, NewObject(s, caller[c].seen, "sid"))
          /\ sessions' = [sessions EXCEPT ![s] = o]
          /\ stale' = IF caller[c].seen = "running" THEN stale \cup {s} ELSE stale
          /\ collided' = IF \E x \in DOMAIN managed : Sid(x) = s /\ UnderEviction(x)
                         THEN collided \cup {s} ELSE collided
  /\ caller' = [caller EXCEPT ![c].pc = "starting", ![c].object = Len(managed')]
  /\ UNCHANGED <<disconnecting, lockOf, meta, persisting, asked, deaths, overlapped>>

\* The object may have been evicted meanwhile: the request goes on with it.
Started(c) ==
  /\ caller[c].pc = "starting"
  /\ LET o == caller[c].object
         up == [managed EXCEPT ![o].actor = IF @ = "starting" THEN "up" ELSE @]
     IN
     IF caller[c].op = "create" THEN managed' = up /\ Now(c, "query") ELSE Arrive(c, o, up)
  /\ UNCHANGED <<sessions, disconnecting, lockOf, meta, persisting, asked, deaths, history>>

\* Queries of others that found the object meanwhile fail, and say so.
StartFails(c) ==
  /\ caller[c].pc = "starting" /\ deaths < MaxDeaths
  /\ deaths' = deaths + 1
  /\ LET o == caller[c].object IN
     /\ managed' = Retired(o)
     /\ persisting' = IF managed[o].turns > 0 THEN persisting \cup {o} ELSE persisting
  /\ IF caller[c].op = "create" THEN UNCHANGED sessions ELSE Unregistered(caller[c].sid)
  /\ Leave(c)
  /\ UNCHANGED <<disconnecting, lockOf, meta, asked, history>>

-----------------------------------------------------------------------------
(* The rest of send_message and send_new_session.                          *)

WriteRunning(c) ==
  /\ caller[c].pc = "writing"
  /\ meta' = [meta EXCEPT ![caller[c].sid] = "running"]
  /\ Now(c, "query")
  /\ UNCHANGED <<sessions, disconnecting, lockOf, managed, persisting, asked, deaths, history>>

Busy(o) == managed[o].turns > 0 \/ ~Drained(o)

Refuses(o) == Over(o) \/ managed[o].evict = "disconnect"

\* send_query: an actor that is over, or has the disconnect before it, refuses.
Query(c) ==
  /\ caller[c].pc = "query" /\ asked < MaxQueries
  /\ LET o == caller[c].object IN
     /\ overlapped' = IF Busy(o) THEN overlapped \cup {o} ELSE overlapped
     /\ IF Refuses(o)
        THEN /\ managed' = [managed EXCEPT ![o].status = "ended"]
             /\ Now(c, "failed")
             /\ UNCHANGED asked
        ELSE /\ managed' = [managed EXCEPT ![o].status = "running", ![o].turns = @ + 1]
             /\ asked' = asked + 1
             /\ IF caller[c].op = "create" THEN Now(c, "naming") ELSE Leave(c)
  /\ UNCHANGED <<sessions, disconnecting, lockOf, meta, persisting, deaths, stale, collided>>

\* Of a new session nothing came from an actor that refused its first query: the
\* cleanup finds nothing to wait for.
Failed(c) ==
  /\ caller[c].pc = "failed"
  /\ IF caller[c].op = "create"
     THEN managed' = Retired(caller[c].object) /\ UNCHANGED meta
     ELSE /\ meta' = [meta EXCEPT ![caller[c].sid] = "ended"]
          /\ UNCHANGED managed
  /\ Leave(c)
  /\ UNCHANGED <<sessions, disconnecting, lockOf, persisting, asked, deaths, history>>

\* The SDK's messages carry its id; the inbox brings them also when the actor is
\* over or its request is cleaning up.
Nameable(o) ==
  /\ managed[o].key \in {"temp", "popped"}
  /\ \E c \in Callers : /\ caller[c] # Idle /\ caller[c].object = o
                        /\ caller[c].pc \in {"naming", "cleanup"}

\* The row is made, and set to running: for good, if neither a turn nor a result
\* is left, or if the object has been dropped.
MakeRow(o) ==
  /\ Nameable(o)
  /\ meta' = [meta EXCEPT ![Sid(o)] = "running"]
  /\ managed' = [managed EXCEPT ![o].key = IF @ = "temp" THEN "created" ELSE "closing"]
  /\ stale' = IF managed[o].key = "popped" \/ ~Busy(o) THEN stale \cup {Sid(o)} ELSE stale
  /\ UNCHANGED <<sessions, disconnecting, lockOf, caller, persisting, asked, deaths,
                 overlapped, collided>>

\* The creation fails, before the row is there or before it is set to running.
\* It is not tried again.
RowFails(o) ==
  /\ Nameable(o)
  /\ \/ UNCHANGED meta
     \/ meta' = [meta EXCEPT ![Sid(o)] = "ended"]
  /\ managed' = [managed EXCEPT ![o].key = IF @ = "temp" THEN "unnamed" ELSE "closing"]
  /\ UNCHANGED <<sessions, disconnecting, lockOf, caller, persisting, asked, deaths, history>>

\* A request that found the row before the swap is making another object, or made one.
SwapKeys(o) ==
  /\ managed[o].key = "created"
  /\ managed' = [managed EXCEPT ![o].key = "sid"]
  /\ sessions' = [sessions EXCEPT ![Sid(o)] = o]
  /\ collided' = IF Connecting(Sid(o)) \/ \E x \in DOMAIN managed \ {o} : Sid(x) = Sid(o)
                 THEN collided \cup {Sid(o)} ELSE collided
  /\ UNCHANGED <<disconnecting, lockOf, meta, caller, persisting, asked, deaths, overlapped, stale>>

\* Named in time, though it may have been evicted since.
Named(c) ==
  /\ caller[c].pc = "naming" /\ managed[caller[c].object].key \in {"sid", "dropped"}
  /\ Leave(c)
  /\ UNCHANGED <<sessions, disconnecting, lockOf, meta, managed, persisting, asked, deaths, history>>

\* Too late, or the actor is over: _cleanup_on_error drops the id and enqueues a
\* disconnect.  Keys are not swapped any more.
NamingFails(c) ==
  /\ caller[c].pc = "naming"
  /\ LET o == caller[c].object IN
     /\ managed[o].key \in Temporary
     /\ managed' = [managed EXCEPT ![o].key = IF @ = "temp" THEN "popped" ELSE "closing"]
     /\ stale' = IF managed[o].key = "created" THEN stale \cup {Sid(o)} ELSE stale
  /\ Now(c, "cleanup")
  /\ UNCHANGED <<sessions, disconnecting, lockOf, meta, persisting, asked, deaths,
                 overlapped, collided>>

\* The disconnect is served, whenever the actor comes to it, and the inbox
\* processor is cancelled.
CleanedUp(c) ==
  /\ caller[c].pc = "cleanup"
  /\ managed' = Retired(caller[c].object)
  /\ Leave(c)
  /\ UNCHANGED <<sessions, disconnecting, lockOf, meta, persisting, asked, deaths, history>>

-----------------------------------------------------------------------------
(* Turns, and the inbox.                                                   *)

\* Mutant: the message itself ends the turn.
ResultEnds(o) ==
  /\ Live(o) /\ managed[o].turns > 0
  /\ managed' = [managed EXCEPT ![o].turns = @ - 1, ![o].inbox = @ + 1, ![o].status = "ended"]
  /\ UNCHANGED <<sessions, disconnecting, lockOf, meta, caller, persisting, asked, deaths, history>>

\* The SDK ends the turn: the result is broadcast and put into the inbox.
Result(o) ==
  /\ Live(o) /\ managed[o].turns > 0
  /\ managed' = [managed EXCEPT ![o].turns = @ - 1, ![o].inbox = @ + 1]
  /\ UNCHANGED <<sessions, disconnecting, lockOf, meta, caller, persisting, asked, deaths, history>>

\* _finalize_turn, before and after its awaits: of the row of the object's id, and
\* a temporary one has none.
Finalize(o) ==
  /\ managed[o].inbox > 0 /\ ~managed[o].settling
  /\ managed[o].key \in {"sid", "unnamed", "closing"}
  /\ managed' = [managed EXCEPT ![o].inbox = @ - 1, ![o].settling = TRUE, ![o].status = "ended"]
  /\ UNCHANGED <<sessions, disconnecting, lockOf, meta, caller, persisting, asked, deaths, history>>

Finalized(o) ==
  /\ managed[o].settling
  /\ meta' = IF managed[o].key = "sid" THEN [meta EXCEPT ![Sid(o)] = "ended"] ELSE meta
  /\ managed' = Scheduled([managed EXCEPT ![o].settling = FALSE], o)
  /\ UNCHANGED <<sessions, disconnecting, lockOf, caller, persisting, asked, deaths, history>>

\* Mutant: only the object is told.
ToPersistNothing(o) == persisting

\* A task of its own writes the error to the database, to the row of the id the
\* object has now.
ToPersist(o) == IF managed[o].key = "sid" THEN persisting \cup {o} ELSE persisting

\* The actor dies: _on_done.  Before the keys are swapped it misses the row, and
\* nothing else settles that if the turn had no result.
Die(o) ==
  /\ Live(o) /\ deaths < MaxDeaths
  /\ deaths' = deaths + 1
  /\ managed' = Scheduled([managed EXCEPT ![o].actor = "over", ![o].turns = 0,
                                          ![o].status = "ended"], o)
  /\ persisting' = ToPersist(o)
  /\ stale' = IF managed[o].key = "created" /\ managed[o].turns > 0
              THEN stale \cup {Sid(o)} ELSE stale
  /\ UNCHANGED <<sessions, disconnecting, lockOf, meta, caller, asked, overlapped, collided>>

PersistError(o) ==
  /\ o \in persisting
  /\ persisting' = persisting \ {o}
  /\ meta' = [meta EXCEPT ![Sid(o)] = IF @ = "absent" THEN @ ELSE "ended"]
  /\ UNCHANGED <<sessions, disconnecting, lockOf, managed, caller, asked, deaths, history>>

\* interrupt_session writes a row nobody serves.  Of a live session it asks
\* the SDK to end the turn, which Result does unasked.
Interrupt(s) ==
  /\ sessions[s] = Nobody /\ meta[s] = "running"
  /\ meta' = [meta EXCEPT ![s] = "ended"]
  /\ UNCHANGED <<sessions, disconnecting, lockOf, managed, caller, persisting, asked, deaths, history>>

-----------------------------------------------------------------------------
(* Eviction.                                                               *)

TimerEnded(o) ==
  /\ managed[o].evict = "timer"
  /\ managed' = [managed EXCEPT ![o].evict = "disconnect"]
  /\ UNCHANGED <<sessions, disconnecting, lockOf, meta, caller, persisting, asked, deaths, history>>

\* The disconnect is served, after a timeout the actor is cancelled; a turn
\* that runs is interrupted without a result, a query that waits for it fails.
Disconnected(o) ==
  /\ managed[o].evict = "disconnect"
  /\ \E status \in {"closed", "ended"} :
       managed' = [managed EXCEPT ![o].evict = "drain", ![o].actor = "over", ![o].turns = 0,
                                  ![o].status = status]
  /\ persisting' = IF managed[o].turns > 1 THEN persisting \cup {o} ELSE persisting
  /\ stale' = IF managed[o].turns > 0 THEN stale \cup {Sid(o)} ELSE stale
  /\ UNCHANGED <<sessions, disconnecting, lockOf, meta, caller, asked, deaths, overlapped, collided>>

\* The registry, the lock and the mark are dropped by id.  An error or an
\* interruption is written again.
Evicted(o) ==
  /\ managed[o].evict = "drain" /\ Drained(o)
  /\ managed' = [Retired(o) EXCEPT ![o].evict = "done"]
  /\ \/ UNCHANGED meta
     \/ managed[o].status # "closed" /\ meta' = [meta EXCEPT ![Sid(o)] = "ended"]
  /\ Unregistered(Sid(o))
  /\ lockOf' = [lockOf EXCEPT ![Sid(o)] = @ + 1]
  /\ disconnecting' = disconnecting \ {Sid(o)}
  /\ UNCHANGED <<caller, persisting, asked, deaths, history>>

\* The timer looks its session up again: it may find none, or another object.
Cleanable(m) == m # Nobody /\ managed[m].status = "ended"

TimerOff(o) == [managed EXCEPT ![o].timer = FALSE]

CleanupNothing(o) ==
  /\ managed[o].timer
  /\ ~Cleanable(sessions[Sid(o)]) \/ Sid(o) \in disconnecting
  /\ managed' = TimerOff(o)
  /\ UNCHANGED <<sessions, disconnecting, lockOf, meta, caller, persisting, asked, deaths, history>>

CleanupDead(o) ==
  /\ managed[o].timer
  /\ LET m == sessions[Sid(o)] IN
     /\ Cleanable(m) /\ Over(m) /\ Drained(m) /\ ~InUse(m)
     /\ managed' = Retired(m)
     /\ Unregistered(Sid(o))
     /\ disconnecting' = disconnecting \ {Sid(o)}
  /\ UNCHANGED <<lockOf, meta, caller, persisting, asked, deaths, history>>

Cleanup(o) ==
  /\ managed[o].timer
  /\ LET m == sessions[Sid(o)] IN
     /\ Cleanable(m) /\ ~Over(m) /\ Drained(m) /\ ~InUse(m)
     /\ Evicting(m, TimerOff(o))
  /\ UNCHANGED <<sessions, lockOf, meta, caller, persisting, asked, deaths, history>>

\* Sessions without activity for twice the delay: nobody is about to use them,
\* though a request may be discarding one.
Patrol(s) ==
  /\ sessions[s] # Nobody
  /\ LET o == sessions[s] IN
     /\ managed[o].status # "running" /\ Drained(o)
     /\ ~\E c \in Callers : /\ caller[c] # Idle /\ caller[c].pc # "discard"
                            /\ caller[c].object = o
     /\ Evicting(o, managed)
  /\ UNCHANGED <<sessions, lockOf, meta, caller, persisting, asked, deaths, history>>

-----------------------------------------------------------------------------
Request(c) ==
  \/ \E s \in Sids : Send(c, s) \/ Attach(c, s) \/ Create(c, s)
  \/ /\ caller[c] # Idle
     /\ \/ Find(c) \/ Acquire(c) \/ Discard(c)
        \/ Room(c) \/ NoRoom(c) \/ RoomMade(c) \/ \E o \in Active : MakeRoom(c, o)
        \/ Register(c) \/ Started(c) \/ StartFails(c)
        \/ WriteRunning(c) \/ Query(c) \/ Failed(c) \/ Named(c) \/ NamingFails(c)
        \/ CleanedUp(c)

Inside(o) ==
  \/ MakeRow(o) \/ RowFails(o) \/ SwapKeys(o) \/ Finalize(o) \/ Finalized(o) \/ Die(o) \/ PersistError(o)
  \/ Result(o)
  \/ TimerEnded(o) \/ Disconnected(o) \/ Evicted(o)
  \/ Cleanup(o) \/ CleanupDead(o) \/ CleanupNothing(o)

Next ==
  \/ \E c \in Callers : Request(c)
  \/ \E o \in DOMAIN managed : Inside(o)
  \/ \E s \in Sids : Interrupt(s) \/ Patrol(s)

Spec == Init /\ [][Next]_vars

-----------------------------------------------------------------------------
(* Properties.                                                             *)

\* While an actor has a turn to run or a result to settle its session is shown
\* as running, so that neither the limit nor the timers nor the patrol evict
\* it, unless two requests overlapped.
TurnShown ==
  \A o \in DOMAIN managed \ overlapped :
    Live(o) /\ (managed[o].turns > 0 \/ managed[o].inbox > 0) => managed[o].status = "running"

Quiet ==
  /\ \A c \in Callers : caller[c] = Idle
  /\ \A o \in DOMAIN managed : ~Busy(o) /\ managed[o].evict \in {"no", "done"}
  /\ persisting = {}

\* When nothing is left to do no session is shown as running, neither by its
\* object nor in the database, and so none refuses messages for good.  Only these
\* are: an object made from a row that was read as running; one evicted during a
\* turn; a row made for an object its request has dropped or was to drop, or whose
\* actor was over without a result, or died in a turn between row and key.
SettledWhenQuiet ==
  Quiet => \A s \in Sids : Status(s) = "running" => s \in stale

Admitted == {c \in Callers : caller[c].pc \in {"evicting", "build"}}

\* Requests that connect at the same time do not count each other, and an
\* eviction admits one: the sessions there are and those admitted exceed the
\* limit by less than the number of the requests.
WithinLimit == Cardinality(Active) + Cardinality(Admitted) < MaxActive + Cardinality(Callers)

\* The request that dropped the object waits for its disconnect.
Disconnecting(o) ==
  /\ managed[o].key \in Popped
  /\ \E c \in Callers : caller[c] # Idle /\ caller[c].pc = "cleanup" /\ caller[c].object = o

\* No actor runs outside the registry, but one that the request which dropped it is
\* disconnecting, and those of a session for which two objects were being made or
\* evicted at once.
NoneLeaked ==
  \A o \in DOMAIN managed :
    Live(o) /\ Sid(o) \notin collided =>
      \/ sessions[Sid(o)] = o
      \/ managed[o].key \in Temporary
      \/ Disconnecting(o)

\* No session is left running: _evict_one says that it sees to that.
NeverStuck == Quiet => \A s \in Sids : Status(s) # "running"
=============================================================================
