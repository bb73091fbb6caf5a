----------------------- MODULE SessionManager_proofs -----------------------
(***************************************************************************)
(* Proofs about SessionManager, for any number of sessions, requests,      *)
(* objects, queries and deaths.                                            *)
(***************************************************************************)
EXTENDS SessionManager, FiniteSetTheorems, TLAPS

Object ==
  [sid : Sids, key : Temporary \cup Popped \cup {"sid", "dropped"}, status : Statuses,
   actor : {"starting", "up", "over"}, turns : Nat, inbox : Nat, settling : BOOLEAN,
   timer : BOOLEAN, evict : {"no", "timer", "disconnect", "drain", "done"}]

Place == {"find", "lock", "discard", "capacity", "evicting", "build", "starting",
          "writing", "query", "failed", "naming", "cleanup"}
Written == {"absent", "running", "ended"}
Call ==
  [pc : Place, op : {"send", "attach", "create"}, sid : Sids, seen : Written,
   object : Nat, lock : Nat]

Objects == managed \in Seq(Object)
Calls == caller \in [Callers -> {Idle} \cup Call]

-----------------------------------------------------------------------------
(* What a step does to the objects and to the requests.                    *)

\* Nothing of an object but its timer changes.
Same(x) ==
  /\ managed'[x].sid = managed[x].sid /\ managed'[x].key = managed[x].key
  /\ managed'[x].status = managed[x].status /\ managed'[x].actor = managed[x].actor
  /\ managed'[x].turns = managed[x].turns /\ managed'[x].inbox = managed[x].inbox
  /\ managed'[x].settling = managed[x].settling /\ managed'[x].evict = managed[x].evict

\* No object but o is touched.
Touches(o) ==
  /\ Objects' /\ Len(managed') = Len(managed) /\ DOMAIN managed' = DOMAIN managed
  /\ \A x \in DOMAIN managed \ {o} : Same(x)
  /\ managed'[o].sid = managed[o].sid

TouchesNone ==
  /\ Objects' /\ Len(managed') = Len(managed) /\ DOMAIN managed' = DOMAIN managed
  /\ \A x \in DOMAIN managed : Same(x)

LEMMA NoneTouched ==
  ASSUME Objects, UNCHANGED managed
  PROVE  TouchesNone
  BY DEF Objects, TouchesNone, Same

LEMMA ObjectIs ==
  ASSUME Objects, NEW o \in DOMAIN managed
  PROVE  managed[o] \in Object
  BY DEF Objects

LEMMA OneTouched ==
  ASSUME Objects, NEW o \in DOMAIN managed, NEW r \in Object, r.sid = Sid(o),
         managed' = [managed EXCEPT ![o] = r]
  PROVE  Touches(o) /\ managed'[o] = r
  <1>1. Objects' /\ Len(managed') = Len(managed) /\ DOMAIN managed' = DOMAIN managed
    BY DEF Objects
  <1>2. managed'[o] = r /\ \A x \in DOMAIN managed \ {o} : managed'[x] = managed[x]
    BY DEF Objects
  <1> QED BY <1>1, <1>2 DEF Touches, Same, Sid

\* Two states of an object that differ in its timer only.
Alike(m, n) ==
  /\ m.sid = n.sid /\ m.key = n.key /\ m.status = n.status /\ m.actor = n.actor
  /\ m.turns = n.turns /\ m.inbox = n.inbox /\ m.settling = n.settling /\ m.evict = n.evict

LEMMA SeqExcept ==
  ASSUME NEW objects \in Seq(Object), NEW m \in DOMAIN objects, NEW q \in Object, NEW new,
         new = [objects EXCEPT ![m] = q]
  PROVE  /\ new \in Seq(Object) /\ Len(new) = Len(objects) /\ DOMAIN new = DOMAIN objects
         /\ new[m] = q /\ \A x \in DOMAIN objects \ {m} : new[x] = objects[x]
  OBVIOUS

Retimed(new, objects, m, b) == new = [objects EXCEPT ![m].timer = b]

LEMMA TimerSet ==
  ASSUME NEW objects \in Seq(Object), NEW m \in DOMAIN objects, NEW b \in BOOLEAN, NEW new,
         Retimed(new, objects, m, b)
  PROVE  /\ new \in Seq(Object) /\ Len(new) = Len(objects) /\ DOMAIN new = DOMAIN objects
         /\ \A x \in DOMAIN objects : Alike(new[x], objects[x])
  <1> DEFINE q == [objects[m] EXCEPT !.timer = b]
  <1>1. objects[m] \in Object
    OBVIOUS
  <1>2. q \in Object /\ Alike(q, objects[m])
    BY <1>1 DEF Object, Alike
  <1>3. new = [objects EXCEPT ![m] = q]
    BY DEF Retimed
  <1> HIDE DEF q
  <1>4. /\ new \in Seq(Object) /\ Len(new) = Len(objects) /\ DOMAIN new = DOMAIN objects
        /\ new[m] = q /\ \A x \in DOMAIN objects \ {m} : new[x] = objects[x]
    BY <1>2, <1>3, SeqExcept
  <1> QED BY <1>2, <1>4 DEF Alike

\* A cleanup that is called off is no change.
LEMMA TimerTouched ==
  ASSUME Objects, NEW o \in DOMAIN managed, managed' = [managed EXCEPT ![o].timer = FALSE]
  PROVE  TouchesNone
  <1>1. managed \in Seq(Object)
    BY DEF Objects
  <1>2. /\ managed' \in Seq(Object) /\ Len(managed') = Len(managed)
        /\ DOMAIN managed' = DOMAIN managed
        /\ \A x \in DOMAIN managed : Alike(managed'[x], managed[x])
    <2>1. Retimed(managed', managed, o, FALSE)
      BY DEF Retimed
    <2> QED BY <1>1, <2>1, TimerSet
  <1> QED BY <1>2 DEF Objects, TouchesNone, Same, Alike

\* After the object o became r a cleanup may be scheduled for its session.
LEMMA ThenScheduled ==
  ASSUME Objects, NEW o \in DOMAIN managed, NEW r \in Object, r.sid = Sid(o),
         sessions[Sid(o)] # Nobody => sessions[Sid(o)] \in DOMAIN managed,
         managed' = Scheduled([managed EXCEPT ![o] = r], o)
  PROVE  Touches(o) /\ Alike(managed'[o], r)
  <1> DEFINE objects == [managed EXCEPT ![o] = r]
  <1>1. /\ objects \in Seq(Object) /\ Len(objects) = Len(managed) /\ DOMAIN objects = DOMAIN managed
        /\ objects[o] = r /\ \A x \in DOMAIN managed \ {o} : objects[x] = managed[x]
    BY SeqExcept DEF Objects
  <1> HIDE DEF objects
  <1>2. managed' = objects \/ \E m \in DOMAIN objects : Retimed(managed', objects, m, TRUE)
    BY <1>1 DEF Scheduled, Retimed, objects
  <1>3. /\ managed' \in Seq(Object) /\ Len(managed') = Len(objects)
        /\ DOMAIN managed' = DOMAIN objects
        /\ \A x \in DOMAIN objects : Alike(managed'[x], objects[x])
    <2>1. CASE managed' = objects
      BY <1>1, <2>1 DEF Alike
    <2>2. CASE \E m \in DOMAIN objects : Retimed(managed', objects, m, TRUE)
      BY <1>1, <2>2, TimerSet
    <2> QED BY <1>2, <2>1, <2>2
  <1>4. ASSUME NEW x \in DOMAIN managed, x # o
        PROVE  Same(x)
    <2>1. Alike(managed'[x], objects[x]) /\ objects[x] = managed[x]
      BY <1>1, <1>3, <1>4
    <2> QED BY <2>1 DEF Alike, Same
  <1>5. Alike(managed'[o], r)
    BY <1>1, <1>3
  <1>6. managed'[o].sid = managed[o].sid
    BY <1>5 DEF Alike, Sid
  <1> QED BY <1>1, <1>3, <1>4, <1>5, <1>6 DEF Touches, Objects

LEMMA RetiredTouched ==
  ASSUME Objects, NEW o \in DOMAIN managed, managed' = Retired(o)
  PROVE  /\ Touches(o) /\ managed'[o].key = "dropped" /\ managed'[o].status = "closed"
         /\ managed'[o].actor = "over" /\ managed'[o].turns = 0 /\ managed'[o].inbox = 0
         /\ managed'[o].settling = FALSE
         /\ managed'[o].evict = IF UnderEviction(o) THEN managed[o].evict ELSE "done"
  <1> DEFINE e == IF UnderEviction(o) THEN managed[o].evict ELSE "done"
             r == [NewObject(Sid(o), "closed", "dropped") EXCEPT !.actor = "over", !.evict = e]
  <1>1. managed[o] \in Object
    BY ObjectIs
  <1>2. /\ r \in Object /\ r.sid = Sid(o) /\ r.key = "dropped" /\ r.status = "closed"
        /\ r.actor = "over" /\ r.turns = 0 /\ r.inbox = 0 /\ r.settling = FALSE /\ r.evict = e
    BY <1>1 DEF Object, NewObject, Sid, Statuses
  <1>3. managed' = [managed EXCEPT ![o] = r]
    BY DEF Retired
  <1> HIDE DEF r
  <1> QED BY <1>2, <1>3, OneTouched

-----------------------------------------------------------------------------

\* No request but c goes on.
Others(c) == Calls' /\ \A d \in Callers \ {c} : caller'[d] = caller[d]

LEMMA CallGoes ==
  ASSUME Calls, NEW c \in Callers, NEW r \in {Idle} \cup Call, caller' = [caller EXCEPT ![c] = r]
  PROVE  Others(c) /\ caller'[c] = r
  BY DEF Calls, Others

LEMMA CallLeaves ==
  ASSUME Calls, NEW c \in Callers, Leave(c)
  PROVE  Others(c) /\ caller'[c] = Idle
  BY DEF Calls, Others, Leave

LEMMA CallIs ==
  ASSUME Calls, NEW c \in Callers, caller[c] # Idle
  PROVE  caller[c] \in Call
  BY DEF Calls

LEMMA CallIsNow ==
  ASSUME Calls, NEW c \in Callers, caller[c] # Idle, NEW p \in Place, Now(c, p)
  PROVE  /\ Others(c) /\ caller'[c] \in Call /\ caller'[c] # Idle /\ caller'[c].pc = p
         /\ caller'[c].op = caller[c].op /\ caller'[c].sid = caller[c].sid
         /\ caller'[c].seen = caller[c].seen /\ caller'[c].object = caller[c].object
         /\ caller'[c].lock = caller[c].lock
  <1> DEFINE r == [caller[c] EXCEPT !.pc = p]
  <1>1. caller[c] \in Call
    BY CallIs
  <1>2. /\ r \in Call /\ r.pc = p /\ r.op = caller[c].op /\ r.sid = caller[c].sid
        /\ r.seen = caller[c].seen /\ r.object = caller[c].object /\ r.lock = caller[c].lock
    BY <1>1 DEF Call
  <1>3. caller' = [caller EXCEPT ![c] = r]
    BY DEF Now, Calls
  <1>4. p # "idle"
    BY DEF Place
  <1> HIDE DEF r
  <1>5. r # Idle
    BY <1>2, <1>4 DEF Idle
  <1> QED BY <1>2, <1>3, <1>5, CallGoes

-----------------------------------------------------------------------------
(* The objects after each step.                                            *)

Becomes(o, key, status, actor, turns, inbox, settling, evict) ==
  /\ Touches(o) /\ managed'[o].key = key /\ managed'[o].status = status
  /\ managed'[o].actor = actor /\ managed'[o].turns = turns /\ managed'[o].inbox = inbox
  /\ managed'[o].settling = settling /\ managed'[o].evict = evict

LEMMA Becoming ==
  ASSUME Objects, NEW o \in DOMAIN managed, NEW r \in Object, r.sid = Sid(o),
         managed' = [managed EXCEPT ![o] = r]
  PROVE  Becomes(o, r.key, r.status, r.actor, r.turns, r.inbox, r.settling, r.evict)
  BY OneTouched DEF Becomes

\* Only the key of the object o changes.
LEMMA Rekeyed ==
  ASSUME Objects, NEW o \in DOMAIN managed, NEW k \in Temporary \cup Popped \cup {"sid", "dropped"},
         managed' = [managed EXCEPT ![o].key = k]
  PROVE  Becomes(o, k, managed[o].status, managed[o].actor,
                 managed[o].turns, managed[o].inbox, managed[o].settling, managed[o].evict)
  <1> DEFINE r == [managed[o] EXCEPT !.key = k]
  <1>1. managed[o] \in Object
    BY ObjectIs
  <1>2. r \in Object
    BY <1>1 DEF Object
  <1>3. /\ r.sid = Sid(o)
        /\ r.key = k /\ r.status = managed[o].status /\ r.actor = managed[o].actor
        /\ r.turns = managed[o].turns /\ r.inbox = managed[o].inbox /\ r.settling = managed[o].settling
        /\ r.evict = managed[o].evict
    BY <1>1 DEF Object, Sid
  <1>4. managed' = [managed EXCEPT ![o] = r]
    BY DEF Objects
  <1> HIDE DEF r
  <1> QED BY <1>2, <1>3, <1>4, Becoming

LEMMA MakeRowObject ==
  ASSUME Objects, NEW o \in DOMAIN managed, MakeRow(o)
  PROVE  Becomes(o, IF managed[o].key = "temp" THEN "created" ELSE "closing",
                 managed[o].status, managed[o].actor,
                 managed[o].turns, managed[o].inbox, managed[o].settling, managed[o].evict)
  <1> DEFINE k == IF managed[o].key = "temp" THEN "created" ELSE "closing"
  <1>1. k \in Temporary \cup Popped \cup {"sid", "dropped"}
    BY DEF Temporary, Popped
  <1>2. managed' = [managed EXCEPT ![o].key = k]
    BY DEF MakeRow, Objects
  <1> HIDE DEF k
  <1>3. Becomes(o, k, managed[o].status, managed[o].actor,
                managed[o].turns, managed[o].inbox, managed[o].settling, managed[o].evict)
    BY <1>1, <1>2, Rekeyed
  <1> QED BY <1>3 DEF k

LEMMA RowFailsObject ==
  ASSUME Objects, NEW o \in DOMAIN managed, RowFails(o)
  PROVE  Becomes(o, IF managed[o].key = "temp" THEN "unnamed" ELSE "closing",
                 managed[o].status, managed[o].actor,
                 managed[o].turns, managed[o].inbox, managed[o].settling, managed[o].evict)
  <1> DEFINE k == IF managed[o].key = "temp" THEN "unnamed" ELSE "closing"
  <1>1. k \in Temporary \cup Popped \cup {"sid", "dropped"}
    BY DEF Temporary, Popped
  <1>2. managed' = [managed EXCEPT ![o].key = k]
    BY DEF RowFails, Objects
  <1> HIDE DEF k
  <1>3. Becomes(o, k, managed[o].status, managed[o].actor,
                managed[o].turns, managed[o].inbox, managed[o].settling, managed[o].evict)
    BY <1>1, <1>2, Rekeyed
  <1> QED BY <1>3 DEF k

LEMMA SwapKeysObject ==
  ASSUME Objects, NEW o \in DOMAIN managed, SwapKeys(o)
  PROVE  Becomes(o, "sid",
                 managed[o].status, managed[o].actor,
                 managed[o].turns, managed[o].inbox, managed[o].settling, managed[o].evict)
  <1> DEFINE k == "sid"
  <1>1. k \in Temporary \cup Popped \cup {"sid", "dropped"}
    BY DEF Temporary, Popped
  <1>2. managed' = [managed EXCEPT ![o].key = k]
    BY DEF SwapKeys, Objects
  <1> HIDE DEF k
  <1>3. Becomes(o, k, managed[o].status, managed[o].actor,
                managed[o].turns, managed[o].inbox, managed[o].settling, managed[o].evict)
    BY <1>1, <1>2, Rekeyed
  <1> QED BY <1>3 DEF k

LEMMA ResultObject ==
  ASSUME Objects, NEW o \in DOMAIN managed, Result(o)
  PROVE  Becomes(o, managed[o].key, managed[o].status, managed[o].actor,
                 managed[o].turns - 1, managed[o].inbox + 1, managed[o].settling, managed[o].evict)
  <1> DEFINE r == [managed[o] EXCEPT !.turns = @ - 1, !.inbox = @ + 1]
  <1>1. managed[o] \in Object
    BY ObjectIs
  <1>2. r \in Object
    <2>1. managed[o].turns - 1 \in Nat /\ managed[o].inbox + 1 \in Nat
      BY <1>1 DEF Object, Result
    <2> QED BY <1>1, <2>1 DEF Object
  <1>3. /\ r.sid = Sid(o)
        /\ r.key = managed[o].key /\ r.status = managed[o].status /\ r.actor = managed[o].actor
        /\ r.turns = managed[o].turns - 1 /\ r.inbox = managed[o].inbox + 1 /\ r.settling = managed[o].settling
        /\ r.evict = managed[o].evict
    BY <1>1 DEF Object, Sid
  <1>4. managed' = [managed EXCEPT ![o] = r]
    BY DEF Result, Objects
  <1> HIDE DEF r
  <1> QED BY <1>2, <1>3, <1>4, Becoming

LEMMA FinalizeObject ==
  ASSUME Objects, NEW o \in DOMAIN managed, Finalize(o)
  PROVE  Becomes(o, managed[o].key, "ended", managed[o].actor,
                 managed[o].turns, managed[o].inbox - 1, TRUE, managed[o].evict)
  <1> DEFINE r == [managed[o] EXCEPT !.inbox = @ - 1, !.settling = TRUE, !.status = "ended"]
  <1>1. managed[o] \in Object
    BY ObjectIs
  <1>2. r \in Object
    <2>1. managed[o].inbox - 1 \in Nat
      BY <1>1 DEF Object, Finalize
    <2> QED BY <1>1, <2>1 DEF Object, Statuses
  <1>3. /\ r.sid = Sid(o)
        /\ r.key = managed[o].key /\ r.status = "ended" /\ r.actor = managed[o].actor
        /\ r.turns = managed[o].turns /\ r.inbox = managed[o].inbox - 1 /\ r.settling = TRUE
        /\ r.evict = managed[o].evict
    BY <1>1 DEF Object, Sid
  <1>4. managed' = [managed EXCEPT ![o] = r]
    BY DEF Finalize, Objects
  <1> HIDE DEF r
  <1> QED BY <1>2, <1>3, <1>4, Becoming

LEMMA TimerEndedObject ==
  ASSUME Objects, NEW o \in DOMAIN managed, TimerEnded(o)
  PROVE  Becomes(o, managed[o].key, managed[o].status, managed[o].actor,
                 managed[o].turns, managed[o].inbox, managed[o].settling, "disconnect")
  <1> DEFINE r == [managed[o] EXCEPT !.evict = "disconnect"]
  <1>1. managed[o] \in Object
    BY ObjectIs
  <1>2. r \in Object
    BY <1>1 DEF Object
  <1>3. /\ r.sid = Sid(o)
        /\ r.key = managed[o].key /\ r.status = managed[o].status /\ r.actor = managed[o].actor
        /\ r.turns = managed[o].turns /\ r.inbox = managed[o].inbox /\ r.settling = managed[o].settling
        /\ r.evict = "disconnect"
    BY <1>1 DEF Object, Sid
  <1>4. managed' = [managed EXCEPT ![o] = r]
    BY DEF TimerEnded, Objects
  <1> HIDE DEF r
  <1> QED BY <1>2, <1>3, <1>4, Becoming

\* _evict_one begins: o is under eviction.
LEMMA EvictingObject ==
  ASSUME Objects, NEW o \in DOMAIN managed, NEW x \in DOMAIN managed,
         \/ Evicting(o, managed)
         \/ Evicting(o, [managed EXCEPT ![x].timer = FALSE])
  PROVE  \E e \in {"timer", "disconnect"} :
           Becomes(o, managed[o].key, managed[o].status, managed[o].actor,
                   managed[o].turns, managed[o].inbox, managed[o].settling, e)
  <1>1. PICK objects \in Seq(Object) :
          /\ Evicting(o, objects) /\ Len(objects) = Len(managed) /\ DOMAIN objects = DOMAIN managed
          /\ \A y \in DOMAIN managed : Alike(objects[y], managed[y])
    <2>1. CASE Evicting(o, managed)
      BY <2>1 DEF Alike, Objects
    <2>2. CASE Evicting(o, [managed EXCEPT ![x].timer = FALSE])
      <3> DEFINE off == [managed EXCEPT ![x].timer = FALSE]
      <3>1. Retimed(off, managed, x, FALSE) /\ managed \in Seq(Object)
        BY DEF Retimed, Objects
      <3> HIDE DEF off
      <3>2. /\ off \in Seq(Object) /\ Len(off) = Len(managed) /\ DOMAIN off = DOMAIN managed
            /\ \A y \in DOMAIN managed : Alike(off[y], managed[y])
        BY <3>1, TimerSet
      <3>3. Evicting(o, off)
        BY <2>2 DEF off
      <3> QED BY <3>2, <3>3
    <2> QED BY <2>1, <2>2
  <1> DEFINE e == IF objects[o].timer THEN "timer" ELSE "disconnect"
             r == [objects[o] EXCEPT !.timer = FALSE, !.evict = e]
  <1>2. objects[o] \in Object /\ e \in {"timer", "disconnect"}
    BY <1>1
  <1> HIDE DEF e
  <1>3. r \in Object
    BY <1>2 DEF Object
  <1>4. /\ r.sid = objects[o].sid
        /\ r.key = objects[o].key /\ r.status = objects[o].status /\ r.actor = objects[o].actor
        /\ r.turns = objects[o].turns /\ r.inbox = objects[o].inbox /\ r.settling = objects[o].settling
        /\ r.evict = e
    BY <1>2 DEF Object
  <1>5. managed' = [objects EXCEPT ![o] = r]
    BY <1>1 DEF Evicting, e
  <1> HIDE DEF r
  <1>6. /\ managed' \in Seq(Object) /\ Len(managed') = Len(objects) /\ DOMAIN managed' = DOMAIN objects
        /\ managed'[o] = r /\ \A y \in DOMAIN objects \ {o} : managed'[y] = objects[y]
    BY <1>1, <1>3, <1>5
  <1>7. Alike(objects[o], managed[o])
    BY <1>1
  <1>8. ASSUME NEW y \in DOMAIN managed \ {o}
        PROVE  Same(y)
    <2>1. Alike(objects[y], managed[y]) /\ managed'[y] = objects[y]
      BY <1>1, <1>6
    <2> QED BY <2>1 DEF Alike, Same
  <1>9. Touches(o)
    BY <1>1, <1>4, <1>6, <1>7, <1>8 DEF Touches, Objects, Alike
  <1> QED BY <1>2, <1>4, <1>6, <1>7, <1>9 DEF Becomes, Alike

LEMMA DisconnectedObject ==
  ASSUME Objects, NEW o \in DOMAIN managed, Disconnected(o)
  PROVE  \E status \in {"closed", "ended"} :
           Becomes(o, managed[o].key, status, "over", 0, managed[o].inbox, managed[o].settling, "drain")
  <1>1. PICK status \in {"closed", "ended"} :
          managed' = [managed EXCEPT ![o].evict = "drain", ![o].actor = "over", ![o].turns = 0,
                                     ![o].status = status]
    BY DEF Disconnected
  <1> DEFINE r == [managed[o] EXCEPT !.evict = "drain", !.actor = "over", !.turns = 0, !.status = status]
  <1>2. managed[o] \in Object
    BY ObjectIs
  <1>3. r \in Object
    BY <1>2 DEF Object, Statuses
  <1>4. /\ r.sid = Sid(o)
        /\ r.key = managed[o].key /\ r.status = status /\ r.actor = "over" /\ r.turns = 0
        /\ r.inbox = managed[o].inbox /\ r.settling = managed[o].settling /\ r.evict = "drain"
    BY <1>2 DEF Object, Sid
  <1>5. managed' = [managed EXCEPT ![o] = r]
    BY <1>1 DEF Objects
  <1> HIDE DEF r
  <1> QED BY <1>3, <1>4, <1>5, Becoming

LEMMA RetiredObject ==
  ASSUME Objects, NEW o \in DOMAIN managed, managed' = Retired(o)
  PROVE  Becomes(o, "dropped", "closed", "over", 0, 0, FALSE,
                 IF UnderEviction(o) THEN managed[o].evict ELSE "done")
  BY RetiredTouched DEF Becomes

LEMMA EvictedObject ==
  ASSUME Objects, NEW o \in DOMAIN managed, Evicted(o)
  PROVE  Becomes(o, "dropped", "closed", "over", 0, 0, FALSE, "done")
  <1> DEFINE r == [NewObject(Sid(o), "closed", "dropped") EXCEPT !.actor = "over", !.evict = "done"]
  <1>1. managed[o] \in Object
    BY ObjectIs
  <1>2. /\ r \in Object /\ r.sid = Sid(o) /\ r.key = "dropped" /\ r.status = "closed"
        /\ r.actor = "over" /\ r.turns = 0 /\ r.inbox = 0 /\ r.settling = FALSE /\ r.evict = "done"
    BY <1>1 DEF Object, NewObject, Sid, Statuses
  <1> DEFINE e == IF UnderEviction(o) THEN managed[o].evict ELSE "done"
             q == [NewObject(Sid(o), "closed", "dropped") EXCEPT !.actor = "over", !.evict = e]
  <1>3. r = [q EXCEPT !.evict = "done"]
    BY DEF NewObject
  <1>4. managed' = [[managed EXCEPT ![o] = q] EXCEPT ![o] = [q EXCEPT !.evict = "done"]]
    BY DEF Evicted, Retired, Objects
  <1> HIDE DEF q
  <1>5. managed' = [managed EXCEPT ![o] = r]
    BY <1>3, <1>4 DEF Objects
  <1> HIDE DEF r
  <1> QED BY <1>2, <1>5, Becoming

LEMMA DieObject ==
  ASSUME Objects, NEW o \in DOMAIN managed, Die(o),
         sessions[Sid(o)] # Nobody => sessions[Sid(o)] \in DOMAIN managed
  PROVE  Becomes(o, managed[o].key, "ended", "over", 0, managed[o].inbox, managed[o].settling,
                 managed[o].evict)
  <1> DEFINE r == [managed[o] EXCEPT !.actor = "over", !.turns = 0, !.status = "ended"]
  <1>1. managed[o] \in Object
    BY ObjectIs
  <1>2. r \in Object /\ Sid(o) \in Sids
    BY <1>1 DEF Object, Statuses, Sid
  <1>3. /\ r.sid = Sid(o)
        /\ r.key = managed[o].key /\ r.status = "ended" /\ r.actor = "over" /\ r.turns = 0
        /\ r.inbox = managed[o].inbox /\ r.settling = managed[o].settling /\ r.evict = managed[o].evict
    BY <1>1 DEF Object, Sid
  <1>4. [managed EXCEPT ![o].actor = "over", ![o].turns = 0, ![o].status = "ended"]
          = [managed EXCEPT ![o] = r]
    BY DEF Objects
  <1> HIDE DEF r
  <1>5. managed' = Scheduled([managed EXCEPT ![o] = r], o)
    BY <1>4 DEF Die
  <1>6. Touches(o) /\ Alike(managed'[o], r)
    BY <1>2, <1>3, <1>5, ThenScheduled
  <1> QED BY <1>3, <1>6 DEF Becomes, Alike

LEMMA FinalizedObject ==
  ASSUME Objects, NEW o \in DOMAIN managed, Finalized(o),
         sessions[Sid(o)] # Nobody => sessions[Sid(o)] \in DOMAIN managed
  PROVE  Becomes(o, managed[o].key, managed[o].status, managed[o].actor,
                 managed[o].turns, managed[o].inbox, FALSE, managed[o].evict)
  <1> DEFINE r == [managed[o] EXCEPT !.settling = FALSE]
  <1>1. managed[o] \in Object
    BY ObjectIs
  <1>2. r \in Object /\ Sid(o) \in Sids
    BY <1>1 DEF Object, Sid
  <1>3. /\ r.sid = Sid(o)
        /\ r.key = managed[o].key /\ r.status = managed[o].status /\ r.actor = managed[o].actor
        /\ r.turns = managed[o].turns /\ r.inbox = managed[o].inbox /\ r.settling = FALSE
        /\ r.evict = managed[o].evict
    BY <1>1 DEF Object, Sid
  <1>4. [managed EXCEPT ![o].settling = FALSE] = [managed EXCEPT ![o] = r]
    BY DEF Objects
  <1> HIDE DEF r
  <1>5. managed' = Scheduled([managed EXCEPT ![o] = r], o)
    BY <1>4 DEF Finalized
  <1>6. Touches(o) /\ Alike(managed'[o], r)
    BY <1>2, <1>3, <1>5, ThenScheduled
  <1> QED BY <1>3, <1>6 DEF Becomes, Alike


-----------------------------------------------------------------------------
(* The requests after each step.                                           *)

Moves(c, pc, object, seen) ==
  /\ Others(c) /\ caller'[c] \in Call /\ caller'[c] # Idle
  /\ caller'[c].op = caller[c].op /\ caller'[c].sid = caller[c].sid
  /\ caller'[c].pc = pc /\ caller'[c].object = object /\ caller'[c].seen = seen

Leaves(c) == Others(c) /\ caller'[c] = Idle

Begins(c, op, pc, s) ==
  /\ caller[c] = Idle /\ Others(c) /\ caller'[c] \in Call /\ caller'[c] # Idle
  /\ caller'[c].op = op /\ caller'[c].sid = s
  /\ caller'[c].pc = pc /\ caller'[c].object = Nobody /\ caller'[c].seen = meta[s]

LEMMA NotIdle ==
  ASSUME NEW r \in Call
  PROVE  r # Idle
  <1>1. r.pc # "idle"
    BY DEF Call, Place
  <1> QED BY <1>1 DEF Idle

LEMMA Moving ==
  ASSUME Calls, NEW c \in Callers, caller[c] # Idle, NEW r \in Call,
         r.op = caller[c].op, r.sid = caller[c].sid, caller' = [caller EXCEPT ![c] = r]
  PROVE  Moves(c, r.pc, r.object, r.seen)
  BY CallGoes, NotIdle DEF Moves

LEMMA MovingNow ==
  ASSUME Calls, NEW c \in Callers, caller[c] # Idle, NEW p \in Place, Now(c, p)
  PROVE  Moves(c, p, caller[c].object, caller[c].seen)
  BY CallIsNow DEF Moves

LEMMA Leaving ==
  ASSUME Calls, NEW c \in Callers, Leave(c)
  PROVE  Leaves(c)
  BY CallLeaves DEF Leaves

LEMMA Beginning ==
  ASSUME Calls, NEW c \in Callers, NEW s \in Sids, meta[s] \in Written
  PROVE  /\ Send(c, s) => Begins(c, "send", "find", s)
         /\ Attach(c, s) => Begins(c, "attach", "find", s)
         /\ Create(c, s) => Begins(c, "create", "capacity", s)
  <1>1. ASSUME NEW p \in {"find", "capacity"}, NEW op \in {"send", "attach", "create"}, caller[c] = Idle,
               caller' = [caller EXCEPT ![c] = [pc |-> p, op |-> op, sid |-> s, seen |-> meta[s],
                                                object |-> Nobody, lock |-> 0]]
        PROVE  Begins(c, op, p, s)
    <2> DEFINE r == [pc |-> p, op |-> op, sid |-> s, seen |-> meta[s], object |-> Nobody, lock |-> 0]
    <2>1. /\ r \in Call /\ r.op = op /\ r.sid = s /\ r.pc = p /\ r.object = Nobody /\ r.seen = meta[s]
      BY DEF Call, Place, Nobody
    <2> HIDE DEF r
    <2>2. caller' = [caller EXCEPT ![c] = r]
      BY <1>1 DEF r
    <2>3. Others(c) /\ caller'[c] = r /\ r # Idle
      BY <2>1, <2>2, CallGoes, NotIdle
    <2> QED BY <1>1, <2>1, <2>3 DEF Begins
  <1>2. ASSUME Send(c, s)
        PROVE  Begins(c, "send", "find", s)
    BY <1>1, <1>2 DEF Send
  <1>3. ASSUME Attach(c, s)
        PROVE  Begins(c, "attach", "find", s)
    BY <1>1, <1>3 DEF Attach
  <1>4. ASSUME Create(c, s)
        PROVE  Begins(c, "create", "capacity", s)
    <2>1. /\ caller[c] = Idle /\ meta[s] = "absent"
          /\ caller' = [caller EXCEPT ![c] =
               [pc |-> "capacity", op |-> "create", sid |-> s, seen |-> "absent",
                object |-> Nobody, lock |-> 0]]
      BY <1>4 DEF Create
    <2> QED BY <1>1, <2>1
  <1> QED BY <1>2, <1>3, <1>4

\* A message goes on with the object it has, unless a turn runs; a stream has it.
Arrives(c, o, status) ==
  \/ Leaves(c)
  \/ caller[c].op = "send" /\ status # "running" /\ Moves(c, "writing", o, "ended")

LEMMA Arriving ==
  ASSUME Calls, NEW c \in Callers, caller[c] # Idle, NEW o \in Nat, NEW objects,
         Arrive(c, o, objects)
  PROVE  /\ Arrives(c, o, objects[o].status)
         /\ managed' = objects \/ managed' = [objects EXCEPT ![o].timer = FALSE]
  <1>1. CASE Leave(c)
    BY <1>1, Leaving DEF Arrive, Arrives
  <1>2. CASE ~Leave(c)
    <2> DEFINE r == [caller[c] EXCEPT !.pc = "writing", !.object = o, !.seen = "ended", !.lock = 0]
    <2>1. caller[c] \in Call
      BY CallIs
    <2>2. /\ r \in Call /\ r.op = caller[c].op /\ r.sid = caller[c].sid
          /\ r.pc = "writing" /\ r.object = o /\ r.seen = "ended"
      BY <2>1 DEF Call, Place, Written
    <2>3. /\ caller[c].op = "send" /\ objects[o].status # "running"
          /\ managed' = [objects EXCEPT ![o].timer = FALSE]
          /\ caller' = [caller EXCEPT ![c] = r]
      BY <1>2 DEF Arrive, Calls
    <2> HIDE DEF r
    <2>4. Moves(c, "writing", o, "ended")
      BY <2>2, <2>3, Moving
    <2> QED BY <2>3, <2>4 DEF Arrives
  <1> QED BY <1>1, <1>2

LEMMA FindEffect ==
  ASSUME Objects, Calls, NEW c \in Callers, caller[c] # Idle, Find(c),
         sessions[caller[c].sid] # Nobody => sessions[caller[c].sid] \in DOMAIN managed,
         lockOf[caller[c].sid] \in Nat
  PROVE  /\ TouchesNone
         /\ \/ /\ Usable(caller[c].sid)
               /\ Arrives(c, sessions[caller[c].sid], managed[sessions[caller[c].sid]].status)
            \/ Moves(c, "lock", caller[c].object, caller[c].seen)
  <1>1. CASE Usable(caller[c].sid)
    <2> DEFINE o == sessions[caller[c].sid]
    <2>1. o \in DOMAIN managed /\ o \in Nat
      BY <1>1 DEF Usable, Objects
    <2>2. Arrive(c, o, managed)
      BY <1>1 DEF Find
    <2>3. /\ Arrives(c, o, managed[o].status)
          /\ managed' = managed \/ managed' = [managed EXCEPT ![o].timer = FALSE]
      BY <2>1, <2>2, Arriving
    <2>4. TouchesNone
      BY <2>1, <2>3, NoneTouched, TimerTouched
    <2> QED BY <1>1, <2>3, <2>4
  <1>2. CASE ~Usable(caller[c].sid)
    <2> DEFINE r == [caller[c] EXCEPT !.pc = "lock", !.lock = lockOf[caller[c].sid]]
    <2>1. caller[c] \in Call
      BY CallIs
    <2>2. /\ r \in Call /\ r.op = caller[c].op /\ r.sid = caller[c].sid
          /\ r.pc = "lock" /\ r.object = caller[c].object /\ r.seen = caller[c].seen
      BY <2>1 DEF Call, Place
    <2>3. caller' = [caller EXCEPT ![c] = r] /\ UNCHANGED managed
      BY <1>2 DEF Find, Calls
    <2> HIDE DEF r
    <2> QED BY <2>2, <2>3, Moving, NoneTouched
  <1> QED BY <1>1, <1>2

LEMMA AcquireEffect ==
  ASSUME Objects, Calls, NEW c \in Callers, caller[c] # Idle, Acquire(c),
         sessions[caller[c].sid] # Nobody => sessions[caller[c].sid] \in DOMAIN managed,
         meta[caller[c].sid] \in Written
  PROVE  LET s == caller[c].sid
             seen == IF caller[c].op = "send" THEN caller[c].seen ELSE meta[s]
         IN
         /\ TouchesNone
         /\ \/ /\ Usable(s) /\ UNCHANGED collided
               /\ Arrives(c, sessions[s], managed[sessions[s]].status)
            \/ /\ ~Usable(s) /\ sessions[s] # Nobody /\ s \notin disconnecting
               /\ collided' = IF Bypassed(s, caller[c].lock) THEN collided \cup {s} ELSE collided
               /\ Moves(c, "discard", sessions[s], seen)
            \/ /\ sessions[s] = Nobody \/ s \in disconnecting
               /\ collided' = IF Bypassed(s, caller[c].lock) THEN collided \cup {s} ELSE collided
               /\ Moves(c, "capacity", Nobody, seen)
  <1> DEFINE s == caller[c].sid
             dead == sessions[s] # Nobody /\ s \notin disconnecting
             seen == IF caller[c].op = "send" THEN caller[c].seen ELSE meta[s]
  <1>0. caller[c] \in Call
    BY CallIs
  <1>1. CASE Usable(s)
    <2> DEFINE o == sessions[s]
    <2>1. o \in DOMAIN managed /\ o \in Nat
      BY <1>1 DEF Usable, Objects
    <2>2. Arrive(c, o, managed) /\ UNCHANGED collided
      BY <1>1 DEF Acquire
    <2>3. /\ Arrives(c, o, managed[o].status)
          /\ managed' = managed \/ managed' = [managed EXCEPT ![o].timer = FALSE]
      BY <2>1, <2>2, Arriving
    <2>4. TouchesNone
      BY <2>1, <2>3, NoneTouched, TimerTouched
    <2> QED BY <1>1, <2>2, <2>3, <2>4
  <1>2. CASE ~Usable(s)
    <2> DEFINE p == IF dead THEN "discard" ELSE "capacity"
               o == IF dead THEN sessions[s] ELSE Nobody
               r == [caller[c] EXCEPT !.pc = p, !.object = o, !.seen = seen]
    <2>1. /\ p \in Place /\ o \in Nat /\ seen \in Written
      <3>1. dead => sessions[s] \in Nat
        BY DEF Objects
      <3>2. seen \in Written
        BY <1>0 DEF Call
      <3> QED BY <3>1, <3>2 DEF Place, Nobody
    <2> HIDE DEF p, o, seen
    <2>2. /\ r \in Call /\ r.op = caller[c].op /\ r.sid = caller[c].sid
          /\ r.pc = p /\ r.object = o /\ r.seen = seen
      BY <1>0, <2>1 DEF Call
    <2>3. /\ caller' = [caller EXCEPT ![c] = r] /\ UNCHANGED managed
          /\ collided' = IF Bypassed(s, caller[c].lock) THEN collided \cup {s} ELSE collided
      BY <1>2 DEF Acquire, Calls, p, o, seen
    <2> HIDE DEF r
    <2>4. Moves(c, p, o, seen) /\ TouchesNone
      BY <2>2, <2>3, Moving, NoneTouched
    <2>5. CASE dead
      BY <1>2, <2>3, <2>4, <2>5 DEF p, o, seen
    <2>6. CASE ~dead
      BY <1>2, <2>3, <2>4, <2>6 DEF p, o, seen
    <2> QED BY <2>5, <2>6
  <1> QED BY <1>1, <1>2

LEMMA DiscardEffect ==
  ASSUME Objects, Calls, NEW c \in Callers, caller[c] # Idle, Discard(c),
         caller[c].object \in DOMAIN managed
  PROVE  /\ Moves(c, "capacity", Nobody, caller[c].seen)
         /\ Becomes(caller[c].object, "dropped", "closed", "over", 0, 0, FALSE,
                    IF UnderEviction(caller[c].object) THEN managed[caller[c].object].evict ELSE "done")
  <1> DEFINE r == [caller[c] EXCEPT !.pc = "capacity", !.object = Nobody]
  <1>1. caller[c] \in Call
    BY CallIs
  <1>2. /\ r \in Call /\ r.op = caller[c].op /\ r.sid = caller[c].sid
        /\ r.pc = "capacity" /\ r.object = Nobody /\ r.seen = caller[c].seen
    BY <1>1 DEF Call, Place, Nobody
  <1>3. caller' = [caller EXCEPT ![c] = r] /\ managed' = Retired(caller[c].object)
    BY DEF Discard, Calls
  <1> HIDE DEF r
  <1> QED BY <1>2, <1>3, Moving, RetiredObject

LEMMA MakeRoomEffect ==
  ASSUME Objects, Calls, NEW c \in Callers, caller[c] # Idle, NEW o \in DOMAIN managed, MakeRoom(c, o)
  PROVE  /\ Moves(c, "evicting", o, caller[c].seen)
         /\ \E e \in {"timer", "disconnect"} :
              Becomes(o, managed[o].key, managed[o].status, managed[o].actor,
                      managed[o].turns, managed[o].inbox, managed[o].settling, e)
  <1> DEFINE r == [caller[c] EXCEPT !.pc = "evicting", !.object = o]
  <1>1. caller[c] \in Call /\ o \in Nat
    BY CallIs DEF Objects
  <1>2. /\ r \in Call /\ r.op = caller[c].op /\ r.sid = caller[c].sid
        /\ r.pc = "evicting" /\ r.object = o /\ r.seen = caller[c].seen
    BY <1>1 DEF Call, Place
  <1>3. caller' = [caller EXCEPT ![c] = r] /\ Evicting(o, managed)
    BY DEF MakeRoom, Calls
  <1> HIDE DEF r
  <1> QED BY <1>2, <1>3, Moving, EvictingObject

\* A new object o for s.
Adds(o, s, status, key) ==
  /\ o = Len(managed) + 1 /\ o \notin DOMAIN managed
  /\ Objects' /\ Len(managed') = o /\ DOMAIN managed' = DOMAIN managed \cup {o}
  /\ \A x \in DOMAIN managed : Same(x)
  /\ managed'[o].sid = s /\ managed'[o].key = key /\ managed'[o].status = status
  /\ managed'[o].actor = "starting" /\ managed'[o].turns = 0 /\ managed'[o].inbox = 0
  /\ managed'[o].settling = FALSE /\ managed'[o].evict = "no"

LEMMA Adding ==
  ASSUME Objects, NEW s \in Sids, NEW status \in Statuses, NEW key \in {"temp", "sid"},
         managed' = Append(managed, NewObject(s, status, key))
  PROVE  Adds(Len(managed) + 1, s, status, key)
  <1> DEFINE r == NewObject(s, status, key)
             o == Len(managed) + 1
  <1>1. /\ r \in Object /\ r.sid = s /\ r.key = key /\ r.status = status /\ r.actor = "starting"
        /\ r.turns = 0 /\ r.inbox = 0 /\ r.settling = FALSE /\ r.evict = "no"
    BY DEF Object, NewObject, Temporary
  <1>2. managed' = Append(managed, r)
    OBVIOUS
  <1> HIDE DEF r
  <1>3. /\ o \notin DOMAIN managed /\ Objects' /\ Len(managed') = o
        /\ DOMAIN managed' = DOMAIN managed \cup {o} /\ managed'[o] = r
        /\ \A x \in DOMAIN managed : managed'[x] = managed[x]
    BY <1>1, <1>2 DEF Objects
  <1> QED BY <1>1, <1>3 DEF Adds, Same

LEMMA RegisterEffect ==
  ASSUME Objects, Calls, NEW c \in Callers, caller[c] # Idle, Register(c),
         caller[c].op # "create" => caller[c].seen # "absent"
  PROVE  LET s == caller[c].sid
             o == Len(managed) + 1
         IN
         /\ Moves(c, "starting", o, caller[c].seen)
         /\ \/ /\ caller[c].op = "create" /\ Adds(o, s, "running", "temp")
               /\ UNCHANGED <<sessions, stale, collided>>
            \/ /\ caller[c].op # "create" /\ Adds(o, s, caller[c].seen, "sid")
               /\ sessions' = [sessions EXCEPT ![s] = o]
               /\ stale' = IF caller[c].seen = "running" THEN stale \cup {s} ELSE stale
               /\ collided' = IF \E x \in DOMAIN managed : Sid(x) = s /\ UnderEviction(x)
                              THEN collided \cup {s} ELSE collided
  <1> DEFINE s == caller[c].sid
             o == Len(managed) + 1
  <1>1. caller[c] \in Call /\ s \in Sids
    BY CallIs DEF Call
  <1>2. ASSUME caller[c].op = "create"
        PROVE  Adds(o, s, "running", "temp") /\ UNCHANGED <<sessions, stale, collided>>
    <2>1. managed' = Append(managed, NewObject(s, "running", "temp"))
          /\ UNCHANGED <<sessions, stale, collided>>
      BY <1>2 DEF Register
    <2>2. Adds(o, s, "running", "temp")
      BY <1>1, <2>1, Adding DEF Statuses
    <2> QED BY <2>1, <2>2
  <1>3. ASSUME caller[c].op # "create"
        PROVE  /\ Adds(o, s, caller[c].seen, "sid")
               /\ sessions' = [sessions EXCEPT ![s] = o]
               /\ stale' = IF caller[c].seen = "running" THEN stale \cup {s} ELSE stale
               /\ collided' = IF \E x \in DOMAIN managed : Sid(x) = s /\ UnderEviction(x)
                              THEN collided \cup {s} ELSE collided
    <2>1. /\ managed' = Append(managed, NewObject(s, caller[c].seen, "sid"))
          /\ sessions' = [sessions EXCEPT ![s] = o]
          /\ stale' = IF caller[c].seen = "running" THEN stale \cup {s} ELSE stale
          /\ collided' = IF \E x \in DOMAIN managed : Sid(x) = s /\ UnderEviction(x)
                         THEN collided \cup {s} ELSE collided
      BY <1>3 DEF Register
    <2>2. caller[c].seen \in Statuses
      BY <1>1, <1>3 DEF Call, Written, Statuses
    <2>3. Adds(o, s, caller[c].seen, "sid")
      BY <1>1, <2>1, <2>2, Adding
    <2> QED BY <2>1, <2>3
  <1>4. Moves(c, "starting", o, caller[c].seen)
    <2> DEFINE r == [caller[c] EXCEPT !.pc = "starting", !.object = o]
    <2>1. Len(managed') = o /\ o \in Nat
      <3>1. Len(managed) \in Nat
        BY DEF Objects
      <3>2. Len(managed') = o
        BY <1>2, <1>3 DEF Adds
      <3> QED BY <3>1, <3>2
    <2>2. /\ r \in Call /\ r.op = caller[c].op /\ r.sid = caller[c].sid
          /\ r.pc = "starting" /\ r.object = o /\ r.seen = caller[c].seen
      BY <1>1, <2>1 DEF Call, Place
    <2>3. caller' = [caller EXCEPT ![c] = r]
      BY <2>1 DEF Register, Calls
    <2> HIDE DEF r
    <2> QED BY <2>2, <2>3, Moving
  <1> QED BY <1>2, <1>3, <1>4

\* An actor that is over does not start again.
Begun(o) == IF managed[o].actor = "starting" THEN "up" ELSE managed[o].actor

LEMMA StartedEffect ==
  ASSUME Objects, Calls, NEW c \in Callers, caller[c] # Idle, Started(c),
         caller[c].object \in DOMAIN managed
  PROVE  LET o == caller[c].object IN
         /\ Becomes(o, managed[o].key, managed[o].status, Begun(o), managed[o].turns,
                    managed[o].inbox, managed[o].settling, managed[o].evict)
         /\ \/ caller[c].op = "create" /\ Moves(c, "query", o, caller[c].seen)
            \/ caller[c].op # "create" /\ Arrives(c, o, managed[o].status)
  <1> DEFINE o == caller[c].object
             r == [managed[o] EXCEPT !.actor = Begun(o)]
             up == [managed EXCEPT ![o].actor = IF @ = "starting" THEN "up" ELSE @]
  <1>1. managed[o] \in Object /\ o \in Nat
    BY ObjectIs DEF Objects
  <1>2. /\ r \in Object /\ r.sid = Sid(o) /\ r.key = managed[o].key /\ r.status = managed[o].status
        /\ r.actor = Begun(o) /\ r.turns = managed[o].turns /\ r.inbox = managed[o].inbox
        /\ r.settling = managed[o].settling /\ r.evict = managed[o].evict
    BY <1>1 DEF Object, Sid, Begun
  <1>3. up = [managed EXCEPT ![o] = r]
    BY DEF Objects, Begun
  <1> HIDE DEF r
  <1>4. /\ up \in Seq(Object) /\ Len(up) = Len(managed) /\ DOMAIN up = DOMAIN managed
        /\ up[o] = r /\ \A x \in DOMAIN managed \ {o} : up[x] = managed[x]
    <2>1. managed \in Seq(Object)
      BY DEF Objects
    <2> HIDE DEF up
    <2> QED BY <1>2, <1>3, <2>1, SeqExcept
  <1>5. /\ managed' = up \/ Retimed(managed', up, o, FALSE)
        /\ \/ caller[c].op = "create" /\ Moves(c, "query", o, caller[c].seen)
           \/ caller[c].op # "create" /\ Arrives(c, o, managed[o].status)
    <2>1. CASE caller[c].op = "create"
      <3>1. managed' = up /\ Now(c, "query")
        BY <2>1 DEF Started
      <3> QED BY <2>1, <3>1, MovingNow DEF Place
    <2>2. CASE caller[c].op # "create"
      <3>1. Arrive(c, o, up)
        BY <2>2 DEF Started
      <3> HIDE DEF up
      <3>2. /\ Arrives(c, o, up[o].status)
            /\ managed' = up \/ managed' = [up EXCEPT ![o].timer = FALSE]
        BY <1>1, <3>1, Arriving
      <3> QED BY <1>2, <1>4, <2>2, <3>2 DEF Retimed
    <2> QED BY <2>1, <2>2
  <1> HIDE DEF up
  <1>6. /\ managed' \in Seq(Object) /\ Len(managed') = Len(up) /\ DOMAIN managed' = DOMAIN up
        /\ \A x \in DOMAIN up : Alike(managed'[x], up[x])
    <2>1. CASE managed' = up
      BY <1>4, <2>1 DEF Alike
    <2>2. CASE Retimed(managed', up, o, FALSE)
      BY <1>4, <2>2, TimerSet
    <2> QED BY <1>5, <2>1, <2>2
  <1>7. ASSUME NEW x \in DOMAIN managed, x # o
        PROVE  Same(x)
    <2>1. Alike(managed'[x], up[x]) /\ up[x] = managed[x]
      BY <1>4, <1>6, <1>7
    <2> QED BY <2>1 DEF Alike, Same
  <1>8. Alike(managed'[o], r)
    BY <1>4, <1>6
  <1> QED BY <1>2, <1>4, <1>5, <1>6, <1>7, <1>8 DEF Becomes, Touches, Objects, Alike, Sid

\* The actor refuses a query, or takes it.
LEMMA QueryEffect ==
  ASSUME Objects, Calls, NEW c \in Callers, caller[c] # Idle, Query(c),
         caller[c].object \in DOMAIN managed
  PROVE  LET o == caller[c].object IN
         /\ overlapped' = IF Busy(o) THEN overlapped \cup {o} ELSE overlapped
         /\ \/ /\ Refuses(o) /\ UNCHANGED asked
               /\ Becomes(o, managed[o].key, "ended", managed[o].actor, managed[o].turns,
                          managed[o].inbox, managed[o].settling, managed[o].evict)
               /\ Moves(c, "failed", o, caller[c].seen)
            \/ /\ ~Refuses(o) /\ asked' = asked + 1
               /\ Becomes(o, managed[o].key, "running", managed[o].actor, managed[o].turns + 1,
                          managed[o].inbox, managed[o].settling, managed[o].evict)
               /\ \/ caller[c].op = "create" /\ Moves(c, "naming", o, caller[c].seen)
                  \/ caller[c].op # "create" /\ Leaves(c)
  <1> DEFINE o == caller[c].object
  <1>1. managed[o] \in Object
    BY ObjectIs
  <1>2. CASE Refuses(o)
    <2> DEFINE r == [managed[o] EXCEPT !.status = "ended"]
    <2>1. managed' = [managed EXCEPT ![o] = r] /\ Now(c, "failed") /\ UNCHANGED asked
      BY <1>2 DEF Query, Objects
    <2>2. /\ r \in Object /\ r.sid = Sid(o) /\ r.key = managed[o].key /\ r.status = "ended"
          /\ r.actor = managed[o].actor /\ r.turns = managed[o].turns /\ r.inbox = managed[o].inbox
          /\ r.settling = managed[o].settling /\ r.evict = managed[o].evict
      BY <1>1 DEF Object, Sid, Statuses
    <2> HIDE DEF r
    <2>3. Becomes(o, managed[o].key, "ended", managed[o].actor, managed[o].turns,
                  managed[o].inbox, managed[o].settling, managed[o].evict)
      BY <2>1, <2>2, Becoming
    <2>4. Moves(c, "failed", o, caller[c].seen)
      BY <2>1, MovingNow DEF Place
    <2> QED BY <1>2, <2>1, <2>3, <2>4 DEF Query
  <1>3. CASE ~Refuses(o)
    <2> DEFINE r == [managed[o] EXCEPT !.status = "running", !.turns = @ + 1]
    <2>1. /\ managed' = [managed EXCEPT ![o] = r] /\ asked' = asked + 1
          /\ IF caller[c].op = "create" THEN Now(c, "naming") ELSE Leave(c)
      BY <1>3 DEF Query, Objects
    <2>2. /\ r \in Object /\ r.sid = Sid(o) /\ r.key = managed[o].key /\ r.status = "running"
          /\ r.actor = managed[o].actor /\ r.turns = managed[o].turns + 1 /\ r.inbox = managed[o].inbox
          /\ r.settling = managed[o].settling /\ r.evict = managed[o].evict
      <3>1. managed[o].turns + 1 \in Nat
        BY <1>1 DEF Object
      <3> QED BY <1>1, <3>1 DEF Object, Sid, Statuses
    <2> HIDE DEF r
    <2>3. Becomes(o, managed[o].key, "running", managed[o].actor, managed[o].turns + 1,
                  managed[o].inbox, managed[o].settling, managed[o].evict)
      BY <2>1, <2>2, Becoming
    <2>4. \/ caller[c].op = "create" /\ Moves(c, "naming", o, caller[c].seen)
          \/ caller[c].op # "create" /\ Leaves(c)
      BY <2>1, MovingNow, Leaving DEF Place
    <2> QED BY <1>3, <2>1, <2>3, <2>4 DEF Query
  <1> QED BY <1>2, <1>3

LEMMA NamingFailsEffect ==
  ASSUME Objects, Calls, NEW c \in Callers, caller[c] # Idle, NamingFails(c),
         caller[c].object \in DOMAIN managed
  PROVE  LET o == caller[c].object IN
         /\ Moves(c, "cleanup", o, caller[c].seen)
         /\ Becomes(o, IF managed[o].key = "temp" THEN "popped" ELSE "closing",
                    managed[o].status, managed[o].actor, managed[o].turns,
                    managed[o].inbox, managed[o].settling, managed[o].evict)
  <1> DEFINE o == caller[c].object
             k == IF managed[o].key = "temp" THEN "popped" ELSE "closing"
  <1>1. k \in Temporary \cup Popped \cup {"sid", "dropped"}
    BY DEF Popped
  <1>2. managed' = [managed EXCEPT ![o].key = k] /\ Now(c, "cleanup")
    BY DEF NamingFails, Objects
  <1> HIDE DEF k
  <1>3. Becomes(o, k, managed[o].status, managed[o].actor,
                managed[o].turns, managed[o].inbox, managed[o].settling, managed[o].evict)
    BY <1>1, <1>2, Rekeyed
  <1> QED BY <1>2, <1>3, MovingNow DEF k, Place

-----------------------------------------------------------------------------
(* Types.  A request that has an object has one of its session, and so has *)
(* the registry.                                                           *)

Held == {"discard", "starting", "writing", "query", "failed", "naming", "cleanup"}

HasObject(c) ==
  /\ caller[c].pc \in Held =>
       caller[c].object \in DOMAIN managed /\ Sid(caller[c].object) = caller[c].sid
  /\ caller[c].pc = "evicting" => caller[c].object \in DOMAIN managed

HaveObjects == \A c \in Callers : caller[c] # Idle => HasObject(c)

Known == \A s \in Sids : sessions[s] # Nobody =>
  sessions[s] \in DOMAIN managed /\ Sid(sessions[s]) = s

\* No object has more queries than were given.
Fits == \A o \in DOMAIN managed : managed[o].turns + managed[o].inbox <= asked

Base ==
  /\ sessions \in [Sids -> Nat] /\ disconnecting \subseteq Sids /\ lockOf \in [Sids -> Nat]
  /\ meta \in [Sids -> Written] /\ stale \subseteq Sids /\ collided \subseteq Sids
  /\ asked \in 0 .. MaxQueries /\ deaths \in 0 .. MaxDeaths

Refs ==
  Len(managed) <= MaxObjects /\ persisting \subseteq DOMAIN managed /\ overlapped \subseteq DOMAIN managed

Typed == Objects /\ Calls /\ Known /\ HaveObjects /\ Base /\ Refs /\ Fits

\* No object goes, and none changes its session.
Grown ==
  /\ Objects' /\ DOMAIN managed \subseteq DOMAIN managed'
  /\ \A x \in DOMAIN managed : managed'[x].sid = managed[x].sid

Unregisters(s) == sessions' = [sessions EXCEPT ![s] = Nobody]

LEMMA ObjectsGrow ==
  ASSUME Objects,
         \/ TouchesNone
         \/ \E o \in DOMAIN managed : Touches(o)
         \/ \E o, s, status, key : Adds(o, s, status, key)
  PROVE  Grown
  BY DEF TouchesNone, Touches, Adds, Grown, Same

LEMMA FieldsTyped ==
  ASSUME Objects, NEW o \in DOMAIN managed
  PROVE  /\ Sid(o) \in Sids /\ managed[o].turns \in Nat /\ managed[o].inbox \in Nat
         /\ managed[o].settling \in BOOLEAN /\ managed[o].status \in Statuses
         /\ managed[o].key \in Temporary \cup Popped \cup {"sid", "dropped"}
         /\ managed[o].actor \in {"starting", "up", "over"}
         /\ managed[o].evict \in {"no", "timer", "disconnect", "drain", "done"}
  <1>1. managed[o] \in Object
    BY ObjectIs
  <1> QED BY <1>1 DEF Object, Sid

LEMMA HaveObjectsKept ==
  ASSUME HaveObjects, Grown, NEW c \in Callers, Others(c), caller'[c] = Idle \/ HasObject(c)'
  PROVE  HaveObjects'
  <1> SUFFICES ASSUME NEW d \in Callers, caller'[d] # Idle
               PROVE  HasObject(d)'
    BY DEF HaveObjects
  <1>1. CASE d = c
    BY <1>1
  <1>2. CASE d # c
    <2>1. caller'[d] = caller[d] /\ HasObject(d)
      BY <1>2 DEF Others, HaveObjects
    <2> QED BY <2>1 DEF HasObject, Grown, Sid
  <1> QED BY <1>1, <1>2

LEMMA HaveObjectsSame ==
  ASSUME HaveObjects, Grown, UNCHANGED caller
  PROVE  HaveObjects'
  BY DEF HaveObjects, HasObject, Grown, Sid

LEMMA KnownKept ==
  ASSUME Known, Grown, \A s \in Sids : sessions'[s] \in {sessions[s], Nobody}
  PROVE  Known'
  <1> SUFFICES ASSUME NEW s \in Sids, sessions'[s] # Nobody
               PROVE  sessions'[s] \in DOMAIN managed' /\ Sid(sessions[s])' = s
    BY DEF Known
  <1>1. sessions'[s] = sessions[s] /\ sessions[s] \in DOMAIN managed /\ Sid(sessions[s]) = s
    BY DEF Known
  <1> QED BY <1>1 DEF Grown, Sid

LEMMA FitsKept ==
  ASSUME Objects, Fits, asked \in Nat, asked' \in Nat, asked <= asked',
         \/ TouchesNone
         \/ \E o \in DOMAIN managed :
              Touches(o) /\ managed'[o].turns + managed'[o].inbox <= asked'
         \/ \E o, s, status, key : Adds(o, s, status, key)
  PROVE  Fits'
  <1> SUFFICES ASSUME NEW x \in DOMAIN managed'
               PROVE  managed'[x].turns + managed'[x].inbox <= asked'
    BY DEF Fits
  <1>1. ASSUME x \in DOMAIN managed, Same(x)
        PROVE  managed'[x].turns + managed'[x].inbox <= asked'
    BY <1>1, FieldsTyped DEF Fits, Same
  <1>2. CASE TouchesNone
    BY <1>1, <1>2 DEF TouchesNone
  <1>3. CASE \E o \in DOMAIN managed :
               Touches(o) /\ managed'[o].turns + managed'[o].inbox <= asked'
    BY <1>1, <1>3 DEF Touches
  <1>4. CASE \E o, s, status, key : Adds(o, s, status, key)
    BY <1>1, <1>4 DEF Adds
  <1> QED BY <1>2, <1>3, <1>4

\* A request goes on; of the objects only a timer changes.
LEMMA RequestTyped ==
  ASSUME Typed, NEW c \in Callers, Others(c), caller'[c] = Idle \/ HasObject(c)', TouchesNone,
         UNCHANGED <<sessions, disconnecting, lockOf, persisting, asked, deaths, overlapped, stale>>,
         meta' \in [Sids -> Written], collided' \subseteq Sids
  PROVE  Typed'
  <1>1. Grown
    BY ObjectsGrow DEF Typed
  <1>2. HaveObjects'
    BY <1>1, HaveObjectsKept DEF Typed
  <1>3. Known'
    BY <1>1, KnownKept DEF Typed
  <1>4. Fits'
    BY FitsKept DEF Typed, Base
  <1>5. Base' /\ Refs'
    BY DEF Typed, Base, Refs, TouchesNone
  <1> QED BY <1>1, <1>2, <1>3, <1>4, <1>5 DEF Typed, Grown, Others

\* An object changes, and it may be dropped from the registry.
LEMMA ObjectTyped ==
  ASSUME Typed, NEW o \in DOMAIN managed, Touches(o),
         asked <= asked', asked' \in 0 .. MaxQueries, managed'[o].turns + managed'[o].inbox <= asked',
         \/ UNCHANGED caller
         \/ \E c \in Callers : Others(c) /\ (caller'[c] = Idle \/ HasObject(c)'),
         sessions' = sessions \/ \E s \in Sids : Unregisters(s),
         disconnecting' \subseteq Sids, lockOf' \in [Sids -> Nat], meta' \in [Sids -> Written],
         stale' \subseteq Sids, UNCHANGED collided, deaths' \in 0 .. MaxDeaths,
         persisting' \subseteq persisting \cup {o}, overlapped' \subseteq overlapped \cup {o}
  PROVE  Typed'
  <1>1. Grown
    BY ObjectsGrow DEF Typed
  <1>2. HaveObjects' /\ Calls'
    BY <1>1, HaveObjectsKept, HaveObjectsSame DEF Typed, Others, Calls
  <1>3. Known' /\ sessions' \in [Sids -> Nat]
    <2>1. (\A s \in Sids : sessions'[s] \in {sessions[s], Nobody}) /\ sessions' \in [Sids -> Nat]
      BY DEF Typed, Base, Unregisters, Nobody
    <2> QED BY <1>1, <2>1, KnownKept DEF Typed
  <1>4. Fits'
    BY FitsKept DEF Typed, Base
  <1>5. Base' /\ Refs'
    BY <1>3 DEF Typed, Base, Refs, Touches
  <1> QED BY <1>1, <1>2, <1>3, <1>4, <1>5 DEF Typed, Grown

LEMMA TypedInit ==
  ASSUME Init
  PROVE  Typed
  <1>1. Objects /\ Calls
    BY DEF Init, Objects, Calls
  <1>2. Base
    BY SessionAssumption DEF Init, Base, Written, Nobody
  <1>3. Refs /\ Fits /\ Known
    BY SessionAssumption DEF Init, Refs, Fits, Known, Nobody
  <1>4. HaveObjects
    BY DEF Init, HaveObjects
  <1> QED BY <1>1, <1>2, <1>3, <1>4 DEF Typed

\* What is known of a request before its step.
LEMMA CallTyped ==
  ASSUME Typed, NEW c \in Callers, caller[c] # Idle
  PROVE  /\ Objects /\ Calls /\ HasObject(c) /\ caller[c] \in Call /\ caller[c].sid \in Sids
         /\ meta[caller[c].sid] \in Written /\ lockOf[caller[c].sid] \in Nat
         /\ sessions[caller[c].sid] # Nobody =>
              /\ sessions[caller[c].sid] \in DOMAIN managed
              /\ Sid(sessions[caller[c].sid]) = caller[c].sid
  <1>1. caller[c] \in Call
    BY CallIs DEF Typed
  <1>2. caller[c].sid \in Sids
    BY <1>1 DEF Call
  <1> QED BY <1>1, <1>2 DEF Typed, HaveObjects, Base, Known

LEMMA ArrivesTyped ==
  ASSUME NEW c \in Callers, NEW o \in DOMAIN managed, Sid(o) = caller[c].sid, NEW status,
         Arrives(c, o, status), DOMAIN managed \subseteq DOMAIN managed',
         managed'[o].sid = managed[o].sid
  PROVE  Others(c) /\ (caller'[c] = Idle \/ HasObject(c)')
  BY DEF Arrives, Leaves, Moves, HasObject, Held, Sid

LEMMA TypedSimpleRequest ==
  ASSUME Typed, NEW c \in Callers,
         \/ \E s \in Sids : Send(c, s) \/ Attach(c, s) \/ Create(c, s)
         \/ /\ caller[c] # Idle
            /\ Find(c) \/ Acquire(c) \/ Room(c) \/ NoRoom(c) \/ RoomMade(c) \/ WriteRunning(c) \/ Named(c)
  PROVE  Typed'
  <1>1. ASSUME NEW s \in Sids, Send(c, s) \/ Attach(c, s) \/ Create(c, s)
        PROVE  Typed'
    <2>1. Objects /\ Calls /\ meta[s] \in Written /\ meta \in [Sids -> Written] /\ collided \subseteq Sids
      BY DEF Typed, Base
    <2>2. Others(c) /\ caller'[c].pc \in {"find", "capacity"}
      BY <1>1, <2>1, Beginning DEF Begins
    <2>3. HasObject(c)'
      BY <2>2 DEF HasObject, Held
    <2>4. /\ UNCHANGED <<sessions, disconnecting, lockOf, meta, managed, persisting, asked, deaths>>
          /\ UNCHANGED <<overlapped, stale, collided>>
      BY <1>1 DEF Send, Attach, Create, history
    <2>5. TouchesNone
      BY <2>1, <2>4, NoneTouched
    <2> QED BY <2>1, <2>2, <2>3, <2>4, <2>5, RequestTyped
  <1>2. ASSUME caller[c] # Idle, Find(c)
        PROVE  Typed'
    <2>1. /\ TouchesNone
          /\ \/ /\ Usable(caller[c].sid)
                /\ Arrives(c, sessions[caller[c].sid], managed[sessions[caller[c].sid]].status)
             \/ Moves(c, "lock", caller[c].object, caller[c].seen)
      BY <1>2, CallTyped, FindEffect
    <2>2. Others(c) /\ (caller'[c] = Idle \/ HasObject(c)')
      <3>1. CASE Moves(c, "lock", caller[c].object, caller[c].seen)
        BY <3>1 DEF Moves, HasObject, Held
      <3>2. CASE /\ Usable(caller[c].sid)
                 /\ Arrives(c, sessions[caller[c].sid], managed[sessions[caller[c].sid]].status)
        BY <1>2, <2>1, <3>2, CallTyped, ArrivesTyped DEF Usable, TouchesNone, Same
      <3> QED BY <2>1, <3>1, <3>2
    <2> QED BY <1>2, <2>1, <2>2, RequestTyped DEF Find, history, Typed, Base
  <1>3. ASSUME caller[c] # Idle, Acquire(c)
        PROVE  Typed'
    <2> DEFINE s == caller[c].sid
    <2>1. /\ TouchesNone /\ (UNCHANGED collided \/ collided' = IF Bypassed(s, caller[c].lock) THEN collided \cup {s} ELSE collided)
          /\ \/ Usable(s) /\ Arrives(c, sessions[s], managed[sessions[s]].status)
             \/ sessions[s] # Nobody /\ \E seen : Moves(c, "discard", sessions[s], seen)
             \/ \E seen : Moves(c, "capacity", Nobody, seen)
      BY <1>3, CallTyped, AcquireEffect
    <2>2. Others(c) /\ (caller'[c] = Idle \/ HasObject(c)')
      <3>1. CASE \E seen : Moves(c, "capacity", Nobody, seen)
        BY <3>1 DEF Moves, HasObject, Held
      <3>2. CASE sessions[s] # Nobody /\ \E seen : Moves(c, "discard", sessions[s], seen)
        BY <1>3, <2>1, <3>2, CallTyped DEF Moves, HasObject, Held, TouchesNone, Same, Sid
      <3>3. CASE Usable(s) /\ Arrives(c, sessions[s], managed[sessions[s]].status)
        BY <1>3, <2>1, <3>3, CallTyped, ArrivesTyped DEF Usable, TouchesNone, Same
      <3> QED BY <2>1, <3>1, <3>2, <3>3
    <2>3. collided' \subseteq Sids /\ meta \in [Sids -> Written]
      BY <1>3, <2>1, CallTyped DEF Typed, Base
    <2> QED BY <1>3, <2>1, <2>2, <2>3, RequestTyped DEF Acquire
  <1>4. ASSUME caller[c] # Idle,
               Room(c) \/ NoRoom(c) \/ RoomMade(c) \/ WriteRunning(c) \/ Named(c)
        PROVE  Typed'
    <2>1. TouchesNone
      BY <1>4, CallTyped, NoneTouched DEF Room, NoRoom, RoomMade, WriteRunning, Named
    <2>2. Others(c) /\ (caller'[c] = Idle \/ HasObject(c)')
      <3>1. CASE Room(c) \/ RoomMade(c)
        <4>1. Moves(c, "build", caller[c].object, caller[c].seen)
          BY <1>4, <3>1, CallTyped, MovingNow DEF Room, RoomMade, Place
        <4> QED BY <4>1 DEF Moves, HasObject, Held
      <3>2. CASE WriteRunning(c)
        <4>1. Moves(c, "query", caller[c].object, caller[c].seen) /\ caller[c].pc \in Held
          BY <1>4, <3>2, CallTyped, MovingNow DEF WriteRunning, Place, Held
        <4> QED BY <1>4, <2>1, <4>1, CallTyped DEF Moves, HasObject, TouchesNone, Same, Sid
      <3>3. CASE NoRoom(c) \/ Named(c)
        BY <3>3, CallTyped, Leaving DEF NoRoom, Named, Leaves, Typed
      <3> QED BY <1>4, <3>1, <3>2, <3>3
    <2>3. meta' \in [Sids -> Written] /\ collided' \subseteq Sids
      BY <1>4, CallTyped DEF Room, NoRoom, RoomMade, WriteRunning, Named, history, Typed, Base, Written
    <2>4. UNCHANGED <<sessions, disconnecting, lockOf, persisting, asked, deaths, overlapped, stale>>
      BY <1>4 DEF Room, NoRoom, RoomMade, WriteRunning, Named, history
    <2> QED BY <2>1, <2>2, <2>3, <2>4, RequestTyped
  <1> QED BY <1>1, <1>2, <1>3, <1>4

LEMMA TypedObjectRequest ==
  ASSUME Typed, NEW c \in Callers, caller[c] # Idle,
         \/ Discard(c) \/ Started(c) \/ StartFails(c) \/ Query(c) \/ Failed(c) \/ NamingFails(c)
         \/ CleanedUp(c) \/ \E o \in Active : MakeRoom(c, o)
  PROVE  Typed'
  <1> DEFINE o == caller[c].object
  <1>0. /\ Objects /\ Calls /\ HasObject(c) /\ asked \in 0 .. MaxQueries /\ deaths \in 0 .. MaxDeaths
        /\ lockOf \in [Sids -> Nat] /\ meta \in [Sids -> Written] /\ disconnecting \subseteq Sids
        /\ stale \subseteq Sids /\ caller[c].sid \in Sids
    BY CallTyped DEF Typed, Base
  <1>1. ASSUME Discard(c)
        PROVE  Typed'
    <2>1. o \in DOMAIN managed
      BY <1>0, <1>1 DEF Discard, HasObject, Held
    <2>2. Moves(c, "capacity", Nobody, caller[c].seen) /\ Touches(o)
          /\ managed'[o].turns = 0 /\ managed'[o].inbox = 0
      BY <1>0, <1>1, <2>1, DiscardEffect DEF Becomes
    <2>3. Others(c) /\ HasObject(c)'
      BY <2>2 DEF Moves, HasObject, Held
    <2>4. Unregisters(caller[c].sid)
      BY <1>1 DEF Discard, Unregistered, Unregisters
    <2> QED BY <1>0, <1>1, <2>1, <2>2, <2>3, <2>4, ObjectTyped DEF Discard, history
  <1>2. ASSUME NEW v \in Active, MakeRoom(c, v)
        PROVE  Typed'
    <2>1. v \in DOMAIN managed
      BY <1>0 DEF Active, Typed, Known
    <2>2. Moves(c, "evicting", v, caller[c].seen) /\ Touches(v)
          /\ managed'[v].turns = managed[v].turns /\ managed'[v].inbox = managed[v].inbox
      BY <1>0, <1>2, <2>1, MakeRoomEffect DEF Becomes
    <2>3. Others(c) /\ HasObject(c)'
      BY <2>1, <2>2 DEF Moves, HasObject, Held, Touches
    <2>4. disconnecting' \subseteq Sids
      BY <1>0, <1>2, <2>1, FieldsTyped DEF MakeRoom, Evicting
    <2>5. managed'[v].turns + managed'[v].inbox <= asked
      BY <2>1, <2>2 DEF Typed, Fits
    <2> QED BY <1>0, <1>2, <2>1, <2>2, <2>3, <2>4, <2>5, ObjectTyped DEF MakeRoom, history
  <1>3. ASSUME Started(c)
        PROVE  Typed'
    <2>1. o \in DOMAIN managed /\ Sid(o) = caller[c].sid
      BY <1>0, <1>3 DEF Started, HasObject, Held
    <2>2. /\ Touches(o) /\ managed'[o].turns = managed[o].turns /\ managed'[o].inbox = managed[o].inbox
          /\ \/ Moves(c, "query", o, caller[c].seen)
             \/ Arrives(c, o, managed[o].status)
      BY <1>0, <1>3, <2>1, StartedEffect DEF Becomes
    <2>3. DOMAIN managed' = DOMAIN managed /\ managed'[o].sid = managed[o].sid
      BY <2>2 DEF Touches
    <2>4. Others(c) /\ (caller'[c] = Idle \/ HasObject(c)')
      <3>1. CASE Moves(c, "query", o, caller[c].seen)
        BY <2>1, <2>3, <3>1 DEF Moves, HasObject, Held, Sid
      <3>2. CASE Arrives(c, o, managed[o].status)
        BY <2>1, <2>3, <3>2, ArrivesTyped
      <3> QED BY <2>2, <3>1, <3>2
    <2>5. managed'[o].turns + managed'[o].inbox <= asked
      BY <2>1, <2>2 DEF Typed, Fits
    <2> QED BY <1>0, <1>3, <2>1, <2>2, <2>4, <2>5, ObjectTyped DEF Started, history
  <1>4. ASSUME StartFails(c)
        PROVE  Typed'
    <2>1. o \in DOMAIN managed
      BY <1>0, <1>4 DEF StartFails, HasObject, Held
    <2>2. Touches(o) /\ managed'[o].turns = 0 /\ managed'[o].inbox = 0
      BY <1>0, <1>4, <2>1, RetiredTouched DEF StartFails
    <2>3. Leaves(c)
      BY <1>0, <1>4, Leaving DEF StartFails
    <2>4. sessions' = sessions \/ Unregisters(caller[c].sid)
      BY <1>4 DEF StartFails, Unregistered, Unregisters
    <2>5. deaths' \in 0 .. MaxDeaths /\ persisting' \subseteq persisting \cup {o}
      BY <1>0, <1>4, SessionAssumption DEF StartFails
    <2> QED BY <1>0, <1>4, <2>1, <2>2, <2>3, <2>4, <2>5, ObjectTyped DEF StartFails, Leaves, history
  <1>5. ASSUME Query(c)
        PROVE  Typed'
    <2>1. o \in DOMAIN managed /\ Sid(o) = caller[c].sid
      BY <1>0, <1>5 DEF Query, HasObject, Held
    <2>2. managed[o].turns \in Nat /\ managed[o].inbox \in Nat
          /\ managed[o].turns + managed[o].inbox <= asked
      BY <1>0, <2>1, FieldsTyped DEF Typed, Fits
    <2>3. /\ Touches(o) /\ overlapped' \subseteq overlapped \cup {o}
          /\ asked <= asked' /\ asked' \in 0 .. MaxQueries
          /\ managed'[o].turns + managed'[o].inbox <= asked'
          /\ Leaves(c) \/ \E p \in Held : Moves(c, p, o, caller[c].seen)
      <3>1. overlapped' \subseteq overlapped \cup {o}
        BY <1>5 DEF Query
      <3>2. asked < MaxQueries
        BY <1>5 DEF Query
      <3>3. \/ /\ asked' = asked /\ Touches(o) /\ Moves(c, "failed", o, caller[c].seen)
               /\ managed'[o].turns = managed[o].turns /\ managed'[o].inbox = managed[o].inbox
            \/ /\ asked' = asked + 1 /\ Touches(o)
               /\ Leaves(c) \/ Moves(c, "naming", o, caller[c].seen)
               /\ managed'[o].turns = managed[o].turns + 1 /\ managed'[o].inbox = managed[o].inbox
        BY <1>0, <1>5, <2>1, QueryEffect DEF Becomes
      <3>4. asked <= asked' /\ asked' \in 0 .. MaxQueries
            /\ managed'[o].turns + managed'[o].inbox <= asked'
        BY <1>0, <2>2, <3>2, <3>3, SessionAssumption
      <3>5. Leaves(c) \/ \E p \in Held : Moves(c, p, o, caller[c].seen)
        BY <3>3 DEF Held
      <3> QED BY <3>1, <3>3, <3>4, <3>5
    <2>4. Others(c) /\ (caller'[c] = Idle \/ HasObject(c)')
      BY <2>1, <2>3 DEF Leaves, Moves, HasObject, Held, Touches, Sid
    <2> QED BY <1>0, <1>5, <2>1, <2>3, <2>4, ObjectTyped DEF Query
  <1>6. ASSUME Failed(c) \/ CleanedUp(c)
        PROVE  Typed'
    <2>1. o \in DOMAIN managed
      BY <1>0, <1>6 DEF Failed, CleanedUp, HasObject, Held
    <2>2. Leaves(c)
      BY <1>0, <1>6, Leaving DEF Failed, CleanedUp
    <2>3. UNCHANGED managed \/ managed' = Retired(o)
      BY <1>6 DEF Failed, CleanedUp
    <2>4. Touches(o) /\ managed'[o].turns + managed'[o].inbox <= asked
      <3>1. CASE UNCHANGED managed
        BY <1>0, <2>1, <3>1, NoneTouched DEF TouchesNone, Touches, Same, Typed, Fits
      <3>2. CASE managed' = Retired(o)
        <4>1. Touches(o) /\ managed'[o].turns = 0 /\ managed'[o].inbox = 0
          BY <1>0, <2>1, <3>2, RetiredTouched
        <4> QED BY <1>0, <4>1
      <3> QED BY <2>3, <3>1, <3>2
    <2>5. meta' \in [Sids -> Written]
      BY <1>0, <1>6 DEF Failed, CleanedUp, Written
    <2>6. stale' \subseteq Sids
      BY <1>0, <1>6, <2>1, FieldsTyped DEF Failed, CleanedUp, history
    <2>7. UNCHANGED <<sessions, disconnecting, lockOf, persisting, asked, deaths, overlapped, collided>>
      BY <1>6 DEF Failed, CleanedUp, history
    <2> QED BY <1>0, <2>1, <2>2, <2>4, <2>5, <2>6, <2>7, ObjectTyped DEF Leaves
  <1>7. ASSUME NamingFails(c)
        PROVE  Typed'
    <2>1. o \in DOMAIN managed /\ Sid(o) = caller[c].sid
      BY <1>0, <1>7 DEF NamingFails, HasObject, Held
    <2>2. /\ Touches(o) /\ Moves(c, "cleanup", o, caller[c].seen)
          /\ managed'[o].turns = managed[o].turns /\ managed'[o].inbox = managed[o].inbox
      BY <1>0, <1>7, <2>1, NamingFailsEffect DEF Becomes
    <2>3. Others(c) /\ HasObject(c)'
      BY <2>1, <2>2 DEF Moves, HasObject, Held, Touches, Sid
    <2>4. managed'[o].turns + managed'[o].inbox <= asked /\ stale' \subseteq Sids
      BY <1>0, <1>7, <2>1, <2>2 DEF Typed, Fits, NamingFails
    <2> QED BY <1>0, <1>7, <2>1, <2>2, <2>3, <2>4, ObjectTyped DEF NamingFails
  <1> QED BY <1>1, <1>2, <1>3, <1>4, <1>5, <1>6, <1>7

LEMMA TypedRegister ==
  ASSUME Typed, NEW c \in Callers, caller[c] # Idle, Register(c),
         caller[c].op # "create" => caller[c].seen # "absent"
  PROVE  Typed'
  <1> DEFINE s == caller[c].sid
             o == Len(managed) + 1
  <1>1. Objects /\ Calls /\ s \in Sids
    BY CallTyped
  <1>2. /\ Moves(c, "starting", o, caller[c].seen) /\ \E status, key : Adds(o, s, status, key)
        /\ sessions' = sessions \/ sessions' = [sessions EXCEPT ![s] = o]
        /\ stale' \subseteq stale \cup {s} /\ collided' \subseteq collided \cup {s}
    BY <1>1, RegisterEffect
  <1>3. Grown /\ Fits'
    BY <1>1, <1>2, ObjectsGrow, FitsKept DEF Typed, Base, Register
  <1>4. o \in DOMAIN managed' /\ managed'[o].sid = s /\ o \in Nat
    BY <1>1, <1>2 DEF Adds, Objects
  <1>5. HaveObjects' /\ Calls'
    <2>1. Others(c) /\ HasObject(c)'
      BY <1>2, <1>4 DEF Moves, HasObject, Held, Sid
    <2> QED BY <1>3, <2>1, HaveObjectsKept DEF Others, Typed
  <1>6. Known'
    <2>1. CASE sessions' = sessions
      BY <1>3, <2>1, KnownKept DEF Typed
    <2>2. CASE sessions' = [sessions EXCEPT ![s] = o]
      BY <1>3, <1>4, <2>2 DEF Typed, Base, Known, Grown, Sid
    <2> QED BY <1>2, <2>1, <2>2
  <1>7. Base' /\ Refs'
    <2>1. Len(managed') <= MaxObjects /\ DOMAIN managed \subseteq DOMAIN managed'
      BY <1>1, <1>2, SessionAssumption DEF Register, Adds, Objects
    <2>2. sessions' \in [Sids -> Nat]
      BY <1>1, <1>2, <1>4 DEF Typed, Base
    <2> QED BY <1>1, <1>2, <2>1, <2>2 DEF Register, Typed, Base, Refs
  <1> QED BY <1>3, <1>5, <1>6, <1>7 DEF Typed, Grown

\* What _evict_one does before its first await.
LEMMA EvictingEffect ==
  ASSUME Typed, NEW o \in DOMAIN managed,
         Evicting(o, managed) \/ \E x \in DOMAIN managed : Evicting(o, TimerOff(x))
  PROVE  /\ managed[o].key = "sid" /\ Sid(o) \notin disconnecting
         /\ disconnecting' = disconnecting \cup {Sid(o)}
         /\ \E e \in {"timer", "disconnect"} :
              Becomes(o, managed[o].key, managed[o].status, managed[o].actor,
                      managed[o].turns, managed[o].inbox, managed[o].settling, e)
  <1>1. managed[o].key = "sid" /\ Sid(o) \notin disconnecting
        /\ disconnecting' = disconnecting \cup {Sid(o)}
    BY DEF Evicting
  <1>2. Objects
    BY DEF Typed
  <1>3. CASE Evicting(o, managed)
    BY <1>1, <1>2, <1>3, EvictingObject
  <1>4. CASE \E x \in DOMAIN managed : Evicting(o, TimerOff(x))
    <2>1. PICK x \in DOMAIN managed : Evicting(o, [managed EXCEPT ![x].timer = FALSE])
      BY <1>4 DEF TimerOff
    <2>2. \E e \in {"timer", "disconnect"} :
            Becomes(o, managed[o].key, managed[o].status, managed[o].actor,
                    managed[o].turns, managed[o].inbox, managed[o].settling, e)
      BY <1>2, <2>1, EvictingObject
    <2> QED BY <1>1, <2>2
  <1> QED BY <1>3, <1>4

\* What the patrol, and the timer that finds a live object, do.
LEMMA EvictsEffect ==
  ASSUME Typed,
         (\E s \in Sids : Patrol(s)) \/ \E x \in DOMAIN managed : Cleanup(x)
  PROVE  \E o \in DOMAIN managed :
           /\ sessions[Sid(o)] = o /\ managed[o].key = "sid" /\ managed[o].status # "running"
           /\ Sid(o) \notin disconnecting /\ disconnecting' = disconnecting \cup {Sid(o)}
           /\ \E e \in {"timer", "disconnect"} :
                Becomes(o, managed[o].key, managed[o].status, managed[o].actor,
                        managed[o].turns, managed[o].inbox, managed[o].settling, e)
           /\ UNCHANGED <<sessions, lockOf, meta, caller, persisting, asked, deaths>>
           /\ UNCHANGED <<overlapped, stale, collided>>
  <1>1. ASSUME NEW s \in Sids, Patrol(s)
        PROVE  /\ sessions[s] \in DOMAIN managed /\ Sid(sessions[s]) = s
               /\ managed[sessions[s]].status # "running" /\ Evicting(sessions[s], managed)
               /\ UNCHANGED <<sessions, lockOf, meta, caller, persisting, asked, deaths>>
               /\ UNCHANGED <<overlapped, stale, collided>>
    BY <1>1 DEF Patrol, Typed, Known, history
  <1>2. ASSUME NEW x \in DOMAIN managed, Cleanup(x)
        PROVE  /\ sessions[Sid(x)] \in DOMAIN managed /\ Sid(sessions[Sid(x)]) = Sid(x)
               /\ managed[sessions[Sid(x)]].status # "running"
               /\ Evicting(sessions[Sid(x)], TimerOff(x))
               /\ UNCHANGED <<sessions, lockOf, meta, caller, persisting, asked, deaths>>
               /\ UNCHANGED <<overlapped, stale, collided>>
    <2>1. Sid(x) \in Sids
      BY FieldsTyped DEF Typed
    <2> QED BY <1>2, <2>1 DEF Cleanup, Cleanable, Typed, Known, history
  <1>3. PICK o \in DOMAIN managed :
          /\ sessions[Sid(o)] = o /\ managed[o].status # "running"
          /\ Evicting(o, managed) \/ \E x \in DOMAIN managed : Evicting(o, TimerOff(x))
          /\ UNCHANGED <<sessions, lockOf, meta, caller, persisting, asked, deaths>>
          /\ UNCHANGED <<overlapped, stale, collided>>
    <2>1. CASE \E s \in Sids : Patrol(s)
      BY <1>1, <2>1
    <2>2. CASE \E x \in DOMAIN managed : Cleanup(x)
      BY <1>2, <2>2
    <2> QED BY <2>1, <2>2
  <1> QED BY <1>3, EvictingEffect

LEMMA TypedInside ==
  ASSUME Typed, NEW o \in DOMAIN managed,
         \/ MakeRow(o) \/ RowFails(o) \/ Finalize(o) \/ Finalized(o) \/ Die(o) \/ PersistError(o)
         \/ Result(o) \/ TimerEnded(o) \/ Disconnected(o) \/ Evicted(o)
         \/ CleanupDead(o) \/ CleanupNothing(o)
  PROVE  Typed'
  <1>0. /\ Objects /\ asked \in 0 .. MaxQueries /\ asked <= asked /\ deaths \in 0 .. MaxDeaths /\ Sid(o) \in Sids
        /\ lockOf \in [Sids -> Nat] /\ meta \in [Sids -> Written] /\ disconnecting \subseteq Sids
        /\ stale \subseteq Sids /\ managed[o].turns \in Nat /\ managed[o].inbox \in Nat
        /\ managed[o].turns + managed[o].inbox <= asked
        /\ sessions[Sid(o)] # Nobody => sessions[Sid(o)] \in DOMAIN managed
    BY FieldsTyped DEF Typed, Base, Fits, Known
  <1>1. ASSUME MakeRow(o) \/ RowFails(o) \/ Finalize(o) \/ Finalized(o) \/ Result(o) \/ TimerEnded(o)
        PROVE  Typed'
    <2>1. Touches(o) /\ managed'[o].turns + managed'[o].inbox <= asked
      <3>1. CASE MakeRow(o) \/ RowFails(o)
        BY <1>0, <3>1, MakeRowObject, RowFailsObject DEF Becomes
      <3>2. CASE Finalize(o)
        <4>1. /\ Touches(o) /\ managed'[o].turns = managed[o].turns
              /\ managed'[o].inbox = managed[o].inbox - 1
          BY <1>0, <3>2, FinalizeObject DEF Becomes
        <4> QED BY <1>0, <4>1
      <3>3. CASE Finalized(o)
        BY <1>0, <3>3, FinalizedObject DEF Becomes
      <3>4. CASE Result(o)
        <4>1. /\ Touches(o) /\ managed'[o].turns = managed[o].turns - 1
              /\ managed'[o].inbox = managed[o].inbox + 1
          BY <1>0, <3>4, ResultObject DEF Becomes
        <4> QED BY <1>0, <4>1
      <3>5. CASE TimerEnded(o)
        BY <1>0, <3>5, TimerEndedObject DEF Becomes
      <3> QED BY <1>1, <3>1, <3>2, <3>3, <3>4, <3>5
    <2>2. meta' \in [Sids -> Written]
      BY <1>0, <1>1 DEF MakeRow, RowFails, Finalize, Finalized, Result, TimerEnded, Written
    <2>3. /\ UNCHANGED <<sessions, disconnecting, lockOf, caller, persisting, asked, deaths>>
          /\ UNCHANGED <<overlapped, collided>> /\ stale' \subseteq Sids
      BY <1>0, <1>1 DEF MakeRow, RowFails, Finalize, Finalized, Result, TimerEnded, history
    <2> QED BY <1>0, <2>1, <2>2, <2>3, ObjectTyped
  <1>2. ASSUME Die(o) \/ Disconnected(o)
        PROVE  Typed'
    <2>1. Touches(o) /\ managed'[o].turns = 0 /\ managed'[o].inbox = managed[o].inbox
      BY <1>0, <1>2, DieObject, DisconnectedObject DEF Becomes
    <2>2. /\ deaths' \in 0 .. MaxDeaths /\ persisting' \subseteq persisting \cup {o} /\ stale' \subseteq Sids
          /\ UNCHANGED <<sessions, disconnecting, lockOf, caller, meta, asked, overlapped, collided>>
      BY <1>0, <1>2, SessionAssumption DEF Die, Disconnected, ToPersist, history
    <2>3. managed'[o].turns + managed'[o].inbox <= asked
      BY <1>0, <2>1
    <2> QED BY <1>0, <2>1, <2>2, <2>3, ObjectTyped
  <1>3. ASSUME PersistError(o) \/ CleanupNothing(o)
        PROVE  Typed'
    <2>1. TouchesNone
      BY <1>0, <1>3, NoneTouched, TimerTouched DEF PersistError, CleanupNothing, TimerOff
    <2>2. Touches(o) /\ managed'[o].turns + managed'[o].inbox <= asked
      BY <1>0, <2>1 DEF TouchesNone, Touches, Same
    <2>3. /\ meta' \in [Sids -> Written] /\ persisting' \subseteq persisting
          /\ UNCHANGED <<sessions, disconnecting, lockOf, caller, asked, deaths>>
          /\ UNCHANGED <<overlapped, stale, collided>>
      BY <1>0, <1>3 DEF PersistError, CleanupNothing, history, Written
    <2> QED BY <1>0, <2>2, <2>3, ObjectTyped
  <1>4. ASSUME Evicted(o)
        PROVE  Typed'
    <2>1. Touches(o) /\ managed'[o].turns = 0 /\ managed'[o].inbox = 0
      BY <1>0, <1>4, EvictedObject DEF Becomes
    <2>2. /\ meta' \in [Sids -> Written] /\ lockOf' \in [Sids -> Nat] /\ disconnecting' \subseteq Sids
          /\ Unregisters(Sid(o)) /\ UNCHANGED <<caller, persisting, asked, deaths>>
          /\ UNCHANGED <<overlapped, stale, collided>>
      BY <1>0, <1>4 DEF Evicted, Unregistered, Unregisters, history, Written
    <2>3. managed'[o].turns + managed'[o].inbox <= asked
      BY <1>0, <2>1
    <2> QED BY <1>0, <2>1, <2>2, <2>3, ObjectTyped
  <1>5. ASSUME CleanupDead(o)
        PROVE  Typed'
    <2> DEFINE m == sessions[Sid(o)]
    <2>1. m \in DOMAIN managed /\ managed' = Retired(m)
      BY <1>0, <1>5 DEF CleanupDead, Cleanable
    <2>2. Touches(m) /\ managed'[m].turns = 0 /\ managed'[m].inbox = 0
      BY <1>0, <2>1, RetiredTouched
    <2>3. /\ disconnecting' \subseteq Sids /\ Unregisters(Sid(o))
          /\ UNCHANGED <<lockOf, meta, caller, persisting, asked, deaths>>
          /\ UNCHANGED <<overlapped, stale, collided>>
      BY <1>0, <1>5 DEF CleanupDead, Unregistered, Unregisters, history
    <2>4. managed'[m].turns + managed'[m].inbox <= asked
      BY <1>0, <2>2
    <2> HIDE DEF m
    <2> QED BY <1>0, <2>1, <2>2, <2>3, <2>4, ObjectTyped
  <1> QED BY <1>1, <1>2, <1>3, <1>4, <1>5

LEMMA TypedElsewhere ==
  ASSUME Typed,
         \/ \E o \in DOMAIN managed : SwapKeys(o) \/ Cleanup(o)
         \/ \E s \in Sids : Interrupt(s) \/ Patrol(s)
  PROVE  Typed'
  <1>0. /\ Objects /\ asked \in 0 .. MaxQueries /\ asked <= asked /\ deaths \in 0 .. MaxDeaths
        /\ lockOf \in [Sids -> Nat] /\ meta \in [Sids -> Written] /\ disconnecting \subseteq Sids
        /\ stale \subseteq Sids
    BY DEF Typed, Base
  <1>1. ASSUME NEW o \in DOMAIN managed, SwapKeys(o)
        PROVE  Typed'
    <2>1. /\ Touches(o) /\ managed'[o].turns = managed[o].turns /\ managed'[o].inbox = managed[o].inbox
          /\ Sid(o) \in Sids
      BY <1>0, <1>1, SwapKeysObject, FieldsTyped DEF Becomes
    <2>2. Grown /\ HaveObjects'
      BY <1>0, <1>1, <2>1, ObjectsGrow, HaveObjectsSame DEF Typed, SwapKeys
    <2>3. Fits'
      <3>1. managed'[o].turns + managed'[o].inbox <= asked'
        BY <1>1, <2>1 DEF Typed, Fits, SwapKeys
      <3> QED BY <1>0, <1>1, <2>1, <3>1, FitsKept DEF Typed, SwapKeys
    <2>4. sessions' = [sessions EXCEPT ![Sid(o)] = o] /\ o \in Nat
      BY <1>0, <1>1 DEF SwapKeys, Objects
    <2>5. Known'
      BY <2>1, <2>2, <2>4 DEF Typed, Base, Known, Grown, Sid
    <2>6. Base' /\ Refs'
      BY <1>1, <2>1, <2>4 DEF SwapKeys, Typed, Base, Refs, Touches
    <2>7. Calls'
      BY <1>1 DEF SwapKeys, Typed, Calls
    <2> QED BY <2>2, <2>3, <2>5, <2>6, <2>7 DEF Typed, Grown
  <1>2. ASSUME (\E s \in Sids : Patrol(s)) \/ \E o \in DOMAIN managed : Cleanup(o)
        PROVE  Typed'
    <2>1. PICK o \in DOMAIN managed :
            /\ Touches(o) /\ managed'[o].turns = managed[o].turns /\ managed'[o].inbox = managed[o].inbox
            /\ disconnecting' = disconnecting \cup {Sid(o)}
            /\ UNCHANGED <<sessions, lockOf, meta, caller, persisting, asked, deaths>>
            /\ UNCHANGED <<overlapped, stale, collided>>
      BY <1>2, EvictsEffect DEF Becomes
    <2>2. managed'[o].turns + managed'[o].inbox <= asked /\ Sid(o) \in Sids
      BY <1>0, <2>1, FieldsTyped DEF Typed, Fits
    <2> QED BY <1>0, <2>1, <2>2, ObjectTyped
  <1>3. ASSUME NEW s \in Sids, Interrupt(s)
        PROVE  Typed'
    <2>1. TouchesNone
      BY <1>0, <1>3, NoneTouched DEF Interrupt
    <2>2. Grown /\ HaveObjects' /\ Known' /\ Fits'
      BY <1>0, <1>3, <2>1, ObjectsGrow, HaveObjectsSame, KnownKept, FitsKept DEF Typed, Interrupt
    <2>3. Base' /\ Refs' /\ Calls'
      BY <1>0, <1>3, <2>1 DEF Typed, Interrupt, Base, Refs, Calls, TouchesNone, Written, history
    <2> QED BY <2>2, <2>3 DEF Typed, Grown
  <1> QED BY <1>1, <1>2, <1>3

-----------------------------------------------------------------------------
(* Rows.  A session that is registered, or asked for by a request that does *)
(* not create it, has its row, and rows stay.                              *)

RowsOfObjects == \A o \in DOMAIN managed :
  managed[o].key \in {"created", "sid"} => meta[Sid(o)] # "absent"

RowsOfSessions == \A s \in Sids : sessions[s] # Nobody => meta[s] # "absent"

RowsOfCalls == \A c \in Callers : caller[c] # Idle /\ caller[c].op # "create" =>
  meta[caller[c].sid] # "absent" /\ caller[c].seen # "absent"

Rows == RowsOfObjects /\ RowsOfSessions /\ RowsOfCalls

RowsStay == \A s \in Sids : meta[s] # "absent" => meta'[s] # "absent"

LEMMA RowsStaying ==
  ASSUME Typed, [Next]_vars
  PROVE  RowsStay
  <1>0. meta \in [Sids -> Written]
    BY DEF Typed, Base
  <1>1. CASE UNCHANGED vars
    BY <1>1 DEF vars, RowsStay
  <1>2. ASSUME NEW c \in Callers, Request(c)
        PROVE  RowsStay
    <2>1. CASE WriteRunning(c) \/ Failed(c)
      BY <1>0, <2>1 DEF RowsStay, WriteRunning, Failed
    <2>2. CASE ~(WriteRunning(c) \/ Failed(c))
      <3>1. UNCHANGED meta
        <4>1. CASE \E r \in Sids : Send(c, r) \/ Attach(c, r) \/ Create(c, r)
          BY <4>1 DEF Send, Attach, Create
        <4>2. CASE Find(c) \/ Acquire(c) \/ Discard(c) \/ Room(c) \/ NoRoom(c) \/ RoomMade(c)
          BY <4>2 DEF Find, Acquire, Discard, Room, NoRoom, RoomMade
        <4>3. CASE Register(c) \/ Started(c) \/ StartFails(c) \/ \E o \in Active : MakeRoom(c, o)
          BY <4>3 DEF MakeRoom, Register, Started, StartFails
        <4>4. CASE Query(c) \/ Named(c) \/ NamingFails(c) \/ CleanedUp(c)
          BY <4>4 DEF Query, Named, NamingFails, CleanedUp
        <4> QED BY <1>2, <2>2, <4>1, <4>2, <4>3, <4>4 DEF Request
      <3> QED BY <3>1 DEF RowsStay
    <2> QED BY <2>1, <2>2
  <1>3. ASSUME NEW o \in DOMAIN managed, Inside(o)
        PROVE  RowsStay
    BY <1>0, <1>3 DEF Inside, RowsStay, MakeRow, RowFails, SwapKeys, Finalize, Finalized, Die, PersistError,
         Result, TimerEnded, Disconnected, Evicted, Cleanup, CleanupDead, CleanupNothing
  <1>4. ASSUME NEW s \in Sids, Interrupt(s) \/ Patrol(s)
        PROVE  RowsStay
    BY <1>0, <1>4 DEF Interrupt, Patrol, RowsStay
  <1> QED BY <1>1, <1>2, <1>3, <1>4 DEF Next

\* The keys an object may take without a row.
Rowless == {"unnamed", "popped", "closing", "dropped"}

\* The objects that a step leaves alone keep what is said of their key.
LEMMA RowsOfObjectsKept ==
  ASSUME Typed, Typed', RowsOfObjects, RowsStay,
         \/ TouchesNone
         \/ \E o \in DOMAIN managed :
              Touches(o) /\ (managed'[o].key \in {managed[o].key} \cup Rowless \/ meta'[Sid(o)] # "absent")
         \/ \E o, s, status, key : Adds(o, s, status, key) /\ (key = "temp" \/ meta[s] # "absent")
  PROVE  RowsOfObjects'
  <1> SUFFICES ASSUME NEW x \in DOMAIN managed', managed'[x].key \in {"created", "sid"}
               PROVE  meta'[managed'[x].sid] # "absent"
    BY DEF RowsOfObjects, Sid
  <1>0. managed'[x].sid \in Sids /\ Objects
    <2>1. managed'[x] \in Object
      BY DEF Typed, Objects
    <2> QED BY <2>1 DEF Object, Typed
  <1>1. ASSUME x \in DOMAIN managed, Same(x)
        PROVE  meta'[managed'[x].sid] # "absent"
    BY <1>0, <1>1 DEF RowsOfObjects, RowsStay, Same, Sid
  <1>2. CASE TouchesNone
    BY <1>1, <1>2 DEF TouchesNone
  <1>3. CASE \E o \in DOMAIN managed :
               Touches(o) /\ (managed'[o].key \in {managed[o].key} \cup Rowless \/ meta'[Sid(o)] # "absent")
    BY <1>0, <1>1, <1>3 DEF Touches, RowsOfObjects, RowsStay, Sid, Rowless
  <1>4. CASE \E o, s, status, key : Adds(o, s, status, key) /\ (key = "temp" \/ meta[s] # "absent")
    <2>1. PICK o, s, status, key : Adds(o, s, status, key) /\ (key = "temp" \/ meta[s] # "absent")
      BY <1>4
    <2>2. CASE x = o
      BY <1>0, <2>1, <2>2 DEF Adds, RowsStay
    <2>3. CASE x # o
      BY <1>1, <2>1, <2>3 DEF Adds
    <2> QED BY <2>2, <2>3
  <1> QED BY <1>2, <1>3, <1>4

LEMMA RowsOfCallsKept ==
  ASSUME Typed, RowsOfCalls, RowsStay,
         \/ UNCHANGED caller
         \/ \E c \in Callers :
              /\ Others(c)
              /\ \/ caller'[c] = Idle
                 \/ /\ caller[c] # Idle /\ caller'[c].op = caller[c].op /\ caller'[c].sid = caller[c].sid
                    /\ caller'[c].seen \in {caller[c].seen, meta[caller[c].sid], "ended"}
                 \/ caller'[c].op = "create"
                 \/ meta[caller'[c].sid] # "absent" /\ caller'[c].seen = meta[caller'[c].sid]
                    /\ caller'[c].sid \in Sids
  PROVE  RowsOfCalls'
  <1> SUFFICES ASSUME NEW d \in Callers, caller'[d] # Idle, caller'[d].op # "create"
               PROVE  meta'[caller'[d].sid] # "absent" /\ caller'[d].seen # "absent"
    BY DEF RowsOfCalls
  <1>1. ASSUME caller'[d] = caller[d]
        PROVE  meta'[caller'[d].sid] # "absent" /\ caller'[d].seen # "absent"
    BY <1>1, CallTyped DEF RowsOfCalls, RowsStay
  <1>2. CASE UNCHANGED caller
    BY <1>1, <1>2
  <1>3. ASSUME NEW c \in Callers, Others(c), d # c
        PROVE  meta'[caller'[d].sid] # "absent" /\ caller'[d].seen # "absent"
    BY <1>1, <1>3 DEF Others
  <1>4. ASSUME caller[d] # Idle, caller'[d].op = caller[d].op, caller'[d].sid = caller[d].sid,
               caller'[d].seen \in {caller[d].seen, meta[caller[d].sid], "ended"}
        PROVE  meta'[caller'[d].sid] # "absent" /\ caller'[d].seen # "absent"
    BY <1>4, CallTyped DEF RowsOfCalls, RowsStay
  <1>5. ASSUME meta[caller'[d].sid] # "absent", caller'[d].seen = meta[caller'[d].sid], caller'[d].sid \in Sids
        PROVE  meta'[caller'[d].sid] # "absent" /\ caller'[d].seen # "absent"
    BY <1>5 DEF RowsStay
  <1> QED BY <1>2, <1>3, <1>4, <1>5

LEMMA RowsNext ==
  ASSUME Typed, Typed', Rows, [Next]_vars
  PROVE  Rows'
  <1>0. Objects /\ Calls /\ RowsStay /\ RowsOfObjects /\ RowsOfSessions /\ RowsOfCalls
    BY RowsStaying DEF Typed, Rows
  <1>1. CASE UNCHANGED vars
    BY <1>0, <1>1 DEF vars, Rows, RowsOfObjects, RowsOfSessions, RowsOfCalls, Sid
  <1>2. ASSUME NEW c \in Callers, NEW s \in Sids, Send(c, s) \/ Attach(c, s) \/ Create(c, s)
        PROVE  Rows'
    <2>1. UNCHANGED <<managed, meta, sessions>>
      BY <1>2 DEF Send, Attach, Create
    <2>2. RowsOfObjects' /\ RowsOfSessions'
      BY <1>0, <2>1 DEF RowsOfObjects, RowsOfSessions, Sid
    <2>3. \/ Begins(c, "create", "capacity", s)
          \/ meta[s] # "absent" /\ \E op : Begins(c, op, "find", s)
      <3>1. meta[s] \in Written
        BY DEF Typed, Base
      <3>2. CASE Send(c, s)
        BY <1>0, <3>1, <3>2, Beginning DEF Send
      <3>3. CASE Attach(c, s)
        <4>1. meta[s] # "absent"
          BY <1>0, <3>3 DEF Attach, Status, RowsOfSessions
        <4> QED BY <1>0, <3>1, <3>3, <4>1, Beginning
      <3>4. CASE Create(c, s)
        BY <1>0, <3>1, <3>4, Beginning
      <3> QED BY <1>2, <3>2, <3>3, <3>4
    <2>4. RowsOfCalls'
      BY <1>0, <2>3, RowsOfCallsKept DEF Begins
    <2> QED BY <2>2, <2>4 DEF Rows
  <1>3. ASSUME NEW c \in Callers, caller[c] # Idle,
               \/ Find(c) \/ Acquire(c) \/ Room(c) \/ NoRoom(c) \/ RoomMade(c) \/ WriteRunning(c) \/ Named(c)
        PROVE  Rows'
    <2> DEFINE s == caller[c].sid
    <2>1. TouchesNone /\ sessions' = sessions
      <3>1. CASE Find(c) \/ Acquire(c)
        <4>1. TouchesNone
          <5>1. CASE Find(c)
            BY <1>0, <1>3, <5>1, CallTyped, FindEffect
          <5>2. CASE Acquire(c)
            BY <1>0, <1>3, <5>2, CallTyped, AcquireEffect
          <5> QED BY <3>1, <5>1, <5>2
        <4>2. sessions' = sessions
          BY <3>1 DEF Find, Acquire
        <4> QED BY <4>1, <4>2
      <3>2. CASE ~(Find(c) \/ Acquire(c))
        BY <1>0, <1>3, <3>2, NoneTouched DEF Room, NoRoom, RoomMade, WriteRunning, Named
      <3> QED BY <3>1, <3>2
    <2>2. RowsOfObjects'
      BY <1>0, <2>1, RowsOfObjectsKept
    <2>3. RowsOfSessions'
      BY <1>0, <2>1 DEF RowsOfSessions, RowsStay
    <2>4. \/ Leaves(c)
          \/ \E pc, object, seen :
               Moves(c, pc, object, seen) /\ seen \in {caller[c].seen, meta[s], "ended"}
      <3>1. CASE Find(c)
        BY <1>0, <1>3, <3>1, CallTyped, FindEffect DEF Arrives
      <3>2. CASE Acquire(c)
        BY <1>0, <1>3, <3>2, CallTyped, AcquireEffect DEF Arrives
      <3>3. CASE Room(c) \/ RoomMade(c) \/ WriteRunning(c)
        BY <1>0, <1>3, <3>3, MovingNow DEF Room, RoomMade, WriteRunning, Place
      <3>4. CASE NoRoom(c) \/ Named(c)
        BY <1>0, <1>3, <3>4, Leaving DEF NoRoom, Named
      <3> QED BY <1>3, <3>1, <3>2, <3>3, <3>4
    <2>5. RowsOfCalls'
      BY <1>0, <1>3, <2>4, RowsOfCallsKept DEF Leaves, Moves
    <2> QED BY <2>2, <2>3, <2>5 DEF Rows
  <1>4. ASSUME NEW c \in Callers, caller[c] # Idle,
               \/ Discard(c) \/ Started(c) \/ StartFails(c) \/ Query(c) \/ Failed(c) \/ NamingFails(c)
               \/ CleanedUp(c) \/ \E o \in Active : MakeRoom(c, o)
        PROVE  Rows'
    <2> DEFINE o == caller[c].object
    <2>1. HasObject(c)
      BY <1>4, CallTyped
    <2>2. TouchesNone \/ \E x \in DOMAIN managed : Touches(x) /\ managed'[x].key \in {managed[x].key} \cup Rowless
      <3>1. CASE \/ Discard(c) \/ Started(c) \/ StartFails(c) \/ Query(c) \/ Failed(c) \/ NamingFails(c)
                 \/ CleanedUp(c)
        <4>1. o \in DOMAIN managed
          BY <2>1, <3>1 DEF Discard, Started, StartFails, Query, Failed, NamingFails, CleanedUp, HasObject, Held
        <4>2. CASE Discard(c) \/ StartFails(c) \/ CleanedUp(c) \/ Failed(c)
          BY <1>0, <4>1, <4>2, RetiredTouched, NoneTouched DEF Discard, StartFails, CleanedUp, Failed, Rowless
        <4>3. CASE Started(c)
          BY <1>0, <1>4, <4>1, <4>3, StartedEffect DEF Becomes
        <4>4. CASE Query(c)
          BY <1>0, <1>4, <4>1, <4>4, QueryEffect DEF Becomes
        <4>5. CASE NamingFails(c)
          BY <1>0, <1>4, <4>1, <4>5, NamingFailsEffect DEF Becomes, Rowless
        <4> QED BY <3>1, <4>2, <4>3, <4>4, <4>5
      <3>2. ASSUME NEW v \in Active, MakeRoom(c, v)
            PROVE  Touches(v) /\ managed'[v].key = managed[v].key /\ v \in DOMAIN managed
        <4>1. v \in DOMAIN managed
          BY DEF Active, Typed, Known
        <4> QED BY <1>0, <1>4, <3>2, <4>1, MakeRoomEffect DEF Becomes
      <3> QED BY <1>4, <3>1, <3>2
    <2>3. RowsOfObjects'
      BY <1>0, <2>2, RowsOfObjectsKept
    <2>4. \A s \in Sids : sessions'[s] \in {sessions[s], Nobody}
      BY <1>4 DEF Discard, Started, StartFails, Query, Failed, NamingFails, CleanedUp, MakeRoom, Unregistered,
         Typed, Base
    <2>5. RowsOfSessions'
      BY <1>0, <2>4 DEF RowsOfSessions, RowsStay
    <2>6. Leaves(c) \/ \E pc, object, seen : Moves(c, pc, object, seen) /\ seen \in {caller[c].seen, "ended"}
      <3>1. CASE Discard(c)
        BY <1>0, <1>4, <2>1, <3>1, DiscardEffect DEF Discard, HasObject, Held
      <3>2. CASE Started(c)
        BY <1>0, <1>4, <2>1, <3>2, StartedEffect DEF Started, HasObject, Held, Arrives
      <3>3. CASE Query(c)
        BY <1>0, <1>4, <2>1, <3>3, QueryEffect DEF Query, HasObject, Held
      <3>4. CASE StartFails(c) \/ Failed(c) \/ CleanedUp(c)
        BY <1>0, <3>4, Leaving DEF StartFails, Failed, CleanedUp
      <3>5. ASSUME NEW v \in Active, MakeRoom(c, v)
            PROVE  Moves(c, "evicting", v, caller[c].seen)
        <4>1. v \in DOMAIN managed
          BY DEF Active, Typed, Known
        <4> QED BY <1>0, <1>4, <3>5, <4>1, MakeRoomEffect
      <3>6. CASE NamingFails(c)
        BY <1>0, <1>4, <2>1, <3>6, NamingFailsEffect DEF NamingFails, HasObject, Held
      <3> QED BY <1>4, <3>1, <3>2, <3>3, <3>4, <3>5, <3>6
    <2>7. RowsOfCalls'
      BY <1>0, <1>4, <2>6, RowsOfCallsKept DEF Leaves, Moves
    <2> QED BY <2>3, <2>5, <2>7 DEF Rows
  <1>5. ASSUME NEW c \in Callers, caller[c] # Idle, Register(c)
        PROVE  Rows'
    <2> DEFINE s == caller[c].sid
               o == Len(managed) + 1
    <2>1. /\ Moves(c, "starting", o, caller[c].seen)
          /\ \/ /\ caller[c].op = "create" /\ Adds(o, s, "running", "temp") /\ sessions' = sessions
             \/ /\ meta[s] # "absent" /\ Adds(o, s, caller[c].seen, "sid")
                /\ sessions' = [sessions EXCEPT ![s] = o]
      BY <1>0, <1>5, RegisterEffect DEF RowsOfCalls
    <2>2. RowsOfObjects'
      BY <1>0, <2>1, RowsOfObjectsKept
    <2>3. RowsOfSessions'
      BY <1>0, <1>5, <2>1, CallTyped DEF RowsOfSessions, RowsStay, Typed, Base
    <2>4. RowsOfCalls'
      BY <1>0, <1>5, <2>1, RowsOfCallsKept DEF Moves
    <2> QED BY <2>2, <2>3, <2>4 DEF Rows
  <1>6. ASSUME NEW o \in DOMAIN managed, Inside(o)
        PROVE  Rows'
    <2>0. /\ Sid(o) \in Sids
          /\ sessions[Sid(o)] # Nobody => sessions[Sid(o)] \in DOMAIN managed
      BY <1>0, FieldsTyped DEF Typed, Known
    <2>1. \/ TouchesNone
          \/ \E x \in DOMAIN managed :
               Touches(x) /\ (managed'[x].key \in {managed[x].key} \cup Rowless \/ meta'[Sid(x)] # "absent")
      <3>1. CASE MakeRow(o)
        <4>1. Touches(o) /\ meta'[Sid(o)] = "running"
          BY <1>0, <2>0, <3>1, MakeRowObject DEF Becomes, MakeRow, Typed, Base
        <4> QED BY <4>1
      <3>2. CASE SwapKeys(o)
        <4>1. Touches(o) /\ meta'[Sid(o)] # "absent"
          BY <1>0, <2>0, <3>2, SwapKeysObject DEF Becomes, SwapKeys, RowsOfObjects
        <4> QED BY <4>1
      <3>3. CASE Finalize(o) \/ Result(o) \/ TimerEnded(o) \/ Disconnected(o) \/ Evicted(o)
        BY <1>0, <3>3, FinalizeObject, ResultObject, TimerEndedObject, DisconnectedObject, EvictedObject
           DEF Becomes, Rowless
      <3>4. CASE Finalized(o) \/ Die(o)
        BY <1>0, <2>0, <3>4, FinalizedObject, DieObject DEF Becomes
      <3>5. CASE PersistError(o) \/ CleanupNothing(o)
        BY <1>0, <3>5, NoneTouched, TimerTouched DEF PersistError, CleanupNothing, TimerOff
      <3>6. CASE Cleanup(o)
        BY <3>6, EvictsEffect DEF Becomes
      <3>7. CASE CleanupDead(o)
        BY <1>0, <2>0, <3>7, RetiredTouched DEF CleanupDead, Cleanable, Rowless
      <3>8. CASE RowFails(o)
        BY <1>0, <3>8, RowFailsObject DEF Becomes, Rowless
      <3> QED BY <1>6, <3>1, <3>2, <3>3, <3>4, <3>5, <3>6, <3>7, <3>8 DEF Inside
    <2>2. RowsOfObjects'
      BY <1>0, <2>1, RowsOfObjectsKept
    <2>3. RowsOfSessions'
      <3>1. CASE SwapKeys(o)
        BY <1>0, <2>0, <3>1 DEF SwapKeys, RowsOfSessions, RowsOfObjects, Typed, Base
      <3>2. CASE ~SwapKeys(o)
        <4>1. \A s \in Sids : sessions'[s] \in {sessions[s], Nobody}
          BY <1>6, <3>2 DEF Inside, MakeRow, RowFails, Finalize, Finalized, Die, PersistError,
             Result, TimerEnded, Disconnected, Evicted, Cleanup, CleanupDead, CleanupNothing,
             Unregistered, Typed, Base
        <4> QED BY <1>0, <4>1 DEF RowsOfSessions, RowsStay
      <3> QED BY <3>1, <3>2
    <2>4. UNCHANGED caller
      BY <1>6 DEF Inside, MakeRow, RowFails, SwapKeys, Finalize, Finalized, Die, PersistError,
         Result, TimerEnded, Disconnected, Evicted, Cleanup, CleanupDead, CleanupNothing
    <2>5. RowsOfCalls'
      BY <1>0, <2>4, RowsOfCallsKept
    <2> QED BY <2>2, <2>3, <2>5 DEF Rows
  <1>7. ASSUME NEW s \in Sids, Interrupt(s) \/ Patrol(s)
        PROVE  Rows'
    <2>1. TouchesNone \/ \E x \in DOMAIN managed : Touches(x) /\ managed'[x].key = managed[x].key
      BY <1>0, <1>7, NoneTouched, EvictsEffect DEF Interrupt, Becomes
    <2>2. UNCHANGED <<sessions, caller>>
      BY <1>7 DEF Interrupt, Patrol
    <2> QED BY <1>0, <2>1, <2>2, RowsOfObjectsKept, RowsOfCallsKept DEF RowsOfSessions, RowsStay, Rows
  <1> QED BY <1>1, <1>2, <1>3, <1>4, <1>5, <1>6, <1>7 DEF Next, Request

LEMMA RowsInit ==
  ASSUME Init
  PROVE  Rows
  BY DEF Init, Rows, RowsOfObjects, RowsOfSessions, RowsOfCalls

LEMMA TypedNext ==
  ASSUME Typed, Rows, [Next]_vars
  PROVE  Typed'
  <1>1. CASE UNCHANGED vars
    <2>1. TouchesNone /\ UNCHANGED caller
      BY <1>1, NoneTouched DEF vars, Typed
    <2>2. Grown /\ HaveObjects' /\ Known' /\ Fits'
      BY <1>1, <2>1, ObjectsGrow, HaveObjectsSame, KnownKept, FitsKept DEF Typed, Base, vars
    <2> QED BY <1>1, <2>1, <2>2 DEF vars, history, Typed, Grown, Base, Refs, Calls
  <1>2. ASSUME NEW c \in Callers, Request(c)
        PROVE  Typed'
    <2>1. caller[c] # Idle /\ caller[c].op # "create" => caller[c].seen # "absent"
      BY DEF Rows, RowsOfCalls
    <2> QED BY <1>2, <2>1, TypedSimpleRequest, TypedObjectRequest, TypedRegister DEF Request
  <1>3. ASSUME NEW o \in DOMAIN managed, Inside(o)
        PROVE  Typed'
    BY <1>3, TypedInside, TypedElsewhere DEF Inside
  <1>4. ASSUME NEW s \in Sids, Interrupt(s) \/ Patrol(s)
        PROVE  Typed'
    BY <1>4, TypedElsewhere
  <1> QED BY <1>1, <1>2, <1>3, <1>4 DEF Next

LEMMA TypedRows ==
  Spec => [](Typed /\ Rows)
  <1>1. Init => Typed /\ Rows
    BY TypedInit, RowsInit
  <1>2. (Typed /\ Rows) /\ [Next]_vars => (Typed /\ Rows)'
    BY TypedNext, RowsNext
  <1> QED BY <1>1, <1>2, PTL DEF Spec

-----------------------------------------------------------------------------
(* What a request does, of a state with the right types.                   *)

LEMMA FindDoes ==
  ASSUME Typed, NEW c \in Callers, caller[c] # Idle, Find(c)
  PROVE  /\ TouchesNone
         /\ \/ /\ Usable(caller[c].sid) /\ sessions[caller[c].sid] \in DOMAIN managed
               /\ Arrives(c, sessions[caller[c].sid], managed[sessions[caller[c].sid]].status)
            \/ Moves(c, "lock", caller[c].object, caller[c].seen)
  BY CallTyped, FindEffect DEF Usable

LEMMA DiscardDoes ==
  ASSUME Typed, NEW c \in Callers, caller[c] # Idle, Discard(c)
  PROVE  /\ caller[c].object \in DOMAIN managed /\ Sid(caller[c].object) = caller[c].sid
         /\ Moves(c, "capacity", Nobody, caller[c].seen)
         /\ Becomes(caller[c].object, "dropped", "closed", "over", 0, 0, FALSE,
                    IF UnderEviction(caller[c].object) THEN managed[caller[c].object].evict ELSE "done")
         /\ Unregisters(caller[c].sid)
  <1>1. caller[c].object \in DOMAIN managed /\ Sid(caller[c].object) = caller[c].sid
    BY CallTyped DEF Discard, HasObject, Held
  <1>2. Unregisters(caller[c].sid)
    BY DEF Discard, Unregistered, Unregisters
  <1> QED BY <1>1, <1>2, CallTyped, DiscardEffect

LEMMA MakeRoomDoes ==
  ASSUME Typed, NEW c \in Callers, caller[c] # Idle, NEW o \in Active, MakeRoom(c, o)
  PROVE  /\ o \in DOMAIN managed /\ sessions[Sid(o)] = o /\ managed[o].key = "sid"
         /\ managed[o].status # "running"
         /\ Sid(o) \notin disconnecting /\ disconnecting' = disconnecting \cup {Sid(o)}
         /\ Moves(c, "evicting", o, caller[c].seen)
         /\ \E e \in {"timer", "disconnect"} :
              Becomes(o, managed[o].key, managed[o].status, managed[o].actor,
                      managed[o].turns, managed[o].inbox, managed[o].settling, e)
  <1>1. o \in DOMAIN managed
    BY DEF Active, Typed, Known
  <1>2. /\ managed[o].key = "sid" /\ managed[o].status # "running"
        /\ Sid(o) \notin disconnecting /\ disconnecting' = disconnecting \cup {Sid(o)}
    BY DEF MakeRoom, Evicting, Victims
  <1>3. sessions[Sid(o)] = o
    BY <1>2 DEF Active, Typed, Known, Temporary
  <1> QED BY <1>1, <1>2, <1>3, CallTyped, MakeRoomEffect

LEMMA StartedDoes ==
  ASSUME Typed, NEW c \in Callers, caller[c] # Idle, Started(c)
  PROVE  LET o == caller[c].object IN
         /\ o \in DOMAIN managed /\ Sid(o) = caller[c].sid
         /\ Becomes(o, managed[o].key, managed[o].status, Begun(o), managed[o].turns,
                    managed[o].inbox, managed[o].settling, managed[o].evict)
         /\ \/ caller[c].op = "create" /\ Moves(c, "query", o, caller[c].seen)
            \/ caller[c].op # "create" /\ Arrives(c, o, managed[o].status)
  <1>1. caller[c].object \in DOMAIN managed /\ Sid(caller[c].object) = caller[c].sid
    BY CallTyped DEF Started, HasObject, Held
  <1> QED BY <1>1, CallTyped, StartedEffect

LEMMA QueryDoes ==
  ASSUME Typed, NEW c \in Callers, caller[c] # Idle, Query(c)
  PROVE  LET o == caller[c].object IN
         /\ o \in DOMAIN managed /\ Sid(o) = caller[c].sid
         /\ overlapped' = IF Busy(o) THEN overlapped \cup {o} ELSE overlapped
         /\ \/ /\ Refuses(o)
               /\ Becomes(o, managed[o].key, "ended", managed[o].actor, managed[o].turns,
                          managed[o].inbox, managed[o].settling, managed[o].evict)
               /\ Moves(c, "failed", o, caller[c].seen)
            \/ /\ ~Refuses(o)
               /\ Becomes(o, managed[o].key, "running", managed[o].actor, managed[o].turns + 1,
                          managed[o].inbox, managed[o].settling, managed[o].evict)
               /\ \/ caller[c].op = "create" /\ Moves(c, "naming", o, caller[c].seen)
                  \/ caller[c].op # "create" /\ Leaves(c)
  <1>1. caller[c].object \in DOMAIN managed /\ Sid(caller[c].object) = caller[c].sid
    BY CallTyped DEF Query, HasObject, Held
  <1> QED BY <1>1, CallTyped, QueryEffect

LEMMA RetiresDoes ==
  ASSUME Typed, NEW c \in Callers, caller[c] # Idle,
         StartFails(c) \/ CleanedUp(c) \/ (Failed(c) /\ caller[c].op = "create")
  PROVE  LET o == caller[c].object IN
         /\ o \in DOMAIN managed /\ Sid(o) = caller[c].sid /\ Leaves(c)
         /\ Becomes(o, "dropped", "closed", "over", 0, 0, FALSE,
                    IF UnderEviction(o) THEN managed[o].evict ELSE "done")
  <1>1. caller[c].object \in DOMAIN managed /\ Sid(caller[c].object) = caller[c].sid
    BY CallTyped DEF StartFails, CleanedUp, Failed, HasObject, Held
  <1>2. managed' = Retired(caller[c].object) /\ Leaves(c)
    BY CallTyped, Leaving DEF StartFails, CleanedUp, Failed
  <1> QED BY <1>1, <1>2, CallTyped, RetiredObject

LEMMA NamingFailsDoes ==
  ASSUME Typed, NEW c \in Callers, caller[c] # Idle, NamingFails(c)
  PROVE  LET o == caller[c].object IN
         /\ o \in DOMAIN managed /\ Sid(o) = caller[c].sid /\ managed[o].key \in Temporary
         /\ Moves(c, "cleanup", o, caller[c].seen)
         /\ Becomes(o, IF managed[o].key = "temp" THEN "popped" ELSE "closing",
                    managed[o].status, managed[o].actor, managed[o].turns,
                    managed[o].inbox, managed[o].settling, managed[o].evict)
  <1>1. /\ caller[c].object \in DOMAIN managed /\ Sid(caller[c].object) = caller[c].sid
        /\ managed[caller[c].object].key \in Temporary
    BY CallTyped DEF NamingFails, HasObject, Held
  <1> QED BY <1>1, CallTyped, NamingFailsEffect

LEMMA RegisterDoes ==
  ASSUME Typed, Rows, NEW c \in Callers, caller[c] # Idle, Register(c)
  PROVE  LET s == caller[c].sid
             o == Len(managed) + 1
         IN
         /\ s \in Sids /\ Moves(c, "starting", o, caller[c].seen)
         /\ \/ /\ caller[c].op = "create" /\ Adds(o, s, "running", "temp")
               /\ UNCHANGED <<sessions, stale, collided>>
            \/ /\ caller[c].op # "create" /\ Adds(o, s, caller[c].seen, "sid")
               /\ meta[s] # "absent"
               /\ sessions' = [sessions EXCEPT ![s] = o]
               /\ stale' = IF caller[c].seen = "running" THEN stale \cup {s} ELSE stale
               /\ collided' = IF \E x \in DOMAIN managed : Sid(x) = s /\ UnderEviction(x)
                              THEN collided \cup {s} ELSE collided
  BY CallTyped, RegisterEffect DEF Rows, RowsOfCalls

\* The requests that leave the objects alone.
LEMMA OthersTouchNone ==
  ASSUME Typed, NEW c \in Callers,
         \/ \E s \in Sids : Send(c, s) \/ Attach(c, s) \/ Create(c, s)
         \/ caller[c] # Idle /\ (Find(c) \/ Acquire(c) \/ Room(c) \/ NoRoom(c) \/ RoomMade(c)
                                   \/ WriteRunning(c) \/ Named(c) \/ (Failed(c) /\ caller[c].op # "create"))
  PROVE  TouchesNone
  <1>1. CASE caller[c] # Idle /\ (Find(c) \/ Acquire(c))
    BY <1>1, CallTyped, FindEffect, AcquireEffect
  <1>2. CASE UNCHANGED managed
    BY <1>2, NoneTouched DEF Typed
  <1> QED BY <1>1, <1>2 DEF Send, Attach, Create, Room, NoRoom, RoomMade, WriteRunning, Named, Failed

\* What goes on inside an object, of a state with the right types.
LEMMA InsideDoes ==
  ASSUME Typed, NEW o \in DOMAIN managed
  PROVE  /\ Die(o) => Becomes(o, managed[o].key, "ended", "over", 0, managed[o].inbox,
                              managed[o].settling, managed[o].evict)
         /\ Finalized(o) => Becomes(o, managed[o].key, managed[o].status, managed[o].actor,
                              managed[o].turns, managed[o].inbox, FALSE, managed[o].evict)
         /\ PersistError(o) \/ CleanupNothing(o) => TouchesNone
         /\ CleanupDead(o) =>
              LET m == sessions[Sid(o)] IN
              /\ m \in DOMAIN managed /\ Sid(m) = Sid(o) /\ Over(m) /\ Drained(m)
              /\ Unregisters(Sid(o)) /\ disconnecting' = disconnecting \ {Sid(o)}
              /\ Becomes(m, "dropped", "closed", "over", 0, 0, FALSE,
                         IF UnderEviction(m) THEN managed[m].evict ELSE "done")
  <1>0. Objects /\ Sid(o) \in Sids
    BY FieldsTyped DEF Typed
  <1>1. sessions[Sid(o)] # Nobody => sessions[Sid(o)] \in DOMAIN managed /\ Sid(sessions[Sid(o)]) = Sid(o)
    BY <1>0 DEF Typed, Known
  <1>2. Die(o) => Becomes(o, managed[o].key, "ended", "over", 0, managed[o].inbox,
                          managed[o].settling, managed[o].evict)
    BY <1>0, <1>1, DieObject
  <1>3. Finalized(o) => Becomes(o, managed[o].key, managed[o].status, managed[o].actor,
                                managed[o].turns, managed[o].inbox, FALSE, managed[o].evict)
    BY <1>0, <1>1, FinalizedObject
  <1>4. PersistError(o) \/ CleanupNothing(o) => TouchesNone
    BY <1>0, NoneTouched, TimerTouched DEF PersistError, CleanupNothing, TimerOff
  <1>5. ASSUME CleanupDead(o)
        PROVE  LET m == sessions[Sid(o)] IN
               /\ m \in DOMAIN managed /\ Sid(m) = Sid(o) /\ Over(m) /\ Drained(m)
               /\ Unregisters(Sid(o)) /\ disconnecting' = disconnecting \ {Sid(o)}
               /\ Becomes(m, "dropped", "closed", "over", 0, 0, FALSE,
                          IF UnderEviction(m) THEN managed[m].evict ELSE "done")
    <2> DEFINE m == sessions[Sid(o)]
    <2>1. m \in DOMAIN managed /\ Sid(m) = Sid(o) /\ Over(m) /\ Drained(m)
      BY <1>1, <1>5 DEF CleanupDead, Cleanable
    <2>2. managed' = Retired(m) /\ Unregisters(Sid(o)) /\ disconnecting' = disconnecting \ {Sid(o)}
      BY <1>5 DEF CleanupDead, Unregistered, Unregisters
    <2> HIDE DEF m
    <2>3. Becomes(m, "dropped", "closed", "over", 0, 0, FALSE,
                  IF UnderEviction(m) THEN managed[m].evict ELSE "done")
      BY <1>0, <2>1, <2>2, RetiredObject
    <2> QED BY <2>1, <2>2, <2>3 DEF m
  <1> QED BY <1>2, <1>3, <1>4, <1>5

\* The object o is given an eviction: o is what the registry has, and idle.
Evicts(o) ==
  /\ sessions[Sid(o)] = o /\ managed[o].key = "sid" /\ managed[o].status # "running"
  /\ Sid(o) \notin disconnecting /\ disconnecting' = disconnecting \cup {Sid(o)}
  /\ UNCHANGED <<sessions, lockOf, meta, persisting, overlapped, stale, collided>>
  /\ \E e \in {"timer", "disconnect"} :
       Becomes(o, managed[o].key, managed[o].status, managed[o].actor,
               managed[o].turns, managed[o].inbox, managed[o].settling, e)

Drops(o) ==
  Becomes(o, "dropped", "closed", "over", 0, 0, FALSE,
          IF UnderEviction(o) THEN managed[o].evict ELSE "done")

\* Steps of the object o alone: its name, its turns, and its end.
Renames(o) ==
  LET m == managed[o] IN
  \/ MakeRow(o) /\ Becomes(o, IF m.key = "temp" THEN "created" ELSE "closing",
                           m.status, m.actor, m.turns, m.inbox, m.settling, m.evict)
  \/ RowFails(o) /\ Becomes(o, IF m.key = "temp" THEN "unnamed" ELSE "closing",
                            m.status, m.actor, m.turns, m.inbox, m.settling, m.evict)
  \/ SwapKeys(o) /\ Becomes(o, "sid", m.status, m.actor, m.turns, m.inbox, m.settling, m.evict)

Runs(o) ==
  LET m == managed[o] IN
  \/ Result(o) /\ Becomes(o, m.key, m.status, m.actor, m.turns - 1, m.inbox + 1, m.settling, m.evict)
  \/ Finalize(o) /\ Becomes(o, m.key, "ended", m.actor, m.turns, m.inbox - 1, TRUE, m.evict)
  \/ Finalized(o) /\ Becomes(o, m.key, m.status, m.actor, m.turns, m.inbox, FALSE, m.evict)

Ends(o) ==
  LET m == managed[o] IN
  \/ Die(o) /\ Becomes(o, m.key, "ended", "over", 0, m.inbox, m.settling, m.evict)
  \/ TimerEnded(o) /\ Becomes(o, m.key, m.status, m.actor, m.turns, m.inbox, m.settling, "disconnect")
  \/ Disconnected(o) /\ \E status \in {"closed", "ended"} :
       Becomes(o, m.key, status, "over", 0, m.inbox, m.settling, "drain")
  \/ Evicted(o) /\ Becomes(o, "dropped", "closed", "over", 0, 0, FALSE, "done")

ByItself(o) == Renames(o) \/ Runs(o) \/ Ends(o)

\* A step of the request c on the object o it has.
ByRequest(c, o) ==
  LET m == managed[o] IN
  /\ caller[c] # Idle /\ caller[c].object = o /\ Sid(o) = caller[c].sid
  /\ \/ Started(c) /\ Becomes(o, m.key, m.status, Begun(o), m.turns, m.inbox, m.settling, m.evict)
     \/ Query(c) /\ Refuses(o)
          /\ Becomes(o, m.key, "ended", m.actor, m.turns, m.inbox, m.settling, m.evict)
     \/ NamingFails(c) /\ m.key \in Temporary
          /\ Becomes(o, IF m.key = "temp" THEN "popped" ELSE "closing",
                     m.status, m.actor, m.turns, m.inbox, m.settling, m.evict)
     \/ Query(c) /\ ~Refuses(o)
          /\ Becomes(o, m.key, "running", m.actor, m.turns + 1, m.inbox, m.settling, m.evict)
     \/ (Discard(c) \/ StartFails(c) \/ CleanedUp(c) \/ (Failed(c) /\ caller[c].op = "create")) /\ Drops(o)

CleansUp(x, o) == CleanupDead(x) /\ o = sessions[Sid(x)] /\ Sid(o) = Sid(x) /\ Drops(o)

\* Every step changes one object at most, or makes one.
LEMMA ObjectsStep ==
  ASSUME Typed, [Next]_vars
  PROVE  \/ TouchesNone
         \/ \E c \in Callers : caller[c] # Idle /\ Register(c)
         \/ \E o \in DOMAIN managed :
              \/ ByItself(o) \/ Evicts(o)
              \/ \E c \in Callers : ByRequest(c, o)
              \/ \E x \in DOMAIN managed : CleansUp(x, o)
  <1>0. Objects
    BY DEF Typed
  <1>1. CASE UNCHANGED vars
    BY <1>0, <1>1, NoneTouched DEF vars
  <1>2. ASSUME NEW c \in Callers, Request(c), ~TouchesNone, ~Register(c)
        PROVE  \E o \in DOMAIN managed : ByRequest(c, o) \/ Evicts(o)
    <2>1. ASSUME Discard(c), caller[c] # Idle
          PROVE  \E o \in DOMAIN managed : ByRequest(c, o)
      <3>1. /\ caller[c].object \in DOMAIN managed /\ Sid(caller[c].object) = caller[c].sid
            /\ Drops(caller[c].object)
        BY <2>1, DiscardDoes DEF Drops
      <3>2. ByRequest(c, caller[c].object)
        BY <2>1, <3>1 DEF ByRequest
      <3> QED BY <3>1, <3>2
    <2>2. ASSUME NEW v \in Active, MakeRoom(c, v), caller[c] # Idle
          PROVE  v \in DOMAIN managed /\ Evicts(v)
      BY <2>2, MakeRoomDoes DEF Evicts, MakeRoom, history
    <2>3. ASSUME Started(c), caller[c] # Idle
          PROVE  \E o \in DOMAIN managed : ByRequest(c, o)
      BY <2>3, StartedDoes DEF ByRequest
    <2>4. ASSUME Query(c), caller[c] # Idle
          PROVE  \E o \in DOMAIN managed : ByRequest(c, o)
      BY <2>4, QueryDoes DEF ByRequest
    <2>5. ASSUME StartFails(c) \/ CleanedUp(c) \/ (Failed(c) /\ caller[c].op = "create"), caller[c] # Idle
          PROVE  \E o \in DOMAIN managed : ByRequest(c, o)
      <3>1. /\ caller[c].object \in DOMAIN managed /\ Sid(caller[c].object) = caller[c].sid
            /\ Drops(caller[c].object)
        BY <2>5, RetiresDoes DEF Drops
      <3> QED BY <2>5, <3>1 DEF ByRequest
    <2>6. ASSUME NamingFails(c), caller[c] # Idle
          PROVE  \E o \in DOMAIN managed : ByRequest(c, o)
      BY <2>6, NamingFailsDoes DEF ByRequest
    <2>7. /\ caller[c] # Idle
          /\ \/ Discard(c) \/ Started(c) \/ Query(c) \/ StartFails(c) \/ NamingFails(c) \/ CleanedUp(c)
             \/ (Failed(c) /\ caller[c].op = "create")
             \/ \E v \in Active : MakeRoom(c, v)
      <3>1. ~\E s \in Sids : Send(c, s) \/ Attach(c, s) \/ Create(c, s)
        BY <1>2, OthersTouchNone
      <3>2. caller[c] # Idle /\ ~(Find(c) \/ Acquire(c) \/ Room(c) \/ NoRoom(c) \/ RoomMade(c)
                                 \/ WriteRunning(c) \/ Named(c) \/ (Failed(c) /\ caller[c].op # "create"))
        BY <1>2, <3>1, OthersTouchNone DEF Request
      <3> QED BY <1>2, <3>1, <3>2 DEF Request
    <2> QED BY <2>1, <2>2, <2>3, <2>4, <2>5, <2>6, <2>7
  <1>3. ASSUME NEW o \in DOMAIN managed, Inside(o), ~TouchesNone
        PROVE  \E m \in DOMAIN managed : ByItself(m) \/ Evicts(m) \/ CleansUp(o, m)
    <2>1. CASE MakeRow(o) \/ RowFails(o) \/ SwapKeys(o) \/ Result(o)
      BY <1>0, <2>1, MakeRowObject, RowFailsObject, SwapKeysObject, ResultObject DEF ByItself, Renames, Runs
    <2>2. CASE Finalize(o) \/ Finalized(o) \/ Die(o)
      BY <1>0, <2>2, FinalizeObject, InsideDoes DEF ByItself, Runs, Ends
    <2>3. CASE TimerEnded(o) \/ Disconnected(o) \/ Evicted(o)
      BY <1>0, <2>3, TimerEndedObject, DisconnectedObject, EvictedObject DEF ByItself, Ends
    <2>4. CASE Cleanup(o)
      BY <2>4, EvictsEffect DEF Evicts
    <2>5. CASE CleanupDead(o)
      BY <2>5, InsideDoes DEF CleansUp, Drops
    <2> QED BY <1>3, <2>1, <2>2, <2>3, <2>4, <2>5, InsideDoes DEF Inside
  <1>4. ASSUME NEW s \in Sids, Interrupt(s) \/ Patrol(s), ~TouchesNone
        PROVE  \E o \in DOMAIN managed : Evicts(o)
    <2>1. Patrol(s)
      BY <1>0, <1>4, NoneTouched DEF Interrupt
    <2> QED BY <2>1, EvictsEffect DEF Evicts
  <1>5. ASSUME NEW c \in Callers, Register(c)
        PROVE  caller[c] # Idle
    BY <1>5 DEF Register, Idle
  <1>6. \/ UNCHANGED vars
        \/ \E c \in Callers : Request(c)
        \/ \E o \in DOMAIN managed : Inside(o)
        \/ \E s \in Sids : Interrupt(s) \/ Patrol(s)
    BY DEF Next
  <1> QED BY <1>1, <1>2, <1>3, <1>4, <1>5, <1>6

-----------------------------------------------------------------------------
(* The turns of an object.                                                 *)

\* Of an object whose queries do not overlap: one turn, or one result, or one
\* that is settled; and the turn shows.
Settles(o) == o \notin overlapped =>
  /\ managed[o].turns + managed[o].inbox <= 1
  /\ managed[o].settling => managed[o].turns + managed[o].inbox = 0
  /\ ~Over(o) /\ managed[o].turns + managed[o].inbox > 0 => managed[o].status = "running"

Settle == \A o \in DOMAIN managed : Settles(o)

LEMMA OverlapsStay ==
  ASSUME [Next]_vars
  PROVE  overlapped \subseteq overlapped'
  <1>1. CASE UNCHANGED vars
    BY <1>1 DEF vars, history
  <1>2. ASSUME NEW c \in Callers, Request(c)
        PROVE  overlapped \subseteq overlapped'
    <2>1. CASE Query(c)
      BY <2>1 DEF Query
    <2>2. CASE \E s \in Sids : Send(c, s) \/ Attach(c, s) \/ Create(c, s)
      BY <2>2 DEF history, Send, Attach, Create
    <2>3. CASE \/ Find(c) \/ Acquire(c) \/ Discard(c) \/ Room(c) \/ NoRoom(c) \/ RoomMade(c)
               \/ \E o \in Active : MakeRoom(c, o)
      BY <2>3 DEF history, Find, Acquire, Discard, Room, NoRoom, RoomMade, MakeRoom
    <2>4. CASE \/ Register(c) \/ Started(c) \/ StartFails(c) \/ WriteRunning(c) \/ Failed(c)
               \/ Named(c) \/ NamingFails(c) \/ CleanedUp(c)
      BY <2>4 DEF history, Register, Started, StartFails, WriteRunning, Failed, Named, NamingFails, CleanedUp
    <2> QED BY <1>2, <2>1, <2>2, <2>3, <2>4 DEF Request
  <1>3. ASSUME NEW o \in DOMAIN managed, Inside(o)
        PROVE  overlapped \subseteq overlapped'
    BY <1>3 DEF Inside, history, MakeRow, RowFails, SwapKeys, Finalize, Finalized, Die, PersistError,
         Result, TimerEnded, Disconnected, Evicted, Cleanup, CleanupDead, CleanupNothing
  <1>4. ASSUME NEW s \in Sids, Interrupt(s) \/ Patrol(s)
        PROVE  overlapped \subseteq overlapped'
    BY <1>4 DEF Interrupt, Patrol, history
  <1> QED BY <1>1, <1>2, <1>3, <1>4 DEF Next

LEMMA SettleNext ==
  ASSUME Typed, Rows, Settle, [Next]_vars
  PROVE  Settle'
  <1>0. overlapped \subseteq overlapped' /\ Objects
    BY OverlapsStay DEF Typed
  <1> SUFFICES ASSUME NEW x \in DOMAIN managed', x \notin overlapped'
               PROVE  Settles(x)'
    BY DEF Settle, Settles
  <1>1. ASSUME x \in DOMAIN managed, Same(x)
        PROVE  Settles(x)'
    BY <1>0, <1>1 DEF Settle, Settles, Same, Over
  <1>2. CASE TouchesNone
    BY <1>1, <1>2 DEF TouchesNone
  <1>3. ASSUME NEW c \in Callers, caller[c] # Idle, Register(c)
        PROVE  Settles(x)'
    <2>1. PICK o, s, status, key : Adds(o, s, status, key)
      BY <1>3, RegisterDoes
    <2>2. CASE x = o
      BY <2>1, <2>2 DEF Adds, Settles
    <2> QED BY <1>1, <2>1, <2>2 DEF Adds
  <1>4. ASSUME NEW o \in DOMAIN managed, x = o,
               \/ ByItself(o) \/ Evicts(o)
               \/ \E c \in Callers : ByRequest(c, o)
               \/ \E y \in DOMAIN managed : CleansUp(y, o)
        PROVE  Settles(x)'
    <2>1. /\ managed[o].turns \in Nat /\ managed[o].inbox \in Nat /\ managed[o].settling \in BOOLEAN
          /\ managed[o].turns + managed[o].inbox <= 1
          /\ managed[o].settling => managed[o].turns + managed[o].inbox = 0
          /\ ~Over(o) /\ managed[o].turns + managed[o].inbox > 0 => managed[o].status = "running"
      BY <1>0, <1>4, FieldsTyped DEF Settle, Settles
    <2>2. CASE ByItself(o)
      <3>1. CASE Renames(o)
        BY <1>4, <2>1, <3>1 DEF Renames, Becomes, Settles, Over
      <3>2. CASE Runs(o)
        BY <1>4, <2>1, <3>2 DEF Runs, Becomes, Settles, Over, Result, Finalize
      <3>3. CASE Ends(o)
        BY <1>4, <2>1, <3>3 DEF Ends, Becomes, Settles, Over
      <3> QED BY <2>2, <3>1, <3>2, <3>3 DEF ByItself
    <2>3. CASE Evicts(o)
      BY <1>4, <2>1, <2>3 DEF Evicts, Becomes, Settles, Over
    <2>4. ASSUME NEW c \in Callers, ByRequest(c, o)
          PROVE  Settles(x)'
      <3>1. CASE Query(c)
        <4>1. ~Busy(o)
          BY <1>4, <2>4, <3>1 DEF ByRequest, Query
        <4>2. managed[o].turns = 0 /\ managed[o].inbox = 0 /\ managed[o].settling = FALSE
          BY <2>1, <4>1 DEF Busy, Drained
        <4> QED BY <1>4, <2>4, <3>1, <4>2 DEF ByRequest, Becomes, Settles, Over, Drops
      <3>2. CASE ~Query(c)
        BY <1>4, <2>1, <2>4, <3>2 DEF ByRequest, Becomes, Settles, Over, Drops, Begun
      <3> QED BY <3>1, <3>2
    <2>5. CASE \E y \in DOMAIN managed : CleansUp(y, o)
      BY <1>4, <2>5 DEF CleansUp, Drops, Becomes, Settles
    <2> QED BY <1>4, <2>2, <2>3, <2>4, <2>5
  <1>5. ASSUME NEW o \in DOMAIN managed, Touches(o), x # o
        PROVE  Settles(x)'
    BY <1>1, <1>5 DEF Touches
  <1>6. ASSUME NEW o \in DOMAIN managed,
               \/ ByItself(o) \/ Evicts(o)
               \/ \E c \in Callers : ByRequest(c, o)
               \/ \E y \in DOMAIN managed : CleansUp(y, o)
        PROVE  Touches(o)
    BY <1>6 DEF ByItself, Renames, Runs, Ends, Evicts, ByRequest, CleansUp, Drops, Becomes
  <1> QED BY <1>2, <1>3, <1>4, <1>5, <1>6, ObjectsStep

LEMMA SettleAlways ==
  Spec => []Settle
  <1>1. Init => Settle
    BY DEF Init, Settle
  <1>2. Typed /\ Rows /\ Settle /\ [Next]_vars => Settle'
    BY SettleNext
  <1> QED BY <1>1, <1>2, TypedRows, PTL DEF Spec

\* The registry, the rows, the objects and the requests have their types.
THEOREM ManagerTyping == Spec => []TypeOK
  <1>1. ASSUME Typed
        PROVE  TypeOK
    <2>1. sessions \in [Sids -> 0 .. Len(managed)]
      BY <1>1 DEF Typed, Base, Known, Objects, Nobody
    <2>2. /\ disconnecting \subseteq Sids /\ lockOf \in [Sids -> Nat]
          /\ meta \in [Sids -> {"absent", "running", "ended"}] /\ Len(managed) <= MaxObjects
          /\ persisting \cup overlapped \subseteq DOMAIN managed /\ stale \cup collided \subseteq Sids
          /\ asked \in 0 .. MaxQueries /\ deaths \in 0 .. MaxDeaths
      BY <1>1 DEF Typed, Base, Refs, Written
    <2>3. ASSUME NEW o \in DOMAIN managed
          PROVE  /\ managed[o].sid \in Sids /\ managed[o].key \in Temporary \cup Popped \cup {"sid", "dropped"}
                 /\ managed[o].status \in Statuses /\ managed[o].actor \in {"starting", "up", "over"}
                 /\ managed[o].turns + managed[o].inbox \in 0 .. asked
                 /\ managed[o].timer \in BOOLEAN /\ managed[o].settling \in BOOLEAN
                 /\ managed[o].evict \in {"no", "timer", "disconnect", "drain", "done"}
      <3>1. managed[o] \in Object
        BY <1>1, ObjectIs DEF Typed
      <3>2. managed[o].turns + managed[o].inbox \in 0 .. asked
        BY <1>1, <3>1 DEF Typed, Base, Fits, Object
      <3> QED BY <3>1, <3>2 DEF Object
    <2>4. \A c \in Callers : caller[c] = Idle \/ caller[c].sid \in Sids
      BY <1>1, CallTyped
    <2> QED BY <2>1, <2>2, <2>3, <2>4 DEF TypeOK
  <1> QED BY <1>1, TypedRows, PTL

\* While an actor has a turn to run or a result to settle, its session is shown as
\* running: unless two requests overlapped, nobody evicts a session at work.
THEOREM ManagerShowsTurns == Spec => []TurnShown
  <1>1. ASSUME Typed, Settle
        PROVE  TurnShown
    <2> SUFFICES ASSUME NEW o \in DOMAIN managed \ overlapped, Live(o),
                        managed[o].turns > 0 \/ managed[o].inbox > 0
                 PROVE  managed[o].status = "running"
      BY DEF TurnShown
    <2>1. managed[o].turns \in Nat /\ managed[o].inbox \in Nat
      BY <1>1, FieldsTyped DEF Typed
    <2>2. ~Over(o) /\ managed[o].turns + managed[o].inbox > 0
      BY <2>1 DEF Live, Over
    <2> QED BY <1>1, <2>2 DEF Settle, Settles
  <1> QED BY <1>1, TypedRows, SettleAlways, PTL

-----------------------------------------------------------------------------
(* The limit.                                                              *)

\* No object begins to count against the limit but one that is registered.
LEMMA ActiveShrinks ==
  ASSUME Typed, Typed', [Next]_vars, ~\E c \in Callers : Register(c)
  PROVE  Active' \subseteq Active
  <1>0. sessions \in [Sids -> Nat] /\ Objects
    BY DEF Typed, Base
  <1>1. ASSUME NEW x \in DOMAIN managed', managed'[x].key \in Temporary
        PROVE  x \in Active
    <2>1. CASE TouchesNone
      BY <1>1, <2>1 DEF TouchesNone, Same, Active
    <2>2. ASSUME NEW o \in DOMAIN managed, ByItself(o)
          PROVE  x \in Active
      BY <1>1, <2>2 DEF ByItself, Renames, Runs, Ends, Becomes, Touches, Same, MakeRow, SwapKeys,
         Nameable, Temporary, Active
    <2>3. ASSUME NEW o \in DOMAIN managed,
                 Evicts(o) \/ (\E c \in Callers : ByRequest(c, o)) \/ \E y \in DOMAIN managed : CleansUp(y, o)
          PROVE  x \in Active
      BY <1>1, <2>3 DEF Evicts, ByRequest, CleansUp, Drops, Becomes, Touches, Same, Temporary, Active
    <2> QED BY <2>1, <2>2, <2>3, ObjectsStep
  <1>2. ASSUME NEW s \in Sids \ disconnecting', sessions'[s] # Nobody
        PROVE  sessions'[s] \in Active
    <2>1. ASSUME NEW o \in DOMAIN managed, SwapKeys(o)
          PROVE  sessions'[s] \in Active
      BY <1>0, <1>2, <2>1 DEF SwapKeys, Temporary, Active
    <2>2. ASSUME s \notin disconnecting, sessions'[s] = sessions[s]
          PROVE  sessions'[s] \in Active
      BY <1>2, <2>2 DEF Active
    <2>3. CASE UNCHANGED vars
      BY <1>2, <2>2, <2>3 DEF vars
    <2>4. ASSUME NEW c \in Callers, Request(c)
          PROVE  sessions'[s] \in Active
      <3>1. CASE Discard(c) \/ StartFails(c) \/ \E o \in Active : MakeRoom(c, o)
        BY <1>0, <1>2, <2>2, <3>1 DEF Discard, StartFails, MakeRoom, Evicting, Unregistered
      <3>2. CASE UNCHANGED <<sessions, disconnecting>>
        BY <1>2, <2>2, <3>2
      <3>3. CASE \/ \E r \in Sids : Send(c, r) \/ Attach(c, r) \/ Create(c, r)
                 \/ Find(c) \/ Acquire(c) \/ Room(c) \/ NoRoom(c) \/ RoomMade(c)
        BY <3>2, <3>3 DEF Send, Attach, Create, Find, Acquire, Room, NoRoom, RoomMade
      <3>4. CASE \/ Started(c) \/ WriteRunning(c) \/ Query(c) \/ Failed(c)
                 \/ Named(c) \/ NamingFails(c) \/ CleanedUp(c)
        BY <3>2, <3>4 DEF Started, WriteRunning, Query, Failed, Named, NamingFails, CleanedUp
      <3> QED BY <2>4, <3>1, <3>3, <3>4 DEF Request
    <2>5. ASSUME NEW o \in DOMAIN managed, Inside(o)
          PROVE  sessions'[s] \in Active
      BY <1>0, <1>2, <2>1, <2>2, <2>5 DEF Inside, MakeRow, RowFails, Finalize, Finalized, Die, PersistError, Evicting,
         Result, TimerEnded, Disconnected, Evicted, Cleanup, CleanupDead, CleanupNothing, Unregistered
    <2>6. ASSUME NEW r \in Sids, Interrupt(r) \/ Patrol(r)
          PROVE  sessions'[s] \in Active
      BY <1>2, <2>2, <2>6 DEF Interrupt, Patrol, Evicting
    <2> QED BY <2>3, <2>4, <2>5, <2>6 DEF Next
  <1> QED BY <1>1, <1>2 DEF Active

\* The sessions and the requests can be counted.
Countable ==
  /\ IsFiniteSet(Admitted) /\ IsFiniteSet(Active)
  /\ Cardinality(Active) \in Nat /\ Cardinality(Admitted) \in Nat /\ Cardinality(Callers) \in Nat
  /\ Cardinality(Admitted) <= Cardinality(Callers)

LEMMA Counting ==
  ASSUME Typed
  PROVE  Countable
  <1>1. Admitted \subseteq Callers
    BY DEF Admitted
  <1>2. IsFiniteSet(Admitted) /\ Cardinality(Admitted) <= Cardinality(Callers)
    BY <1>1, SessionAssumption, FS_Subset
  <1>3. IsFiniteSet(DOMAIN managed)
    <2>1. Len(managed) \in Nat /\ DOMAIN managed = 1 .. Len(managed)
      BY DEF Typed, Objects
    <2> QED BY <2>1, FS_Interval
  <1>4. Active \subseteq DOMAIN managed
    BY DEF Active, Typed, Known
  <1>5. IsFiniteSet(Active)
    BY <1>3, <1>4, FS_Subset
  <1> QED BY <1>1, <1>2, <1>5, SessionAssumption, FS_CardinalityType DEF Countable

\* The requests that are let in after a step.
LEMMA AdmittedStep ==
  ASSUME Typed, Rows, [Next]_vars
  PROVE  \/ Admitted' \subseteq Admitted /\ ~\E c \in Callers : caller[c] # Idle /\ Register(c)
         \/ ~Full /\ ~\E c \in Callers : caller[c] # Idle /\ Register(c)
         \/ \E c \in Callers, o \in Active :
              caller[c] # Idle /\ MakeRoom(c, o) /\ Admitted' \subseteq Admitted \cup {c}
         \/ \E c \in Admitted :
              caller[c] # Idle /\ Register(c) /\ Admitted' \subseteq Admitted \ {c}
  <1>0. Calls
    BY DEF Typed
  <1>1. ASSUME UNCHANGED caller
        PROVE  Admitted' \subseteq Admitted
    BY <1>1 DEF Admitted
  <1>2. ASSUME NEW c \in Callers, Others(c), caller'[c].pc \notin {"evicting", "build"} \/ c \in Admitted
        PROVE  Admitted' \subseteq Admitted
    BY <1>2 DEF Others, Admitted
  <1>3. ASSUME NEW c \in Callers, Leaves(c)
        PROVE  Admitted' \subseteq Admitted
    BY <1>2, <1>3 DEF Leaves, Idle
  <1>4. ASSUME NEW c \in Callers, NEW o, NEW status, Arrives(c, o, status)
        PROVE  Admitted' \subseteq Admitted
    BY <1>2, <1>3, <1>4 DEF Arrives, Moves
  <1>5. ASSUME NEW c \in Callers, caller[c] # Idle, Register(c)
        PROVE  c \in Admitted /\ Admitted' \subseteq Admitted \ {c}
    <2>1. Others(c) /\ caller'[c].pc = "starting" /\ caller[c].pc = "build"
      BY <1>5, RegisterDoes DEF Register, Moves
    <2> QED BY <2>1 DEF Others, Admitted
  <1>6. ASSUME NEW c \in Callers, caller[c] # Idle, NEW o \in Active, MakeRoom(c, o)
        PROVE  Admitted' \subseteq Admitted \cup {c}
    <2>1. Others(c)
      BY <1>6, MakeRoomDoes DEF Moves
    <2> QED BY <2>1 DEF Others, Admitted
  <1>7. ASSUME NEW c \in Callers, Request(c), ~Register(c), ~(\E o \in Active : MakeRoom(c, o)), Full
        PROVE  Admitted' \subseteq Admitted
    <2>1. ASSUME NEW s \in Sids, Send(c, s) \/ Attach(c, s) \/ Create(c, s)
          PROVE  Admitted' \subseteq Admitted
      <3>1. meta[s] \in Written
        BY DEF Typed, Base
      <3>2. Others(c) /\ caller'[c].pc \in {"find", "capacity"}
        BY <1>0, <2>1, <3>1, Beginning DEF Begins
      <3> QED BY <1>2, <3>2
    <2>2. ASSUME caller[c] # Idle, Find(c) \/ Acquire(c)
          PROVE  Admitted' \subseteq Admitted
      <3>1. Others(c) /\ caller'[c].pc \notin {"evicting", "build"}
        BY <1>0, <2>2, CallTyped, FindEffect, AcquireEffect DEF Arrives, Leaves, Moves, Idle, Typed
      <3> QED BY <1>2, <3>1
    <2>3. ASSUME caller[c] # Idle, Discard(c) \/ Started(c) \/ Query(c)
          PROVE  Admitted' \subseteq Admitted
      <3>1. Others(c) /\ caller'[c].pc \notin {"evicting", "build"}
        <4>1. CASE Discard(c)
          BY <2>3, <4>1, DiscardDoes DEF Moves
        <4>2. CASE Started(c)
          BY <2>3, <4>2, StartedDoes DEF Arrives, Leaves, Moves, Idle
        <4>3. CASE Query(c)
          BY <2>3, <4>3, QueryDoes DEF Leaves, Moves, Idle
        <4> QED BY <2>3, <4>1, <4>2, <4>3
      <3> QED BY <1>2, <3>1
    <2>4. ASSUME caller[c] # Idle, NoRoom(c) \/ StartFails(c) \/ Failed(c) \/ Named(c) \/ CleanedUp(c)
          PROVE  Admitted' \subseteq Admitted
      BY <1>0, <1>3, <2>4, Leaving DEF NoRoom, StartFails, Failed, Named, CleanedUp
    <2>7. ASSUME caller[c] # Idle, NamingFails(c)
          PROVE  Admitted' \subseteq Admitted
      <3>1. Others(c) /\ caller'[c].pc = "cleanup"
        BY <2>7, NamingFailsDoes DEF Moves
      <3> QED BY <1>2, <3>1
    <2>5. ASSUME caller[c] # Idle, RoomMade(c)
          PROVE  Admitted' \subseteq Admitted
      <3>1. Others(c) /\ c \in Admitted
        BY <1>0, <2>5, MovingNow DEF RoomMade, Place, Moves, Admitted
      <3> QED BY <1>2, <3>1
    <2>6. ASSUME caller[c] # Idle, WriteRunning(c)
          PROVE  Admitted' \subseteq Admitted
      <3>1. Others(c) /\ caller'[c].pc = "query"
        BY <1>0, <2>6, MovingNow DEF WriteRunning, Place, Moves
      <3> QED BY <1>2, <3>1
    <2> QED BY <1>7, <2>1, <2>2, <2>3, <2>4, <2>5, <2>6, <2>7 DEF Request, Room
  <1>8. ASSUME NEW o \in DOMAIN managed, Inside(o)
        PROVE  UNCHANGED caller /\ ~\E c \in Callers : caller[c] # Idle /\ Register(c)
    <2>1. UNCHANGED caller
      BY <1>8 DEF Inside, MakeRow, RowFails, SwapKeys, Finalize, Finalized, Die, PersistError,
         Result, TimerEnded, Disconnected, Evicted, Cleanup, CleanupDead, CleanupNothing
    <2> QED BY <1>5, <2>1 DEF Admitted
  <1>9. ASSUME NEW s \in Sids, Interrupt(s) \/ Patrol(s)
        PROVE  UNCHANGED caller
    BY <1>9 DEF Interrupt, Patrol
  <1>10. UNCHANGED caller => ~\E c \in Callers : caller[c] # Idle /\ Register(c)
    BY <1>5 DEF Admitted
  <1>11. UNCHANGED vars => UNCHANGED caller
    BY DEF vars
  <1>12. ASSUME NEW c \in Callers, Register(c)
         PROVE  caller[c] # Idle
    BY <1>12 DEF Register, Idle
  <1>13. ASSUME NEW c \in Callers, NEW o \in Active, MakeRoom(c, o)
         PROVE  caller[c] # Idle
    BY <1>13 DEF MakeRoom, Idle
  <1> QED BY <1>1, <1>5, <1>6, <1>7, <1>8, <1>9, <1>10, <1>11, <1>12, <1>13 DEF Next

LEMMA WithinLimitNext ==
  ASSUME Typed, Typed', Rows, Countable, Countable', WithinLimit, [Next]_vars
  PROVE  WithinLimit'
  <1> DEFINE A == Cardinality(Active)
             B == Cardinality(Admitted)
             N == Cardinality(Callers)
  <1>1. /\ IsFiniteSet(Active) /\ A \in Nat /\ IsFiniteSet(Admitted) /\ B \in Nat /\ N \in Nat /\ B <= N
        /\ A + B < MaxActive + N /\ MaxActive \in Nat
    BY SessionAssumption DEF Countable, WithinLimit
  <1>2. IsFiniteSet(Active') /\ A' \in Nat /\ IsFiniteSet(Admitted') /\ B' \in Nat /\ B' <= N
    BY DEF Countable
  <1>3. SUFFICES A' + B' < MaxActive + N
    BY DEF WithinLimit
  <1>4. ASSUME ~\E c \in Callers : caller[c] # Idle /\ Register(c)
        PROVE  Active' \subseteq Active
    <2>1. ASSUME NEW c \in Callers, Register(c)
          PROVE  caller[c] # Idle
      BY <2>1 DEF Register, Idle
    <2> QED BY <1>4, <2>1, ActiveShrinks
  <1>5. Active' \subseteq Active => A' <= A
    BY <1>1, FS_Subset
  <1>6. CASE Admitted' \subseteq Admitted /\ ~\E c \in Callers : caller[c] # Idle /\ Register(c)
    <2>1. B' <= B
      BY <1>1, <1>6, FS_Subset
    <2> QED BY <1>1, <1>2, <1>4, <1>5, <1>6, <2>1
  <1>7. CASE ~Full /\ ~\E c \in Callers : caller[c] # Idle /\ Register(c)
    BY <1>1, <1>2, <1>4, <1>5, <1>7 DEF Full
  <1>8. ASSUME NEW c \in Callers, NEW o \in Active, caller[c] # Idle, MakeRoom(c, o),
               Admitted' \subseteq Admitted \cup {c}
        PROVE  A' + B' < MaxActive + N
    <2>1. /\ o \in DOMAIN managed /\ managed[o].key = "sid" /\ disconnecting' = disconnecting \cup {Sid(o)}
          /\ sessions' = sessions /\ Touches(o) /\ managed'[o].key = "sid"
          /\ Moves(c, "evicting", o, caller[c].seen)
      <3>1. /\ o \in DOMAIN managed /\ managed[o].key = "sid" /\ disconnecting' = disconnecting \cup {Sid(o)}
            /\ Moves(c, "evicting", o, caller[c].seen)
        BY <1>8, MakeRoomDoes
      <3>2. Touches(o) /\ managed'[o].key = managed[o].key
        BY <1>8, MakeRoomDoes DEF Becomes
      <3>3. sessions' = sessions
        BY <1>8 DEF MakeRoom
      <3> QED BY <3>1, <3>2, <3>3
    <2>2. Active' \subseteq Active \ {o}
      <3>1. Active' \subseteq Active
        <4>1. ASSUME NEW d \in Callers, Register(d)
              PROVE  FALSE
          <5>1. caller[d] # Idle /\ caller[d].pc = "build" /\ caller[c].pc = "capacity"
            BY <1>8, <4>1 DEF Register, MakeRoom, Idle
          <5>2. caller'[d].pc = "starting"
            BY <4>1, <5>1, RegisterDoes DEF Moves
          <5> QED BY <2>1, <5>1, <5>2 DEF Moves, Others
        <4> QED BY <4>1, ActiveShrinks
      <3>2. o \notin Active'
        <4>1. \A s \in Sids : sessions[s] = o => s = Sid(o)
          BY <2>1 DEF Typed, Known, Nobody, Objects
        <4> QED BY <2>1, <4>1 DEF Active, Temporary
      <3> QED BY <3>1, <3>2
    <2>3. IsFiniteSet(Active \ {o}) /\ Cardinality(Active \ {o}) = A - 1
      BY <1>1, <1>8, FS_RemoveElement
    <2>4. A' <= A - 1
      BY <2>2, <2>3, FS_Subset
    <2>5. IsFiniteSet(Admitted \cup {c}) /\ Cardinality(Admitted \cup {c}) <= B + 1
      <3>1. IsFiniteSet(Admitted \cup {c})
            /\ Cardinality(Admitted \cup {c})
                 = IF c \in Admitted THEN Cardinality(Admitted) ELSE Cardinality(Admitted) + 1
        BY <1>1, FS_AddElement
      <3> QED BY <1>1, <3>1
    <2>6. B' <= B + 1
      <3>1. B' <= Cardinality(Admitted \cup {c}) /\ Cardinality(Admitted \cup {c}) \in Nat
        BY <1>8, <2>5, FS_Subset, FS_CardinalityType
      <3> QED BY <1>1, <1>2, <2>5, <3>1
    <2> QED BY <1>1, <1>2, <2>4, <2>6
  <1>9. ASSUME NEW c \in Admitted, caller[c] # Idle, Register(c), Admitted' \subseteq Admitted \ {c}
        PROVE  A' + B' < MaxActive + N
    <2>1. c \in Callers
      BY DEF Admitted
    <2>2. PICK o, s, status, key :
            /\ Adds(o, s, status, key)
            /\ sessions' = sessions \/ (s \in Sids /\ sessions' = [sessions EXCEPT ![s] = o])
      BY <1>9, <2>1, RegisterDoes
    <2>3. Active' \subseteq Active \cup {o}
      BY <1>9, <2>2 DEF Adds, Same, Active, Register, Typed, Base
    <2>4. IsFiniteSet(Active \cup {o}) /\ Cardinality(Active \cup {o}) <= A + 1
      <3>1. IsFiniteSet(Active \cup {o})
            /\ Cardinality(Active \cup {o})
                 = IF o \in Active THEN Cardinality(Active) ELSE Cardinality(Active) + 1
        BY <1>1, FS_AddElement
      <3> QED BY <1>1, <3>1
    <2>5. A' <= A + 1
      <3>1. A' <= Cardinality(Active \cup {o}) /\ Cardinality(Active \cup {o}) \in Nat
        BY <2>3, <2>4, FS_Subset, FS_CardinalityType
      <3> QED BY <1>1, <1>2, <2>4, <3>1
    <2>6. IsFiniteSet(Admitted \ {c}) /\ Cardinality(Admitted \ {c}) = B - 1
      BY <1>1, FS_RemoveElement
    <2>7. B' <= B - 1
      BY <1>9, <2>6, FS_Subset
    <2> QED BY <1>1, <1>2, <2>5, <2>7
  <1> QED BY <1>6, <1>7, <1>8, <1>9, AdmittedStep

\* The sessions there are, and the requests let in to make one, exceed the limit by
\* less than the number of the requests.
THEOREM ManagerLimit == Spec => []WithinLimit
  <1>1. ASSUME Init
        PROVE  WithinLimit
    <2>1. Typed
      BY <1>1, TypedInit
    <2>2. Active = {}
      BY <1>1 DEF Init, Active
    <2>3. Cardinality(Active) = 0
      BY <2>2, FS_EmptySet
    <2>4. Cardinality(Admitted) <= Cardinality(Callers) /\ Cardinality(Admitted) \in Nat
          /\ Cardinality(Callers) \in Nat
      BY <2>1, Counting DEF Countable
    <2> QED BY <2>3, <2>4, SessionAssumption DEF WithinLimit
  <1>2. Typed /\ Typed' /\ Rows /\ Countable /\ Countable' /\ WithinLimit /\ [Next]_vars => WithinLimit'
    BY WithinLimitNext
  <1>3. Typed => Countable
    BY Counting
  <1> QED BY <1>1, <1>2, <1>3, TypedRows, PTL DEF Spec

-----------------------------------------------------------------------------
(* The shape of an object.                                                 *)

Shape(o) ==
  /\ Over(o) => managed[o].turns = 0
  /\ managed[o].actor = "starting" => Drained(o)
  /\ managed[o].key = "dropped" => Over(o) /\ Drained(o)
  /\ managed[o].evict = "drain" => Over(o)
  /\ managed[o].settling => managed[o].key \in {"sid", "unnamed", "closing"}

Shaped == \A o \in DOMAIN managed : Shape(o)

LEMMA OneObjectTouched ==
  ASSUME NEW o \in DOMAIN managed,
         \/ ByItself(o) \/ Evicts(o)
         \/ \E c \in Callers : ByRequest(c, o)
         \/ \E y \in DOMAIN managed : CleansUp(y, o)
  PROVE  Touches(o)
  BY DEF ByItself, Renames, Runs, Ends, Evicts, ByRequest, CleansUp, Drops, Becomes

LEMMA ShapedNext ==
  ASSUME Typed, Rows, Shaped, [Next]_vars
  PROVE  Shaped'
  <1> SUFFICES ASSUME NEW x \in DOMAIN managed'
               PROVE  Shape(x)'
    BY DEF Shaped
  <1>1. ASSUME x \in DOMAIN managed, Same(x)
        PROVE  Shape(x)'
    BY <1>1 DEF Shaped, Shape, Same, Over, Drained
  <1>2. CASE TouchesNone
    BY <1>1, <1>2 DEF TouchesNone
  <1>3. ASSUME NEW c \in Callers, caller[c] # Idle, Register(c)
        PROVE  Shape(x)'
    <2>1. PICK o, s, status, key : Adds(o, s, status, key) /\ key \in {"temp", "sid"}
      BY <1>3, RegisterDoes
    <2>2. CASE x = o
      BY <2>1, <2>2 DEF Adds, Shape, Over, Drained
    <2> QED BY <1>1, <2>1, <2>2 DEF Adds
  <1>4. ASSUME NEW o \in DOMAIN managed, x = o,
               \/ ByItself(o) \/ Evicts(o)
               \/ \E c \in Callers : ByRequest(c, o)
               \/ \E y \in DOMAIN managed : CleansUp(y, o)
        PROVE  Shape(x)'
    <2>1. /\ managed[o].turns \in Nat /\ managed[o].inbox \in Nat /\ managed[o].settling \in BOOLEAN
          /\ Shape(o)
      BY <1>4, FieldsTyped DEF Shaped, Typed
    <2>2. CASE Renames(o)
      BY <1>4, <2>1, <2>2 DEF Renames, Becomes, Shape, Over, Drained, MakeRow, RowFails, SwapKeys, Nameable
    <2>3. CASE Runs(o)
      BY <1>4, <2>1, <2>3 DEF Runs, Becomes, Shape, Over, Drained, Live, Result, Finalize
    <2>4. CASE Ends(o)
      BY <1>4, <2>1, <2>4 DEF Ends, Becomes, Shape, Over, Drained, Live, Die
    <2>5. CASE Evicts(o)
      BY <1>4, <2>1, <2>5 DEF Evicts, Becomes, Shape, Over, Drained
    <2>6. CASE \E c \in Callers : ByRequest(c, o)
      BY <1>4, <2>1, <2>6 DEF ByRequest, Drops, Becomes, Shape, Over, Drained, Begun, Refuses, Temporary
    <2>7. CASE \E y \in DOMAIN managed : CleansUp(y, o)
      BY <1>4, <2>7 DEF CleansUp, Drops, Becomes, Shape, Over, Drained
    <2> QED BY <1>4, <2>2, <2>3, <2>4, <2>5, <2>6, <2>7 DEF ByItself
  <1>5. ASSUME NEW o \in DOMAIN managed, Touches(o), x # o
        PROVE  Shape(x)'
    BY <1>1, <1>5 DEF Touches
  <1> QED BY <1>2, <1>3, <1>4, <1>5, ObjectsStep, OneObjectTouched

-----------------------------------------------------------------------------
(* The course of a request.                                                *)

Proper(c) ==
  /\ caller[c].pc \in {"find", "lock", "discard", "writing"} => caller[c].op # "create"
  /\ caller[c].pc \in {"naming", "cleanup"} => caller[c].op = "create"
  /\ caller[c].pc = "discard" => Over(caller[c].object)
  /\ caller[c].pc = "starting" => ~Live(caller[c].object) /\ Drained(caller[c].object)

\* An object is started by the request that made it.
Apart(c, d) ==
  caller[c].pc = "starting" /\ caller[d].pc = "starting" /\ caller[c].object = caller[d].object => c = d

Ordered ==
  /\ \A c \in Callers : caller[c] # Idle => Proper(c)
  /\ \A c, d \in Callers : caller[c] # Idle /\ caller[d] # Idle => Apart(c, d)

\* An actor that is over stays so, and one that is not up gets no turns.
LEMMA OverStays ==
  ASSUME Typed, Rows, Shaped, [Next]_vars, NEW x \in DOMAIN managed
  PROVE  /\ x \in DOMAIN managed'
         /\ Over(x) => Over(x)'
         /\ ~Live(x) /\ Drained(x) =>
              \/ ~Live(x)' /\ Drained(x)'
              \/ \E c \in Callers : caller[c] # Idle /\ Started(c) /\ caller[c].object = x
  <1>1. ASSUME x \in DOMAIN managed', Same(x)
        PROVE  /\ Over(x) => Over(x)'
               /\ ~Live(x) /\ Drained(x) => ~Live(x)' /\ Drained(x)'
    BY <1>1 DEF Same, Over, Live, Drained
  <1>2. CASE TouchesNone
    BY <1>1, <1>2 DEF TouchesNone
  <1>3. ASSUME NEW c \in Callers, caller[c] # Idle, Register(c)
        PROVE  x \in DOMAIN managed' /\ Same(x)
    BY <1>3, RegisterDoes DEF Adds
  <1>4. ASSUME NEW o \in DOMAIN managed, Touches(o), x # o
        PROVE  x \in DOMAIN managed' /\ Same(x)
    BY <1>4 DEF Touches
  <1>5. ASSUME NEW o \in DOMAIN managed, x = o,
               \/ ByItself(o) \/ Evicts(o)
               \/ \E c \in Callers : ByRequest(c, o)
               \/ \E y \in DOMAIN managed : CleansUp(y, o)
        PROVE  /\ x \in DOMAIN managed'
               /\ Over(x) => Over(x)'
               /\ ~Live(x) /\ Drained(x) =>
                    \/ ~Live(x)' /\ Drained(x)'
                    \/ \E c \in Callers : caller[c] # Idle /\ Started(c) /\ caller[c].object = x
    <2>1. managed[o].inbox \in Nat /\ managed[o].settling \in BOOLEAN /\ x \in DOMAIN managed'
      BY <1>5, FieldsTyped, OneObjectTouched DEF Typed, Touches
    <2>2. CASE Renames(o)
      BY <1>5, <2>1, <2>2 DEF Renames, Becomes, Over, Live, Drained
    <2>3. CASE Runs(o)
      BY <1>5, <2>1, <2>3 DEF Runs, Becomes, Over, Live, Drained, Result, Finalize
    <2>4. CASE Ends(o)
      BY <1>5, <2>1, <2>4 DEF Ends, Becomes, Over, Live, Drained
    <2>5. CASE Evicts(o)
      BY <1>5, <2>1, <2>5 DEF Evicts, Becomes, Over, Live, Drained
    <2>6. CASE \E c \in Callers : ByRequest(c, o)
      BY <1>5, <2>1, <2>6 DEF ByRequest, Drops, Becomes, Over, Live, Drained, Begun
    <2>7. CASE \E y \in DOMAIN managed : CleansUp(y, o)
      BY <1>5, <2>1, <2>7 DEF CleansUp, Drops, Becomes, Over, Live, Drained
    <2> QED BY <1>5, <2>2, <2>3, <2>4, <2>5, <2>6, <2>7 DEF ByItself
  <1> QED BY <1>1, <1>2, <1>3, <1>4, <1>5, ObjectsStep, OneObjectTouched

\* The steps of a request that go on, and from where.
GoesOn(c) ==
  LET s == caller[c].sid IN
  \/ /\ caller[c].op = "send" /\ caller[c].pc \in {"find", "lock", "starting"}
     /\ \E o \in DOMAIN managed : Moves(c, "writing", o, "ended")
  \/ caller[c].pc = "find" /\ Moves(c, "lock", caller[c].object, caller[c].seen)
  \/ /\ Acquire(c) /\ sessions[s] # Nobody /\ Over(sessions[s]) /\ s \notin disconnecting
     /\ \E seen : Moves(c, "discard", sessions[s], seen)
  \/ /\ Acquire(c) /\ (sessions[s] = Nobody \/ s \in disconnecting)
     /\ \E seen : Moves(c, "capacity", Nobody, seen)
  \/ Discard(c) /\ Moves(c, "capacity", Nobody, caller[c].seen)
  \/ caller[c].pc \in {"capacity", "evicting"} /\ Moves(c, "build", caller[c].object, caller[c].seen)
  \/ /\ caller[c].pc = "capacity"
     /\ \E o \in Active : MakeRoom(c, o) /\ Moves(c, "evicting", o, caller[c].seen)
  \/ Register(c) /\ Moves(c, "starting", Len(managed) + 1, caller[c].seen)
  \/ Started(c) /\ caller[c].op = "create" /\ Moves(c, "query", caller[c].object, caller[c].seen)
  \/ WriteRunning(c) /\ Moves(c, "query", caller[c].object, caller[c].seen)
  \/ Query(c) /\ Moves(c, "failed", caller[c].object, caller[c].seen)
  \/ Query(c) /\ caller[c].op = "create" /\ Moves(c, "naming", caller[c].object, caller[c].seen)
  \/ NamingFails(c) /\ caller[c].pc = "naming" /\ Moves(c, "cleanup", caller[c].object, caller[c].seen)

BeginsAt(c, s) ==
  \/ Send(c, s) /\ Begins(c, "send", "find", s)
  \/ Attach(c, s) /\ Begins(c, "attach", "find", s)
  \/ Create(c, s) /\ Begins(c, "create", "capacity", s)

LEMMA ArrivesOn ==
  ASSUME NEW c \in Callers, caller[c].pc \in {"find", "lock", "starting"}, NEW o \in DOMAIN managed,
         NEW status, Arrives(c, o, status)
  PROVE  Leaves(c) \/ GoesOn(c)
  BY DEF Arrives, GoesOn

LEMMA CallsStep ==
  ASSUME Typed, Rows, [Next]_vars
  PROVE  \/ UNCHANGED caller
         \/ \E c \in Callers : caller[c] # Idle /\ (Leaves(c) \/ GoesOn(c))
         \/ \E c \in Callers, s \in Sids : BeginsAt(c, s)
  <1>0. Calls
    BY DEF Typed
  <1>1. ASSUME NEW c \in Callers, NEW s \in Sids, Send(c, s) \/ Attach(c, s) \/ Create(c, s)
        PROVE  BeginsAt(c, s)
    <2>1. meta[s] \in Written
      BY DEF Typed, Base
    <2> QED BY <1>0, <1>1, <2>1, Beginning DEF BeginsAt
  <1>2. ASSUME NEW c \in Callers, caller[c] # Idle, Find(c)
        PROVE  Leaves(c) \/ GoesOn(c)
    <2>1. caller[c].pc = "find"
      BY <1>2 DEF Find
    <2>2. \/ Moves(c, "lock", caller[c].object, caller[c].seen)
          \/ \E o \in DOMAIN managed : \E status : Arrives(c, o, status)
      BY <1>2, FindDoes
    <2> QED BY <2>1, <2>2, ArrivesOn DEF GoesOn
  <1>3. ASSUME NEW c \in Callers, caller[c] # Idle, Acquire(c)
        PROVE  Leaves(c) \/ GoesOn(c)
    <2> DEFINE s == caller[c].sid
    <2>1. caller[c].pc = "lock"
      BY <1>3 DEF Acquire
    <2>2. \/ Usable(s) /\ Arrives(c, sessions[s], managed[sessions[s]].status)
          \/ ~Usable(s) /\ sessions[s] # Nobody /\ s \notin disconnecting /\ \E seen : Moves(c, "discard", sessions[s], seen)
          \/ (sessions[s] = Nobody \/ s \in disconnecting) /\ \E seen : Moves(c, "capacity", Nobody, seen)
      BY <1>0, <1>3, CallTyped, AcquireEffect
    <2>3. CASE Usable(s) /\ Arrives(c, sessions[s], managed[sessions[s]].status)
      <3>1. sessions[s] \in DOMAIN managed
        BY <1>3, <2>3, CallTyped DEF Usable
      <3> QED BY <2>1, <2>3, <3>1, ArrivesOn
    <2>4. CASE ~Usable(s) /\ sessions[s] # Nobody /\ s \notin disconnecting /\ \E seen : Moves(c, "discard", sessions[s], seen)
      BY <1>3, <2>4 DEF GoesOn, Usable
    <2>5. CASE (sessions[s] = Nobody \/ s \in disconnecting) /\ \E seen : Moves(c, "capacity", Nobody, seen)
      BY <1>3, <2>5 DEF GoesOn
    <2> QED BY <2>2, <2>3, <2>4, <2>5
  <1>4. ASSUME NEW c \in Callers, caller[c] # Idle, Discard(c)
        PROVE  GoesOn(c)
    BY <1>4, DiscardDoes DEF GoesOn
  <1>5. ASSUME NEW c \in Callers, caller[c] # Idle, Room(c) \/ RoomMade(c)
        PROVE  GoesOn(c)
    <2>1. caller[c].pc \in {"capacity", "evicting"} /\ Now(c, "build")
      BY <1>5 DEF Room, RoomMade
    <2>2. Moves(c, "build", caller[c].object, caller[c].seen)
      BY <1>0, <1>5, <2>1, MovingNow DEF Place
    <2> QED BY <2>1, <2>2 DEF GoesOn
  <1>6. ASSUME NEW c \in Callers, caller[c] # Idle, NEW o \in Active, MakeRoom(c, o)
        PROVE  GoesOn(c)
    <2>1. caller[c].pc = "capacity" /\ Moves(c, "evicting", o, caller[c].seen)
      BY <1>6, MakeRoomDoes DEF MakeRoom
    <2> QED BY <1>6, <2>1 DEF GoesOn
  <1>7. ASSUME NEW c \in Callers, caller[c] # Idle, Register(c)
        PROVE  GoesOn(c)
    BY <1>7, RegisterDoes DEF GoesOn
  <1>8. ASSUME NEW c \in Callers, caller[c] # Idle, Started(c)
        PROVE  Leaves(c) \/ GoesOn(c)
    <2>1. caller[c].pc = "starting" /\ caller[c].object \in DOMAIN managed
      BY <1>8, StartedDoes DEF Started
    <2>2. \/ caller[c].op = "create" /\ Moves(c, "query", caller[c].object, caller[c].seen)
          \/ \E o \in DOMAIN managed : \E status : Arrives(c, o, status)
      BY <1>8, StartedDoes
    <2> QED BY <1>8, <2>1, <2>2, ArrivesOn DEF GoesOn
  <1>9. ASSUME NEW c \in Callers, caller[c] # Idle, WriteRunning(c)
        PROVE  GoesOn(c)
    <2>1. Moves(c, "query", caller[c].object, caller[c].seen)
      BY <1>0, <1>9, MovingNow DEF WriteRunning, Place
    <2> QED BY <1>9, <2>1 DEF GoesOn
  <1>10. ASSUME NEW c \in Callers, caller[c] # Idle, Query(c)
         PROVE  Leaves(c) \/ GoesOn(c)
    <2>1. \/ Moves(c, "failed", caller[c].object, caller[c].seen)
          \/ caller[c].op = "create" /\ Moves(c, "naming", caller[c].object, caller[c].seen)
          \/ Leaves(c)
      BY <1>10, QueryDoes
    <2> QED BY <1>10, <2>1 DEF GoesOn
  <1>11. ASSUME NEW c \in Callers, caller[c] # Idle,
                NoRoom(c) \/ StartFails(c) \/ Failed(c) \/ Named(c) \/ CleanedUp(c)
         PROVE  Leaves(c)
    BY <1>0, <1>11, Leaving DEF NoRoom, StartFails, Failed, Named, CleanedUp
  <1>12. ASSUME NEW c \in Callers, caller[c] # Idle, NamingFails(c)
         PROVE  GoesOn(c)
    BY <1>12, NamingFailsDoes DEF GoesOn, NamingFails
  <1>13. ASSUME NEW c \in Callers, Request(c)
         PROVE  \/ caller[c] # Idle /\ (Leaves(c) \/ GoesOn(c))
                \/ \E s \in Sids : BeginsAt(c, s)
    <2>1. CASE \E s \in Sids : Send(c, s) \/ Attach(c, s) \/ Create(c, s)
      BY <1>1, <2>1
    <2>2. CASE caller[c] # Idle /\ ~\E s \in Sids : Send(c, s) \/ Attach(c, s) \/ Create(c, s)
      BY <1>2, <1>3, <1>4, <1>5, <1>6, <1>7, <1>8, <1>9, <1>10, <1>11, <1>12, <1>13, <2>2 DEF Request
    <2> QED BY <1>13, <2>1, <2>2 DEF Request
  <1>14. ASSUME NEW o \in DOMAIN managed, Inside(o)
         PROVE  UNCHANGED caller
    BY <1>14 DEF Inside, MakeRow, RowFails, SwapKeys, Finalize, Finalized, Die, PersistError,
       Result, TimerEnded, Disconnected, Evicted, Cleanup, CleanupDead, CleanupNothing
  <1>15. ASSUME NEW s \in Sids, Interrupt(s) \/ Patrol(s)
         PROVE  UNCHANGED caller
    BY <1>15 DEF Interrupt, Patrol
  <1>16. UNCHANGED vars => UNCHANGED caller
    BY DEF vars
  <1>17. \/ UNCHANGED vars
         \/ \E c \in Callers : Request(c)
         \/ \E o \in DOMAIN managed : Inside(o)
         \/ \E s \in Sids : Interrupt(s) \/ Patrol(s)
    BY DEF Next
  <1> QED BY <1>13, <1>14, <1>15, <1>16, <1>17

LEMMA OrderedNext ==
  ASSUME Typed, Typed', Rows, Shaped, Ordered, [Next]_vars
  PROVE  Ordered'
  <1>0. /\ \A c \in Callers : caller[c] # Idle => Proper(c) /\ HasObject(c)
        /\ \A c, d \in Callers : caller[c] # Idle /\ caller[d] # Idle => Apart(c, d)
    BY DEF Ordered, Typed, HaveObjects
  \* A request that does not go on.
  <1>1. ASSUME NEW d \in Callers, caller'[d] = caller[d], caller[d] # Idle
        PROVE  Proper(d)'
    <2>1. Proper(d) /\ HasObject(d)
      BY <1>0, <1>1
    <2>2. ASSUME caller[d].pc = "discard"
          PROVE  Over(caller[d].object)'
      BY <1>1, <2>1, <2>2, OverStays DEF Proper, HasObject, Held, Over
    <2>3. ASSUME caller[d].pc = "starting"
          PROVE  ~Live(caller[d].object)' /\ Drained(caller[d].object)'
      <3>1. PICK x \in DOMAIN managed : x = caller[d].object /\ ~Live(x) /\ Drained(x)
        BY <2>1, <2>3 DEF Proper, HasObject, Held
      <3>2. ASSUME NEW c \in Callers, caller[c] # Idle, Started(c), caller[c].object = x
            PROVE  FALSE
        <4>1. c = d
          BY <1>0, <1>1, <2>3, <3>1, <3>2 DEF Started, Apart
        <4>2. caller'[d] = Idle \/ caller'[d].pc \in {"query", "writing"}
          BY <3>2, <4>1, StartedDoes DEF Arrives, Leaves, Moves
        <4> QED BY <1>1, <2>3, <4>2
      <3>3. (~Live(x))' /\ Drained(x)'
        BY <3>1, <3>2, OverStays
      <3> QED BY <1>1, <3>1, <3>3 DEF Live, Drained
    <2> QED BY <1>1, <2>1, <2>2, <2>3 DEF Proper, Over, Live, Drained
  <1>2. ASSUME NEW c \in Callers, NEW d \in Callers, caller'[c] = caller[c], caller'[d] = caller[d],
               caller[c] # Idle, caller[d] # Idle
        PROVE  Apart(c, d)'
    BY <1>0, <1>2 DEF Apart
  <1>3. CASE UNCHANGED caller
    BY <1>1, <1>2, <1>3 DEF Ordered
  <1>4. ASSUME NEW c \in Callers, Others(c), caller'[c] # Idle => Proper(c)',
               caller'[c] # Idle => caller'[c].pc # "starting"
        PROVE  Ordered'
    <2>1. ASSUME NEW d \in Callers, caller'[d] # Idle
          PROVE  Proper(d)'
      BY <1>1, <1>4, <2>1 DEF Others
    <2>2. ASSUME NEW a \in Callers, NEW b \in Callers, caller'[a] # Idle, caller'[b] # Idle
          PROVE  Apart(a, b)'
      BY <1>2, <1>4, <2>2 DEF Others, Apart
    <2> QED BY <2>1, <2>2 DEF Ordered
  <1>5. ASSUME NEW c \in Callers, NEW s \in Sids, BeginsAt(c, s)
        PROVE  Ordered'
    BY <1>4, <1>5 DEF BeginsAt, Begins, Proper
  <1>6. ASSUME NEW c \in Callers, Leaves(c)
        PROVE  Ordered'
    BY <1>4, <1>6 DEF Leaves
  <1>7. ASSUME NEW c \in Callers, caller[c] # Idle, GoesOn(c), ~Register(c)
        PROVE  Ordered'
    <2>1. Proper(c)
      BY <1>0, <1>7
    <2>2. ASSUME Acquire(c), sessions[caller[c].sid] # Nobody, Over(sessions[caller[c].sid]),
                 NEW seen, Moves(c, "discard", sessions[caller[c].sid], seen)
          PROVE  Proper(c)'
      <3>1. PICK x \in DOMAIN managed : x = sessions[caller[c].sid] /\ Over(x)
        BY <1>7, <2>2, CallTyped
      <3>2. Over(x)' /\ caller'[c].object = x
        BY <2>2, <3>1, OverStays DEF Moves
      <3>3. caller[c].op # "create" /\ caller'[c].op = caller[c].op /\ caller'[c].pc = "discard"
        BY <2>1, <2>2 DEF Proper, Acquire, Moves
      <3> QED BY <3>2, <3>3 DEF Proper, Over
    <2>3. Others(c) /\ caller'[c].pc # "starting"
      BY <1>7 DEF GoesOn, Moves
    <2>4. Proper(c)'
      BY <1>7, <2>1, <2>2 DEF GoesOn, Moves, Proper
    <2> QED BY <1>4, <2>3, <2>4
  <1>8. ASSUME NEW c \in Callers, caller[c] # Idle, Register(c)
        PROVE  Ordered'
    <2> DEFINE o == Len(managed) + 1
    <2>1. /\ Moves(c, "starting", o, caller[c].seen) /\ o \notin DOMAIN managed
          /\ managed'[o].actor = "starting" /\ managed'[o].inbox = 0 /\ managed'[o].settling = FALSE
      BY <1>8, RegisterDoes DEF Adds
    <2> HIDE DEF o
    <2>2. Proper(c)'
      BY <2>1 DEF Moves, Proper, Live, Drained
    <2>3. ASSUME NEW d \in Callers, caller'[d] # Idle
          PROVE  Proper(d)'
      BY <1>1, <2>1, <2>2, <2>3 DEF Moves, Others
    <2>4. ASSUME NEW d \in Callers, d # c, caller'[d] # Idle, caller'[d].pc = "starting"
          PROVE  caller'[d].object # o
      BY <1>0, <2>1, <2>4 DEF Moves, Others, HasObject, Held
    <2>5. ASSUME NEW a \in Callers, NEW b \in Callers, caller'[a] # Idle, caller'[b] # Idle
          PROVE  Apart(a, b)'
      <3>1. CASE a # c /\ b # c
        BY <1>2, <2>1, <2>5, <3>1 DEF Moves, Others
      <3>2. CASE a = c \/ b = c
        BY <2>1, <2>4, <2>5, <3>2 DEF Moves, Apart
      <3> QED BY <3>1, <3>2
    <2> QED BY <2>3, <2>5 DEF Ordered
  <1> QED BY <1>3, <1>5, <1>6, <1>7, <1>8, CallsStep

-----------------------------------------------------------------------------
(* Creation.  Until the SDK names it, a new session has no row, and nobody *)
(* but its request and its object know of it.                              *)

Early == {"capacity", "evicting", "build"}

Fresh(o) == managed[o].turns = 0 /\ Drained(o)

Creates(c) ==
  LET s == caller[c].sid IN
  /\ \A d \in Callers \ {c} : caller[d] # Idle => caller[d].sid # s
  /\ meta[s] = "absent"
  /\ caller[c].pc \in Early => \A x \in DOMAIN managed : Sid(x) # s
  /\ caller[c].pc \notin Early =>
       /\ caller[c].pc \in {"starting", "query", "failed"}
       /\ managed[caller[c].object].key = "temp" /\ Fresh(caller[c].object)

Creating == \A c \in Callers :
  caller[c] # Idle /\ caller[c].op = "create" /\ caller[c].pc \notin {"naming", "cleanup"} => Creates(c)

Alone(o) == \A x \in DOMAIN managed : Sid(x) = Sid(o) => x = o

Unnamed == \A o \in DOMAIN managed :
  managed[o].key \in {"temp", "popped"} => meta[Sid(o)] = "absent" /\ Alone(o)

Registered == \A s \in Sids : sessions[s] # Nobody => managed[sessions[s]].key = "sid"

RowsOfEvictions == \A o \in DOMAIN managed : UnderEviction(o) => meta[Sid(o)] # "absent"

\* A request that cleans up has dropped its object, ...
Dropping == \A c \in Callers : caller[c] # Idle /\ caller[c].pc = "cleanup" =>
  managed[caller[c].object].key \in Popped \cup {"dropped"}

\* ... and what a request has dropped it cleans up.
Attended == \A o \in DOMAIN managed : managed[o].key \in Popped =>
  \E c \in Callers : caller[c] # Idle /\ caller[c].pc = "cleanup" /\ caller[c].object = o

\* What a request for a session of the database has was registered under its id.
Given == \A c \in Callers :
  /\ caller[c] # Idle /\ caller[c].op # "create"
  /\ caller[c].pc \in {"discard", "starting", "writing", "query", "failed"}
  => managed[caller[c].object].key \in {"sid", "dropped"}

\* Everything that relates a request, its object and its row.
Sound ==
  /\ Typed /\ Rows /\ Shaped /\ Ordered /\ Creating /\ Unnamed /\ Registered /\ RowsOfEvictions
  /\ Dropping /\ Attended /\ Given

\* A request changes by its own steps.
LEMMA RequestMoves ==
  ASSUME Typed, [Next]_vars, NEW c \in Callers, caller'[c] # caller[c]
  PROVE  Request(c)
  <1>0. Calls
    BY DEF Typed
  <1>1. ASSUME NEW o \in DOMAIN managed, Inside(o)
        PROVE  UNCHANGED caller
    BY <1>1 DEF Inside, MakeRow, RowFails, SwapKeys, Finalize, Finalized, Die, PersistError,
       Result, TimerEnded, Disconnected, Evicted, Cleanup, CleanupDead, CleanupNothing
  <1>2. ASSUME NEW s \in Sids, Interrupt(s) \/ Patrol(s)
        PROVE  UNCHANGED caller
    BY <1>2 DEF Interrupt, Patrol
  <1>3. UNCHANGED vars => UNCHANGED caller
    BY DEF vars
  <1>4. PICK d \in Callers : Request(d)
    BY <1>1, <1>2, <1>3 DEF Next
  <1>5. ASSUME d # c
        PROVE  caller'[c] = caller[c]
    <2>1. CASE \E s \in Sids : Send(d, s) \/ Attach(d, s) \/ Create(d, s)
      BY <1>0, <1>5, <2>1 DEF Calls, Send, Attach, Create
    <2>2. CASE \/ Find(d) \/ Acquire(d) \/ Discard(d) \/ Room(d) \/ NoRoom(d) \/ RoomMade(d)
               \/ \E o \in Active : MakeRoom(d, o)
      BY <1>0, <1>5, <2>2 DEF Calls, Find, Acquire, Discard, Room, NoRoom, RoomMade, MakeRoom, Arrive, Now, Leave
    <2>3. CASE Register(d) \/ Started(d) \/ StartFails(d) \/ WriteRunning(d)
      BY <1>0, <1>5, <2>3 DEF Calls, Register, Started, StartFails, WriteRunning, Arrive, Now, Leave
    <2>4. CASE Query(d) \/ Failed(d) \/ Named(d) \/ NamingFails(d) \/ CleanedUp(d)
      BY <1>0, <1>5, <2>4 DEF Calls, Query, Failed, Named, NamingFails, CleanedUp, Now, Leave
    <2> QED BY <1>4, <2>1, <2>2, <2>3, <2>4 DEF Request
  <1> QED BY <1>4, <1>5

LEMMA AbsentStays ==
  ASSUME Sound, [Next]_vars, NEW s \in Sids, meta[s] = "absent", meta'[s] # "absent"
  PROVE  \E o \in DOMAIN managed : (MakeRow(o) \/ RowFails(o)) /\ Sid(o) = s
  <1>0. meta \in [Sids -> Written]
    BY DEF Sound, Typed, Base
  <1>1. CASE UNCHANGED vars
    BY <1>1 DEF vars
  <1>2. ASSUME NEW c \in Callers, Request(c)
        PROVE  FALSE
    <2>1. caller[c] # Idle /\ caller[c].op # "create" => caller[c].sid # s
      BY DEF Sound, Rows, RowsOfCalls
    <2>2. caller[c] # Idle /\ caller[c].pc = "writing" => caller[c].op # "create"
      BY DEF Sound, Ordered, Proper
    <2>3. CASE \E r \in Sids : Send(c, r) \/ Attach(c, r) \/ Create(c, r)
      BY <1>0, <2>3 DEF Send, Attach, Create
    <2>4. CASE \/ Find(c) \/ Acquire(c) \/ Discard(c) \/ Room(c) \/ NoRoom(c) \/ RoomMade(c)
               \/ \E o \in Active : MakeRoom(c, o)
      BY <1>0, <2>4 DEF Find, Acquire, Discard, Room, NoRoom, RoomMade, MakeRoom
    <2>5. CASE caller[c] # Idle /\ (WriteRunning(c) \/ Failed(c))
      BY <1>0, <2>1, <2>2, <2>5 DEF WriteRunning, Failed
    <2>6. CASE Register(c) \/ Started(c) \/ StartFails(c) \/ Query(c) \/ Named(c) \/ NamingFails(c) \/ CleanedUp(c)
      BY <1>0, <2>6 DEF Register, Started, StartFails, Query, Named, NamingFails, CleanedUp
    <2> QED BY <1>2, <2>3, <2>4, <2>5, <2>6 DEF Request
  <1>3. ASSUME NEW o \in DOMAIN managed, Inside(o), ~((MakeRow(o) \/ RowFails(o)) /\ Sid(o) = s)
        PROVE  FALSE
    <2>1. managed[o].settling /\ managed[o].key = "sid" => Sid(o) # s
      BY DEF Sound, Rows, RowsOfObjects
    <2>2. managed[o].evict = "drain" => Sid(o) # s
      BY DEF Sound, RowsOfEvictions, UnderEviction
    <2> QED BY <1>0, <1>3, <2>1, <2>2 DEF Inside, MakeRow, RowFails, SwapKeys, Finalize, Finalized, Die, PersistError,
         Result, TimerEnded, Disconnected, Evicted, Cleanup, CleanupDead, CleanupNothing
  <1>4. ASSUME NEW r \in Sids, Interrupt(r) \/ Patrol(r)
        PROVE  FALSE
    BY <1>0, <1>4 DEF Interrupt, Patrol
  <1> QED BY <1>1, <1>2, <1>3, <1>4 DEF Next

LEMMA RowsOfEvictionsNext ==
  ASSUME Sound, Typed', [Next]_vars
  PROVE  RowsOfEvictions'
  <1>0. RowsStay /\ Typed /\ RowsOfEvictions /\ RowsOfObjects /\ Objects
    BY RowsStaying DEF Sound, Rows, Typed
  <1> SUFFICES ASSUME NEW x \in DOMAIN managed', UnderEviction(x)'
               PROVE  meta'[managed'[x].sid] # "absent"
    BY DEF RowsOfEvictions, Sid
  <1>1. ASSUME x \in DOMAIN managed, managed'[x].sid = managed[x].sid,
               managed'[x].evict = managed[x].evict \/ managed[x].evict \in {"timer", "disconnect"}
                 \/ managed[x].key = "sid"
        PROVE  meta'[managed'[x].sid] # "absent"
    <2>1. Sid(x) \in Sids
      BY <1>0, <1>1, FieldsTyped
    <2> QED BY <1>0, <1>1, <2>1 DEF RowsOfEvictions, RowsOfObjects, RowsStay, UnderEviction, Sid
  <1>2. CASE TouchesNone
    BY <1>1, <1>2 DEF TouchesNone, Same
  <1>3. ASSUME NEW c \in Callers, caller[c] # Idle, Register(c)
        PROVE  meta'[managed'[x].sid] # "absent"
    <2>1. PICK o, s, status, key : Adds(o, s, status, key)
      BY <1>0, <1>3, RegisterDoes DEF Sound
    <2> QED BY <1>1, <2>1 DEF Adds, Same, UnderEviction
  <1>4. ASSUME NEW o \in DOMAIN managed, Touches(o), x # o
        PROVE  meta'[managed'[x].sid] # "absent"
    BY <1>1, <1>4 DEF Touches, Same
  <1>5. ASSUME NEW o \in DOMAIN managed, x = o,
               \/ ByItself(o) \/ Evicts(o)
               \/ \E c \in Callers : ByRequest(c, o)
               \/ \E y \in DOMAIN managed : CleansUp(y, o)
        PROVE  meta'[managed'[x].sid] # "absent"
    <2>1. managed'[x].sid = managed[x].sid
      BY <1>5, OneObjectTouched DEF Touches
    <2>2. \/ managed'[x].evict = managed[x].evict \/ managed[x].evict \in {"timer", "disconnect"}
          \/ managed[x].key = "sid"
      <3>1. CASE Renames(o) \/ Runs(o) \/ Evicts(o)
        BY <1>5, <3>1 DEF Renames, Runs, Evicts, Becomes
      <3>2. CASE Ends(o)
        BY <1>5, <3>2 DEF Ends, Becomes, TimerEnded, Disconnected, UnderEviction
      <3>3. CASE (\E c \in Callers : ByRequest(c, o)) \/ \E y \in DOMAIN managed : CleansUp(y, o)
        BY <1>5, <3>3 DEF ByRequest, CleansUp, Drops, Becomes, UnderEviction
      <3> QED BY <1>5, <3>1, <3>2, <3>3 DEF ByItself
    <2> QED BY <1>1, <1>5, <2>1, <2>2
  <1> QED BY <1>0, <1>2, <1>3, <1>4, <1>5, ObjectsStep, OneObjectTouched

\* The request c of the object o has asked it, or waits for its name or its end.
TakenBy(c, o) ==
  /\ caller[c] # Idle /\ caller[c].object = o /\ Sid(o) = caller[c].sid
  /\ caller'[c] = Idle \/ caller'[c].pc = "naming" \/ caller[c].pc \in {"discard", "naming", "cleanup"}

\* A fresh object stays so, but for its own request.
LEMMA FreshStays ==
  ASSUME Sound, [Next]_vars, NEW x \in DOMAIN managed, managed[x].key = "temp", Fresh(x)
  PROVE  \/ managed'[x].key = "temp" /\ Fresh(x)'
         \/ \E c \in Callers : TakenBy(c, x)
  <1>0. /\ Typed /\ Rows /\ Objects /\ meta[Sid(x)] = "absent" /\ Sid(x) \in Sids
        /\ ~UnderEviction(x) /\ managed[x].settling \in BOOLEAN
        /\ \A s \in Sids : sessions[s] # x
    <2>1. Typed /\ Rows /\ Objects /\ meta[Sid(x)] = "absent"
      BY DEF Sound, Typed, Unnamed
    <2>2. \A s \in Sids : sessions[s] # x
      BY <2>1 DEF Sound, Registered, Nobody, Objects
    <2> QED BY <2>1, <2>2, FieldsTyped DEF Sound, RowsOfEvictions
  <1>1. ASSUME x \in DOMAIN managed', Same(x)
        PROVE  managed'[x].key = "temp" /\ Fresh(x)'
    BY <1>1 DEF Same, Fresh, Drained
  <1>2. CASE TouchesNone
    BY <1>1, <1>2 DEF TouchesNone
  <1>3. ASSUME NEW c \in Callers, caller[c] # Idle, Register(c)
        PROVE  x \in DOMAIN managed' /\ Same(x)
    BY <1>0, <1>3, RegisterDoes DEF Adds
  <1>4. ASSUME NEW o \in DOMAIN managed, Touches(o), x # o
        PROVE  x \in DOMAIN managed' /\ Same(x)
    BY <1>4 DEF Touches
  <1>5. ASSUME ByItself(x)
        PROVE  \/ managed'[x].key = "temp" /\ Fresh(x)'
               \/ \E c \in Callers : TakenBy(c, x)
    <2>1. managed[x].turns = 0 /\ managed[x].inbox = 0 /\ managed[x].settling = FALSE
      BY <1>0 DEF Fresh, Drained
    <2>2. CASE MakeRow(x) \/ RowFails(x)
      <3>1. PICK c \in Callers : /\ caller[c] # Idle /\ caller[c].object = x
                                 /\ caller[c].pc \in {"naming", "cleanup"}
        BY <2>2 DEF MakeRow, RowFails, Nameable
      <3>2. Sid(x) = caller[c].sid
        BY <1>0, <3>1, CallTyped DEF HasObject, Held
      <3> QED BY <3>1, <3>2 DEF TakenBy
    <2>3. ~SwapKeys(x) /\ ~Result(x)
      BY <2>1 DEF SwapKeys, Result
    <2>4. ~Finalize(x) /\ ~Finalized(x)
      BY <2>1 DEF Finalize, Finalized
    <2>5. CASE Ends(x)
      BY <1>0, <2>1, <2>5 DEF Ends, Becomes, TimerEnded, Disconnected, Evicted, UnderEviction, Fresh, Drained
    <2> QED BY <1>5, <2>2, <2>3, <2>4, <2>5 DEF ByItself, Renames, Runs
  <1>6. ~Evicts(x) /\ ~\E y \in DOMAIN managed : CleansUp(y, x)
    BY <1>0 DEF Evicts, CleansUp
  <1>7. ASSUME NEW c \in Callers, ByRequest(c, x)
        PROVE  (managed'[x].key = "temp" /\ Fresh(x)') \/ TakenBy(c, x)
    <2>1. caller[c] # Idle /\ caller[c].object = x /\ Sid(x) = caller[c].sid
      BY <1>7 DEF ByRequest
    <2>2. CASE Started(c)
      BY <1>0, <2>1, <2>2, StartedDoes DEF Becomes, Fresh, Drained
    <2>3. CASE Query(c)
      BY <1>0, <2>1, <2>3, QueryDoes DEF Becomes, Fresh, Drained, Leaves, Moves, TakenBy
    <2>4. CASE StartFails(c) \/ CleanedUp(c) \/ (Failed(c) /\ caller[c].op = "create")
      BY <1>0, <2>1, <2>4, RetiresDoes DEF Leaves, TakenBy
    <2>5. CASE Discard(c) \/ NamingFails(c)
      BY <2>1, <2>5 DEF Discard, NamingFails, TakenBy
    <2> QED BY <1>7, <2>2, <2>3, <2>4, <2>5 DEF ByRequest
  <1> QED BY <1>0, <1>1, <1>2, <1>3, <1>4, <1>5, <1>6, <1>7, ObjectsStep, OneObjectTouched

\* What is new was registered.
LEMMA Newcomer ==
  ASSUME Sound, [Next]_vars, NEW x \in DOMAIN managed', x \notin DOMAIN managed
  PROVE  \E c \in Callers :
           /\ caller[c] # Idle /\ Register(c) /\ x = Len(managed) + 1
           /\ managed'[x].sid = caller[c].sid /\ managed'[x].key \in {"temp", "sid"}
           /\ managed'[x].key = "temp" => caller[c].op = "create"
           /\ caller[c].sid \in Sids
  <1>0. Typed /\ Rows
    BY DEF Sound
  <1>1. ASSUME NEW c \in Callers, caller[c] # Idle, Register(c)
        PROVE  /\ x = Len(managed) + 1 /\ managed'[x].sid = caller[c].sid
               /\ managed'[x].key \in {"temp", "sid"} /\ caller[c].sid \in Sids
               /\ managed'[x].key = "temp" => caller[c].op = "create"
    <2>1. CASE caller[c].op = "create"
      <3>1. Adds(Len(managed) + 1, caller[c].sid, "running", "temp") /\ caller[c].sid \in Sids
        BY <1>0, <1>1, <2>1, RegisterDoes
      <3> QED BY <2>1, <3>1 DEF Adds
    <2>2. CASE caller[c].op # "create"
      BY <1>0, <1>1, <2>2, RegisterDoes DEF Adds
    <2> QED BY <2>1, <2>2
  <1>2. ~TouchesNone
    BY DEF TouchesNone
  <1>3. ASSUME NEW o \in DOMAIN managed, Touches(o)
        PROVE  FALSE
    BY <1>3 DEF Touches
  <1> QED BY <1>0, <1>1, <1>2, <1>3, ObjectsStep, OneObjectTouched

\* No object changes its session.
LEMMA SidStays ==
  ASSUME Sound, [Next]_vars, NEW y \in DOMAIN managed
  PROVE  y \in DOMAIN managed' /\ managed'[y].sid = managed[y].sid
  <1>0. Typed /\ Rows
    BY DEF Sound
  <1>1. ASSUME NEW c \in Callers, caller[c] # Idle, Register(c)
        PROVE  y \in DOMAIN managed' /\ managed'[y].sid = managed[y].sid
    BY <1>0, <1>1, RegisterDoes DEF Adds, Same
  <1>2. ASSUME TouchesNone \/ \E o \in DOMAIN managed : Touches(o)
        PROVE  y \in DOMAIN managed' /\ managed'[y].sid = managed[y].sid
    BY <1>2 DEF Touches, TouchesNone, Same
  <1> QED BY <1>0, <1>1, <1>2, ObjectsStep, OneObjectTouched

\* An object that has its session's id loses it with the registry's entry.
LEMMA KeyGoes ==
  ASSUME Sound, [Next]_vars, NEW x \in DOMAIN managed, managed[x].key = "sid"
  PROVE  /\ x \in DOMAIN managed' /\ managed'[x].sid = managed[x].sid
         /\ managed'[x].key = "sid" \/ (managed'[x].key = "dropped" /\ sessions'[Sid(x)] = Nobody)
  <1>0. /\ Typed /\ Rows /\ Objects /\ Sid(x) \in Sids /\ sessions \in [Sids -> Nat]
    BY FieldsTyped DEF Sound, Typed, Base
  <1>1. CASE TouchesNone
    BY <1>1 DEF TouchesNone, Same
  <1>2. ASSUME NEW c \in Callers, caller[c] # Idle, Register(c)
        PROVE  x \in DOMAIN managed' /\ Same(x)
    BY <1>0, <1>2, RegisterDoes DEF Adds
  <1>3. ASSUME NEW o \in DOMAIN managed, Touches(o), x # o
        PROVE  x \in DOMAIN managed' /\ Same(x)
    BY <1>3 DEF Touches
  <1>4. ASSUME ByItself(x)
        PROVE  managed'[x].key = "sid" \/ (managed'[x].key = "dropped" /\ sessions'[Sid(x)] = Nobody)
    <2>1. CASE Renames(x) \/ Runs(x)
      BY <2>1 DEF Renames, Runs, Becomes, MakeRow, RowFails, Nameable
    <2>2. CASE Ends(x)
      BY <1>0, <2>2 DEF Ends, Becomes, Evicted, Unregistered
    <2> QED BY <1>4, <2>1, <2>2 DEF ByItself
  <1>5. Evicts(x) => managed'[x].key = "sid"
    BY DEF Evicts, Becomes
  <1>6. ASSUME NEW c \in Callers, ByRequest(c, x)
        PROVE  managed'[x].key = "sid" \/ (managed'[x].key = "dropped" /\ sessions'[Sid(x)] = Nobody)
    <2>1. caller[c] # Idle /\ caller[c].object = x /\ Sid(x) = caller[c].sid
      BY <1>6 DEF ByRequest
    <2>4. ~NamingFails(c) /\ ~CleanedUp(c)
      BY <2>1 DEF NamingFails, CleanedUp, Sound, Dropping, Temporary, Popped
    <2>2. CASE ~Drops(x)
      BY <1>6, <2>2, <2>4 DEF ByRequest, Becomes
    <2>3. Drops(x) => managed'[x].key = "dropped"
      BY DEF Drops, Becomes
    <2>7. CASE Discard(c) /\ Drops(x)
      BY <1>0, <2>1, <2>3, <2>7 DEF Discard, Unregistered
    <2>5. ASSUME StartFails(c) \/ Failed(c)
          PROVE  caller[c].op # "create"
      BY <2>1, <2>5 DEF Sound, Creating, Creates, StartFails, Failed, Early
    <2>6. CASE StartFails(c) /\ Drops(x)
      BY <1>0, <2>1, <2>3, <2>5, <2>6 DEF StartFails, Unregistered
    <2> QED BY <1>6, <2>2, <2>4, <2>5, <2>6, <2>7 DEF ByRequest, Becomes
  <1>7. ASSUME NEW y \in DOMAIN managed, CleansUp(y, x)
        PROVE  managed'[x].key = "dropped" /\ sessions'[Sid(x)] = Nobody
    BY <1>0, <1>7 DEF CleansUp, Drops, Becomes, CleanupDead, Unregistered
  <1>8. ASSUME NEW o \in DOMAIN managed, x = o, Touches(o)
        PROVE  x \in DOMAIN managed' /\ managed'[x].sid = managed[x].sid
    BY <1>8 DEF Touches
  <1> QED BY <1>0, <1>1, <1>2, <1>3, <1>4, <1>5, <1>6, <1>7, <1>8, ObjectsStep, OneObjectTouched DEF Same

\* Who enters something into the registry.
LEMMA SessionsStep ==
  ASSUME Sound, [Next]_vars, NEW s \in Sids
  PROVE  \/ sessions'[s] \in {sessions[s], Nobody}
         \/ \E c \in Callers : /\ caller[c] # Idle /\ Register(c) /\ caller[c].op # "create"
                               /\ caller[c].sid = s /\ sessions'[s] = Len(managed) + 1
         \/ \E o \in DOMAIN managed : SwapKeys(o) /\ Sid(o) = s /\ sessions'[s] = o
  <1>0. /\ Typed /\ Rows /\ sessions \in [Sids -> Nat]
    BY DEF Sound, Typed, Base
  <1>1. CASE UNCHANGED vars
    BY <1>1 DEF vars
  <1>2. ASSUME NEW c \in Callers, Request(c), sessions'[s] \notin {sessions[s], Nobody}
        PROVE  /\ caller[c] # Idle /\ Register(c) /\ caller[c].op # "create"
               /\ caller[c].sid = s /\ sessions'[s] = Len(managed) + 1
    <2>1. CASE caller[c] # Idle /\ Register(c)
      BY <1>0, <1>2, <2>1, RegisterDoes
    <2>2. CASE \E r \in Sids : Send(c, r) \/ Attach(c, r) \/ Create(c, r)
      BY <1>0, <1>2, <2>2 DEF Send, Attach, Create
    <2>3. CASE \/ Find(c) \/ Acquire(c) \/ Discard(c) \/ Room(c) \/ NoRoom(c) \/ RoomMade(c)
               \/ \E o \in Active : MakeRoom(c, o)
      BY <1>0, <1>2, <2>3 DEF Find, Acquire, Discard, Room, NoRoom, RoomMade, MakeRoom, Unregistered
    <2>4. CASE \/ Started(c) \/ StartFails(c) \/ WriteRunning(c) \/ Query(c) \/ Failed(c)
               \/ Named(c) \/ NamingFails(c) \/ CleanedUp(c)
      BY <1>0, <1>2, <2>4 DEF Started, StartFails, WriteRunning, Query, Failed, Named, NamingFails, CleanedUp,
         Unregistered
    <2> QED BY <1>2, <2>1, <2>2, <2>3, <2>4 DEF Request
  <1>3. ASSUME NEW o \in DOMAIN managed, Inside(o), sessions'[s] \notin {sessions[s], Nobody}
        PROVE  SwapKeys(o) /\ Sid(o) = s /\ sessions'[s] = o
    BY <1>0, <1>3 DEF Inside, MakeRow, RowFails, SwapKeys, Finalize, Finalized, Die, PersistError, Unregistered,
       Result, TimerEnded, Disconnected, Evicted, Cleanup, CleanupDead, CleanupNothing
  <1>4. ASSUME NEW r \in Sids, Interrupt(r) \/ Patrol(r)
        PROVE  UNCHANGED sessions
    BY <1>4 DEF Interrupt, Patrol
  <1> QED BY <1>1, <1>2, <1>3, <1>4 DEF Next

LEMMA RegisteredNext ==
  ASSUME Sound, Typed', [Next]_vars
  PROVE  Registered'
  <1>0. Typed /\ Rows /\ Objects
    BY DEF Sound, Typed
  <1> SUFFICES ASSUME NEW s \in Sids, sessions'[s] # Nobody
               PROVE  managed'[sessions'[s]].key = "sid"
    BY DEF Registered
  <1>1. ASSUME sessions'[s] = sessions[s]
        PROVE  managed'[sessions'[s]].key = "sid"
    <2>1. PICK x \in DOMAIN managed : x = sessions[s] /\ Sid(x) = s /\ managed[x].key = "sid"
      BY <1>0, <1>1 DEF Sound, Registered, Typed, Known
    <2> QED BY <1>1, <2>1, KeyGoes
  <1>2. ASSUME NEW c \in Callers, caller[c] # Idle, Register(c), caller[c].op # "create",
               sessions'[s] = Len(managed) + 1
        PROVE  managed'[sessions'[s]].key = "sid"
    BY <1>0, <1>2, RegisterDoes DEF Adds
  <1>3. ASSUME NEW o \in DOMAIN managed, SwapKeys(o), sessions'[s] = o
        PROVE  managed'[sessions'[s]].key = "sid"
    BY <1>0, <1>3, SwapKeysObject DEF Becomes
  <1> QED BY <1>1, <1>2, <1>3, SessionsStep

LEMMA UnnamedNext ==
  ASSUME Sound, Typed', [Next]_vars
  PROVE  Unnamed'
  <1>0. Typed /\ Rows /\ Objects /\ Creating /\ Unnamed /\ RowsOfCalls
    BY DEF Sound, Typed, Rows
  <1> SUFFICES ASSUME NEW x \in DOMAIN managed', managed'[x].key \in {"temp", "popped"}
               PROVE  meta'[managed'[x].sid] = "absent" /\ Alone(x)'
    BY DEF Unnamed, Sid
  <1>1. ASSUME x \in DOMAIN managed
        PROVE  meta'[managed'[x].sid] = "absent" /\ Alone(x)'
    <2>1. managed[x].key \in {"temp", "popped"}
      <3>1. CASE managed[x].key = "sid"
        BY <1>1, <3>1, KeyGoes
      <3>2. CASE managed[x].key \notin {"temp", "popped", "sid"}
        <4>1. TouchesNone => managed'[x].key = managed[x].key
          BY <1>1 DEF TouchesNone, Same
        <4>2. ASSUME NEW c \in Callers, caller[c] # Idle, Register(c)
              PROVE  managed'[x].key = managed[x].key
          BY <1>0, <1>1, <4>2, RegisterDoes DEF Adds, Same
        <4>3. ASSUME NEW o \in DOMAIN managed, Touches(o), x # o
              PROVE  managed'[x].key = managed[x].key
          BY <1>1, <4>3 DEF Touches, Same
        <4>4. ~ByItself(x)
          BY <3>2 DEF ByItself, Renames, Runs, Ends, Becomes
        <4>5. ~Evicts(x)
          BY <3>2 DEF Evicts, Becomes
        <4>6. ASSUME (\E c \in Callers : ByRequest(c, x)) \/ \E y \in DOMAIN managed : CleansUp(y, x)
              PROVE  FALSE
          BY <3>2, <4>6 DEF ByRequest, CleansUp, Drops, Becomes
        <4> QED BY <1>0, <3>2, <4>1, <4>2, <4>3, <4>4, <4>5, <4>6, ObjectsStep, OneObjectTouched
      <3> QED BY <3>1, <3>2
    <2>2. /\ meta[Sid(x)] = "absent" /\ Alone(x) /\ Sid(x) \in Sids
          /\ managed'[x].sid = managed[x].sid
      BY <1>0, <1>1, <2>1, SidStays, FieldsTyped DEF Unnamed
    <2>3. meta'[Sid(x)] = "absent"
      <3>1. ASSUME NEW o \in DOMAIN managed, MakeRow(o) \/ RowFails(o), Sid(o) = Sid(x)
            PROVE  FALSE
        <4>1. o = x
          BY <2>2, <3>1 DEF Alone
        <4> QED BY <1>0, <3>1, <4>1, MakeRowObject, RowFailsObject DEF Becomes
      <3> QED BY <2>2, <3>1, AbsentStays
    <2>4. ASSUME NEW y \in DOMAIN managed', managed'[y].sid = managed'[x].sid
          PROVE  y = x
      <3>1. CASE y \in DOMAIN managed
        <4>1. managed'[y].sid = managed[y].sid
          BY <3>1, SidStays
        <4> QED BY <2>2, <2>4, <3>1, <4>1 DEF Alone, Sid
      <3>2. CASE y \notin DOMAIN managed
        <4>1. PICK c \in Callers : caller[c] # Idle /\ Register(c) /\ managed'[y].sid = caller[c].sid
          BY <3>2, Newcomer
        <4>2. caller[c].op = "create"
          BY <1>0, <2>2, <2>4, <4>1 DEF RowsOfCalls, Sid
        <4>3. Creates(c) /\ caller[c].pc = "build"
          BY <1>0, <4>1, <4>2 DEF Creating, Register
        <4> QED BY <1>1, <2>2, <2>4, <4>1, <4>3 DEF Creates, Early, Sid
      <3> QED BY <3>1, <3>2
    <2> QED BY <2>2, <2>3, <2>4 DEF Alone, Sid
  <1>2. ASSUME x \notin DOMAIN managed
        PROVE  meta'[managed'[x].sid] = "absent" /\ Alone(x)'
    <2>1. PICK c \in Callers : /\ caller[c] # Idle /\ Register(c) /\ managed'[x].sid = caller[c].sid
                               /\ caller[c].op = "create" /\ x = Len(managed) + 1
      BY <1>2, Newcomer
    <2>2. Creates(c) /\ caller[c].pc = "build"
      BY <1>0, <2>1 DEF Creating, Register
    <2>3. /\ meta'[caller[c].sid] = "absent"
          /\ \A y \in DOMAIN managed : managed[y].sid # caller[c].sid
      BY <2>1, <2>2 DEF Creates, Early, Register, Sid
    <2>4. ASSUME NEW y \in DOMAIN managed', y # x
          PROVE  y \in DOMAIN managed /\ managed'[y].sid = managed[y].sid
      BY <1>0, <2>1, <2>4, RegisterDoes DEF Adds, Same
    <2> QED BY <2>1, <2>3, <2>4 DEF Alone, Sid
  <1> QED BY <1>1, <1>2

\* The other requests of a session that is being created are none.
LEMMA CreatingAlone ==
  ASSUME Sound, [Next]_vars, NEW d \in Callers, NEW e \in Callers, e # d,
         caller[d] # Idle, Creates(d), caller'[e] # Idle
  PROVE  caller'[e].sid # caller[d].sid
  <1>0. Typed /\ Rows /\ Calls
    BY DEF Sound, Typed
  <1>1. CASE caller'[e] = caller[e]
    BY <1>1 DEF Creates
  <1>2. ASSUME caller[e] # Idle, GoesOn(e)
        PROVE  caller'[e].sid = caller[e].sid
    BY <1>2 DEF GoesOn, Moves
  <1>3. ASSUME NEW s \in Sids, BeginsAt(e, s)
        PROVE  caller[d].sid # s /\ caller'[e].sid = s
    <2>1. caller'[e].sid = s
      BY <1>3 DEF BeginsAt, Begins
    <2>2. CASE Create(e, s)
      BY <2>1, <2>2 DEF Create
    <2>3. CASE Send(e, s)
      BY <2>1, <2>3 DEF Send, Creates
    <2>4. CASE Attach(e, s)
      <3>1. ASSUME meta[s] = "absent"
            PROVE  FALSE
        BY <1>0, <2>4, <3>1 DEF Attach, Status, Rows, RowsOfSessions
      <3> QED BY <2>1, <3>1 DEF Creates
    <2> QED BY <1>3, <2>1, <2>2, <2>3, <2>4 DEF BeginsAt
  <1>4. ASSUME NEW c \in Callers, c # e, Others(c)
        PROVE  caller'[e] = caller[e]
    BY <1>4 DEF Others
  <1>5. ASSUME NEW c \in Callers, GoesOn(c) \/ Leaves(c) \/ \E s \in Sids : BeginsAt(c, s)
        PROVE  Others(c)
    BY <1>5 DEF GoesOn, Moves, Leaves, BeginsAt, Begins
  <1>6. CASE caller[e] # Idle /\ GoesOn(e)
    BY <1>2, <1>6 DEF Creates
  <1>7. Leaves(e) => caller'[e] = Idle
    BY DEF Leaves
  <1> QED BY <1>0, <1>1, <1>3, <1>4, <1>5, <1>6, <1>7, CallsStep

LEMMA CreatingNext ==
  ASSUME Sound, Typed', [Next]_vars
  PROVE  Creating'
  <1>0. Typed /\ Rows /\ Objects /\ Calls /\ Creating /\ Unnamed /\ Ordered
    BY DEF Sound, Typed, Rows
  <1> SUFFICES ASSUME NEW d \in Callers, caller'[d] # Idle, caller'[d].op = "create",
                      caller'[d].pc \notin {"naming", "cleanup"}
               PROVE  Creates(d)'
    BY DEF Creating
  <1> DEFINE s == caller[d].sid
  \* What others do does not touch the session.
  <1>1. ASSUME caller[d] # Idle, Creates(d)
        PROVE  /\ \A e \in Callers \ {d} : caller'[e] # Idle => caller'[e].sid # s
               /\ meta'[s] = "absent"
               /\ caller[d].pc \in Early /\ ~Register(d) =>
                    \A x \in DOMAIN managed' : managed'[x].sid # s
    <2>1. \A e \in Callers \ {d} : caller'[e] # Idle => caller'[e].sid # s
      BY <1>1, CreatingAlone
    <2>2. meta'[s] = "absent"
      <3>1. ASSUME NEW o \in DOMAIN managed, MakeRow(o) \/ RowFails(o), Sid(o) = s
            PROVE  FALSE
        <4>1. PICK c \in Callers : /\ caller[c] # Idle /\ caller[c].object = o
                                   /\ caller[c].pc \in {"naming", "cleanup"}
          BY <3>1 DEF MakeRow, RowFails, Nameable
        <4>2. caller[c].sid = s
          BY <1>0, <3>1, <4>1, CallTyped DEF HasObject, Held
        <4> QED BY <1>1, <4>1, <4>2 DEF Creates, Early
      <3>2. s \in Sids /\ meta[s] = "absent"
        BY <1>0, <1>1, CallTyped DEF Creates
      <3> QED BY <3>1, <3>2, AbsentStays
    <2>3. ASSUME caller[d].pc \in Early, ~Register(d), NEW x \in DOMAIN managed', managed'[x].sid = s
          PROVE  FALSE
      <3>1. CASE x \in DOMAIN managed
        <4>1. managed'[x].sid = managed[x].sid
          BY <3>1, SidStays
        <4> QED BY <1>1, <2>3, <3>1, <4>1 DEF Creates, Sid
      <3>2. CASE x \notin DOMAIN managed
        <4>1. PICK c \in Callers : caller[c] # Idle /\ Register(c) /\ caller[c].sid = s
          BY <2>3, <3>2, Newcomer
        <4> QED BY <1>1, <2>3, <4>1 DEF Creates
      <3> QED BY <3>1, <3>2
    <2> QED BY <2>1, <2>2, <2>3
  <1>2. ASSUME caller[d] # Idle, caller'[d] = caller[d]
        PROVE  Creates(d)'
    <2>1. Creates(d)
      BY <1>0, <1>2 DEF Creating
    <2>2. ~Register(d)
      BY <1>0, <1>2, RegisterDoes DEF Moves, Register
    <2>3. ASSUME caller[d].pc \notin Early
          PROVE  managed'[caller[d].object].key = "temp" /\ Fresh(caller[d].object)'
      <3>1. PICK x \in DOMAIN managed : x = caller[d].object /\ managed[x].key = "temp" /\ Fresh(x) /\ Sid(x) = s
        BY <1>0, <1>2, <2>1, <2>3, CallTyped DEF Creates, HasObject, Held
      <3>2. ASSUME NEW c \in Callers, TakenBy(c, x)
            PROVE  FALSE
        <4>1. c = d
          BY <2>1, <3>1, <3>2 DEF Creates, TakenBy
        <4>2. caller[d].pc \in {"starting", "query", "failed"}
          BY <2>1, <2>3 DEF Creates
        <4> QED BY <1>2, <3>2, <4>1, <4>2 DEF TakenBy
      <3>3. managed'[x].key = "temp" /\ Fresh(x)'
        BY <3>1, <3>2, FreshStays
      <3> QED BY <1>2, <3>1, <3>3 DEF Fresh, Drained
    <2>4. caller[d].pc \notin Early => caller[d].pc \in {"starting", "query", "failed"}
      BY <2>1 DEF Creates
    <2> QED BY <1>1, <1>2, <2>1, <2>2, <2>3, <2>4 DEF Creates, Sid, Fresh, Drained
  <1>3. ASSUME NEW r \in Sids, BeginsAt(d, r)
        PROVE  Creates(d)'
    <2>1. Create(d, r) /\ Begins(d, "create", "capacity", r)
      BY <1>3 DEF BeginsAt, Begins
    <2> QED BY <2>1 DEF Create, Begins, Creates, Others, Early, Sid
  <1>4. ASSUME caller[d] # Idle, GoesOn(d)
        PROVE  Creates(d)'
    <2>1. Others(d) /\ caller'[d].sid = s /\ caller'[d].op = caller[d].op
      BY <1>4 DEF GoesOn, Moves
    <2>2. /\ Proper(d) /\ caller[d].op = "create" /\ caller[d].pc \notin {"naming", "cleanup"}
      <3>1. caller[d].op = "create" /\ Proper(d)
        BY <1>0, <1>4, <2>1 DEF Ordered
      <3>2. ASSUME caller[d].pc \in {"naming", "cleanup"}
            PROVE  FALSE
        <4>1. ~Acquire(d) /\ ~Discard(d) /\ ~Register(d)
          BY <3>2 DEF Acquire, Discard, Register
        <4>2. ~Started(d) /\ ~WriteRunning(d) /\ ~Query(d)
          BY <3>2 DEF Started, WriteRunning, Query
        <4> QED BY <1>4, <3>2, <4>1, <4>2 DEF GoesOn, Moves
      <3> QED BY <3>1, <3>2
    <2>3. Creates(d)
      BY <1>0, <1>4, <2>2 DEF Creating
    <2>4. /\ \A e \in Callers \ {d} : caller'[e] # Idle => caller'[e].sid # caller'[d].sid
          /\ meta'[caller'[d].sid] = "absent"
          /\ caller[d].pc \in Early /\ ~Register(d) =>
               \A x \in DOMAIN managed' : managed'[x].sid # caller'[d].sid
      BY <1>1, <1>4, <2>1, <2>3
    <2>5. CASE Register(d)
      <3>1. /\ Moves(d, "starting", Len(managed) + 1, caller[d].seen)
            /\ Adds(Len(managed) + 1, s, "running", "temp")
        BY <1>0, <1>4, <2>2, <2>5, RegisterDoes
      <3> QED BY <2>4, <3>1 DEF Creates, Moves, Adds, Early, Fresh, Drained
    <2>6. CASE Started(d) \/ Query(d)
      <3>1. PICK x \in DOMAIN managed : x = caller[d].object /\ managed[x].key = "temp" /\ Fresh(x) /\ Sid(x) = s
        BY <1>0, <1>4, <2>3, <2>6, CallTyped DEF Creates, HasObject, Held, Started, Query, Early
      <3>2. CASE Started(d)
        <4>1. Moves(d, "query", x, caller[d].seen)
          BY <1>0, <1>4, <2>2, <3>1, <3>2, StartedDoes DEF Arrives
        <4>2. managed'[x].key = "temp" /\ Fresh(x)'
          BY <1>0, <1>4, <3>1, <3>2, StartedDoes DEF Becomes, Fresh, Drained
        <4> QED BY <2>4, <4>1, <4>2 DEF Creates, Moves, Early, Fresh, Drained
      <3>3. CASE Query(d)
        <4>1. Moves(d, "failed", x, caller[d].seen) /\ Refuses(x)
          BY <1>0, <1>4, <2>2, <3>1, <3>3, QueryDoes DEF Moves, Leaves
        <4>2. managed'[x].key = "temp" /\ Fresh(x)'
          BY <1>0, <1>4, <3>1, <3>3, <4>1, QueryDoes DEF Becomes, Fresh, Drained
        <4> QED BY <2>4, <4>1, <4>2 DEF Creates, Moves, Early, Fresh, Drained
      <3> QED BY <2>6, <3>2, <3>3
    <2>7. CASE ~Register(d) /\ ~Started(d) /\ ~Query(d)
      <3>1. caller[d].pc \in {"capacity", "evicting"} /\ caller'[d].pc \in {"evicting", "build"}
        BY <1>4, <2>2, <2>7 DEF GoesOn, Moves, Proper, Acquire, Discard, WriteRunning, Creates, Early
      <3> QED BY <2>4, <2>7, <3>1 DEF Creates, Early, Sid
    <2> QED BY <2>5, <2>6, <2>7
  <1>5. ASSUME NEW c \in Callers, c # d, GoesOn(c) \/ Leaves(c) \/ \E r \in Sids : BeginsAt(c, r)
        PROVE  caller'[d] = caller[d]
    BY <1>5 DEF GoesOn, Moves, Leaves, BeginsAt, Begins, Others
  <1>6. Leaves(d) => caller'[d] = Idle
    BY DEF Leaves
  <1> QED BY <1>0, <1>2, <1>3, <1>4, <1>5, <1>6, CallsStep

\* What a request has dropped stays so.
LEMMA DroppedStays ==
  ASSUME Sound, [Next]_vars, NEW x \in DOMAIN managed, managed[x].key \in Popped \cup {"dropped"}
  PROVE  /\ managed'[x].key \in Popped \cup {"dropped"}
         /\ managed[x].key = "dropped" => managed'[x].key = "dropped"
  <1>0. Typed /\ Rows
    BY DEF Sound
  <1>1. CASE TouchesNone
    BY <1>1 DEF TouchesNone, Same
  <1>2. ASSUME NEW c \in Callers, caller[c] # Idle, Register(c)
        PROVE  managed'[x].key = managed[x].key
    BY <1>0, <1>2, RegisterDoes DEF Adds, Same
  <1>3. ASSUME NEW o \in DOMAIN managed, Touches(o), x # o
        PROVE  managed'[x].key = managed[x].key
    BY <1>3 DEF Touches, Same
  <1>4. CASE ByItself(x) \/ Evicts(x)
    BY <1>4 DEF ByItself, Renames, Runs, Ends, Evicts, Becomes, MakeRow, RowFails, Nameable, SwapKeys, Popped
  <1>5. ASSUME NEW c \in Callers, ByRequest(c, x)
        PROVE  /\ managed'[x].key \in Popped \cup {"dropped"}
               /\ managed[x].key = "dropped" => managed'[x].key = "dropped"
    BY <1>5 DEF ByRequest, Drops, Becomes, Temporary, Popped
  <1>6. ASSUME NEW y \in DOMAIN managed, CleansUp(y, x)
        PROVE  managed'[x].key = "dropped"
    BY <1>6 DEF CleansUp, Drops, Becomes
  <1> QED BY <1>0, <1>1, <1>2, <1>3, <1>4, <1>5, <1>6, ObjectsStep, OneObjectTouched

LEMMA DroppingNext ==
  ASSUME Sound, [Next]_vars
  PROVE  Dropping'
  <1>0. Typed /\ Rows /\ Dropping
    BY DEF Sound
  <1> SUFFICES ASSUME NEW c \in Callers, caller'[c] # Idle, caller'[c].pc = "cleanup"
               PROVE  managed'[caller'[c].object].key \in Popped \cup {"dropped"}
    BY DEF Dropping
  <1>1. CASE caller'[c] = caller[c]
    <2>1. PICK x \in DOMAIN managed : x = caller[c].object
      BY <1>0, <1>1, CallTyped DEF HasObject, Held
    <2> QED BY <1>0, <1>1, <2>1, DroppedStays DEF Dropping
  <1>2. ASSUME caller[c] # Idle, GoesOn(c)
        PROVE  managed'[caller'[c].object].key \in Popped \cup {"dropped"}
    <2>1. NamingFails(c)
      BY <1>2 DEF GoesOn, Moves
    <2> QED BY <1>0, <1>2, <2>1, NamingFailsDoes DEF Becomes, Moves, Popped
  <1>3. ASSUME NEW s \in Sids, BeginsAt(c, s)
        PROVE  FALSE
    BY <1>3 DEF BeginsAt, Begins
  <1>4. ASSUME NEW d \in Callers, c # d, GoesOn(d) \/ Leaves(d) \/ \E r \in Sids : BeginsAt(d, r)
        PROVE  caller'[c] = caller[c]
    BY <1>4 DEF GoesOn, Moves, Leaves, BeginsAt, Begins, Others
  <1>5. ~Leaves(c)
    BY DEF Leaves
  <1> QED BY <1>0, <1>1, <1>2, <1>3, <1>4, <1>5, CallsStep

\* A request that cleans up goes on only to drop its object.
LEMMA CleaningStep ==
  ASSUME Typed, [Next]_vars, NEW c \in Callers, caller[c] # Idle, caller[c].pc = "cleanup", caller'[c] # caller[c]
  PROVE  CleanedUp(c)
  <1>1. Request(c)
    BY RequestMoves
  <1>2. ~\E s \in Sids : Send(c, s) \/ Attach(c, s) \/ Create(c, s)
    BY DEF Send, Attach, Create
  <1>3. ~(\/ Find(c) \/ Acquire(c) \/ Discard(c) \/ Room(c) \/ NoRoom(c) \/ RoomMade(c)
          \/ \E o \in Active : MakeRoom(c, o))
    BY DEF Find, Acquire, Discard, Room, NoRoom, RoomMade, MakeRoom
  <1>4. ~(\/ Register(c) \/ Started(c) \/ StartFails(c) \/ WriteRunning(c) \/ Query(c) \/ Failed(c)
          \/ Named(c) \/ NamingFails(c))
    BY DEF Register, Started, StartFails, WriteRunning, Query, Failed, Named, NamingFails
  <1> QED BY <1>1, <1>2, <1>3, <1>4 DEF Request

LEMMA AttendedNext ==
  ASSUME Sound, [Next]_vars
  PROVE  Attended'
  <1>0. Typed /\ Rows /\ Objects /\ Attended
    BY DEF Sound, Typed
  <1> SUFFICES ASSUME NEW x \in DOMAIN managed', managed'[x].key \in Popped
               PROVE  \E c \in Callers :
                        caller'[c] # Idle /\ caller'[c].pc = "cleanup" /\ caller'[c].object = x
    BY DEF Attended
  <1>1. x \in DOMAIN managed
    BY Newcomer DEF Popped
  <1>2. CASE managed[x].key \in Popped
    <2>1. PICK c \in Callers : caller[c] # Idle /\ caller[c].pc = "cleanup" /\ caller[c].object = x
      BY <1>0, <1>1, <1>2 DEF Attended
    <2>2. ASSUME CleanedUp(c)
          PROVE  FALSE
      BY <1>0, <2>1, <2>2, RetiresDoes DEF Becomes, Popped
    <2>3. caller'[c] = caller[c]
      BY <1>0, <2>1, <2>2, CleaningStep
    <2> QED BY <2>1, <2>3
  <1>3. CASE managed[x].key \notin Popped
    <2>1. ~TouchesNone
      BY <1>1, <1>3 DEF TouchesNone, Same
    <2>2. ASSUME NEW c \in Callers, caller[c] # Idle, Register(c)
          PROVE  FALSE
      BY <1>0, <1>1, <1>3, <2>2, RegisterDoes DEF Adds, Same
    <2>3. ASSUME NEW o \in DOMAIN managed, Touches(o), x # o
          PROVE  FALSE
      BY <1>1, <1>3, <2>3 DEF Touches, Same
    <2>4. ~ByItself(x) /\ ~Evicts(x)
      BY <1>3 DEF ByItself, Renames, Runs, Ends, Evicts, Becomes, MakeRow, RowFails, Nameable, Popped
    <2>5. ~\E y \in DOMAIN managed : CleansUp(y, x)
      BY DEF CleansUp, Drops, Becomes, Popped
    <2>6. ASSUME NEW c \in Callers, ByRequest(c, x)
          PROVE  caller'[c] # Idle /\ caller'[c].pc = "cleanup" /\ caller'[c].object = x
      <3>1. NamingFails(c) /\ caller[c] # Idle /\ caller[c].object = x
        BY <1>3, <2>6 DEF ByRequest, Drops, Becomes, Popped
      <3> QED BY <1>0, <3>1, NamingFailsDoes DEF Moves
    <2> QED BY <1>0, <1>1, <2>1, <2>2, <2>3, <2>4, <2>5, <2>6, ObjectsStep, OneObjectTouched
  <1> QED BY <1>2, <1>3

LEMMA GivenNext ==
  ASSUME Sound, [Next]_vars
  PROVE  Given'
  <1>0. Typed /\ Rows /\ Objects /\ Calls /\ Registered /\ Given
    BY DEF Sound, Typed
  <1> SUFFICES ASSUME NEW c \in Callers, caller'[c] # Idle, caller'[c].op # "create",
                      caller'[c].pc \in {"discard", "starting", "writing", "query", "failed"}
               PROVE  managed'[caller'[c].object].key \in {"sid", "dropped"}
    BY DEF Given
  <1>1. CASE caller'[c] = caller[c]
    <2>1. PICK x \in DOMAIN managed : x = caller[c].object
      BY <1>0, <1>1, CallTyped DEF HasObject, Held
    <2> QED BY <1>0, <1>1, <2>1, DroppedStays, KeyGoes DEF Given
  <1>2. ASSUME NEW s \in Sids, Send(c, s) \/ Attach(c, s) \/ Create(c, s)
        PROVE  FALSE
    <2>1. meta[s] \in Written
      BY <1>0, <1>2 DEF Typed, Base
    <2> QED BY <1>0, <1>2, <2>1, Beginning DEF Begins
  \* What the registry has.
  <1>3. ASSUME NEW r \in Sids, sessions[r] # Nobody, TouchesNone, caller'[c].object = sessions[r]
        PROVE  managed'[caller'[c].object].key = "sid"
    BY <1>0, <1>3 DEF Typed, Known, Registered, TouchesNone, Same
  <1>4. ASSUME caller[c] # Idle, Find(c)
        PROVE  managed'[caller'[c].object].key \in {"sid", "dropped"}
    <2>1. caller[c].sid \in Sids
      BY <1>0, <1>4, CallTyped
    <2>2. TouchesNone /\ Usable(caller[c].sid) /\ Arrives(c, sessions[caller[c].sid], managed[sessions[caller[c].sid]].status)
      BY <1>0, <1>4, FindDoes DEF Moves
    <2> QED BY <1>3, <2>1, <2>2 DEF Arrives, Leaves, Moves, Usable
  <1>5. ASSUME caller[c] # Idle, Acquire(c)
        PROVE  managed'[caller'[c].object].key \in {"sid", "dropped"}
    <2> DEFINE s == caller[c].sid
    <2>1. s \in Sids /\ TouchesNone
      BY <1>0, <1>5, CallTyped, OthersTouchNone
    <2>2. \/ Usable(s) /\ Arrives(c, sessions[s], managed[sessions[s]].status)
          \/ sessions[s] # Nobody /\ \E seen : Moves(c, "discard", sessions[s], seen)
          \/ \E seen : Moves(c, "capacity", Nobody, seen)
      BY <1>0, <1>5, CallTyped, AcquireEffect
    <2>3. sessions[s] # Nobody /\ caller'[c].object = sessions[s]
      BY <2>2 DEF Arrives, Leaves, Moves, Usable
    <2> QED BY <1>3, <2>1, <2>3
  <1>6. ASSUME caller[c] # Idle, Register(c)
        PROVE  managed'[caller'[c].object].key \in {"sid", "dropped"}
    <2>1. Moves(c, "starting", Len(managed) + 1, caller[c].seen)
      BY <1>0, <1>6, RegisterDoes
    <2>2. caller[c].op # "create" /\ caller'[c].object = Len(managed) + 1
      BY <2>1 DEF Moves
    <2>3. Adds(Len(managed) + 1, caller[c].sid, caller[c].seen, "sid")
      BY <1>0, <1>6, <2>2, RegisterDoes
    <2> QED BY <2>2, <2>3 DEF Adds
  <1>7. ASSUME caller[c] # Idle, Started(c) \/ WriteRunning(c) \/ Query(c)
        PROVE  managed'[caller'[c].object].key \in {"sid", "dropped"}
    <2>1. caller[c].pc \in {"starting", "writing", "query"}
      BY <1>7 DEF Started, WriteRunning, Query
    <2>2. /\ caller'[c].object = caller[c].object /\ caller[c].op # "create"
          /\ managed'[caller[c].object].key = managed[caller[c].object].key
      <3>1. CASE Started(c)
        BY <1>0, <1>7, <3>1, StartedDoes DEF Arrives, Leaves, Moves, Becomes
      <3>2. CASE WriteRunning(c)
        BY <1>0, <1>7, <3>2, MovingNow DEF WriteRunning, Place, Moves
      <3>3. CASE Query(c)
        BY <1>0, <1>7, <3>3, QueryDoes DEF Leaves, Moves, Becomes
      <3> QED BY <1>7, <3>1, <3>2, <3>3
    <2> QED BY <1>0, <1>7, <2>1, <2>2 DEF Given
  <1>8. ASSUME caller[c] # Idle, Discard(c) \/ \E o \in Active : MakeRoom(c, o)
        PROVE  FALSE
    BY <1>0, <1>8, DiscardDoes, MakeRoomDoes DEF Moves
  <1>9. ASSUME caller[c] # Idle, Room(c) \/ RoomMade(c)
        PROVE  FALSE
    BY <1>0, <1>9, MovingNow DEF Moves, Room, RoomMade, Place
  <1>10. ASSUME caller[c] # Idle, NoRoom(c) \/ StartFails(c) \/ Failed(c) \/ Named(c) \/ CleanedUp(c)
         PROVE  FALSE
    BY <1>0, <1>10, CallLeaves DEF NoRoom, StartFails, Failed, Named, CleanedUp
  <1>11. ASSUME caller[c] # Idle, NamingFails(c)
         PROVE  FALSE
    BY <1>0, <1>11, NamingFailsDoes DEF Moves
  <1>12. CASE caller'[c] # caller[c]
    <2>1. Request(c)
      BY <1>0, <1>12, RequestMoves
    <2> QED BY <1>2, <1>4, <1>5, <1>6, <1>7, <1>8, <1>9, <1>10, <1>11, <2>1 DEF Request
  <1> QED BY <1>1, <1>12

LEMMA SoundInit ==
  ASSUME Init
  PROVE  Sound
  <1>1. DOMAIN managed = {}
    BY DEF Init
  <1>2. /\ Shaped /\ Ordered /\ Creating /\ Unnamed /\ Registered /\ RowsOfEvictions
        /\ Dropping /\ Attended /\ Given
    BY <1>1 DEF Init, Shaped, Ordered, Creating, Unnamed, Registered, RowsOfEvictions, Nobody,
       Dropping, Attended, Given
  <1> QED BY <1>2, TypedInit, RowsInit DEF Sound

LEMMA SoundNext ==
  ASSUME Sound, [Next]_vars
  PROVE  Sound'
  <1>1. Typed /\ Rows /\ Shaped /\ Ordered
    BY DEF Sound
  <1>2. Typed'
    BY <1>1, TypedNext
  <1>3. Rows' /\ Shaped' /\ Ordered'
    BY <1>1, <1>2, RowsNext, ShapedNext, OrderedNext
  <1>4. Creating' /\ Unnamed' /\ Registered' /\ RowsOfEvictions'
    BY <1>2, CreatingNext, UnnamedNext, RegisteredNext, RowsOfEvictionsNext
  <1>5. Dropping' /\ Attended' /\ Given'
    BY DroppingNext, AttendedNext, GivenNext
  <1> QED BY <1>2, <1>3, <1>4, <1>5 DEF Sound

LEMMA SoundAlways ==
  Spec => []Sound
  BY SoundInit, SoundNext, PTL DEF Spec

-----------------------------------------------------------------------------
(* What is shown as running, and what settles it.                          *)

\* The request that makes the object o has not given it its first query yet.
Awaited(o) == \E c \in Callers :
  caller[c] # Idle /\ caller[c].op = "create" /\ caller[c].pc \in {"starting", "query"} /\ caller[c].object = o

RunningObject == \A o \in DOMAIN managed :
  managed[o].status = "running" =>
    managed[o].turns > 0 \/ managed[o].inbox > 0 \/ Sid(o) \in stale \/ Awaited(o)

Asking(s) == \E c \in Callers :
  caller[c] # Idle /\ caller[c].op # "create" /\ caller[c].pc \in {"query", "failed"} /\ caller[c].sid = s

\* What the object o has to do ends with its session's row being written.
Ending(o) == managed[o].key \in {"sid", "created"} /\ Busy(o)

RunningRow == \A s \in Sids \ stale : meta[s] = "running" =>
  \/ Asking(s)
  \/ \E o \in DOMAIN managed : Sid(o) = s /\ (Ending(o) \/ o \in persisting)

LEMMA StaleStays ==
  ASSUME [Next]_vars
  PROVE  stale \subseteq stale'
  <1>1. CASE UNCHANGED vars
    BY <1>1 DEF vars, history
  <1>2. ASSUME NEW c \in Callers, Request(c)
        PROVE  stale \subseteq stale'
    <2>1. CASE \E s \in Sids : Send(c, s) \/ Attach(c, s) \/ Create(c, s)
      BY <2>1 DEF history, Send, Attach, Create
    <2>2. CASE \/ Find(c) \/ Acquire(c) \/ Discard(c) \/ Room(c) \/ NoRoom(c) \/ RoomMade(c)
               \/ \E o \in Active : MakeRoom(c, o)
      BY <2>2 DEF history, Find, Acquire, Discard, Room, NoRoom, RoomMade, MakeRoom
    <2>3. CASE Register(c) \/ Started(c) \/ StartFails(c) \/ WriteRunning(c)
      BY <2>3 DEF history, Register, Started, StartFails, WriteRunning
    <2>4. CASE Query(c) \/ Failed(c) \/ Named(c) \/ NamingFails(c) \/ CleanedUp(c)
      BY <2>4 DEF history, Query, Failed, Named, NamingFails, CleanedUp
    <2> QED BY <1>2, <2>1, <2>2, <2>3, <2>4 DEF Request
  <1>3. ASSUME NEW o \in DOMAIN managed, Inside(o)
        PROVE  stale \subseteq stale'
    BY <1>3 DEF Inside, history, MakeRow, RowFails, SwapKeys, Finalize, Finalized, Die, PersistError,
         Result, TimerEnded, Disconnected, Evicted, Cleanup, CleanupDead, CleanupNothing
  <1>4. ASSUME NEW s \in Sids, Interrupt(s) \/ Patrol(s)
        PROVE  stale \subseteq stale'
    BY <1>4 DEF Interrupt, Patrol, history
  <1> QED BY <1>1, <1>2, <1>3, <1>4 DEF Next

\* The steps of a request that has started an object or is about to ask it.
LEMMA RequestStep ==
  ASSUME Sound, [Next]_vars, NEW c \in Callers, caller[c] # Idle,
         caller[c].pc \in {"starting", "query", "failed"}, caller'[c] # caller[c]
  PROVE  \/ Started(c) \/ Query(c)
         \/ (StartFails(c) \/ Failed(c)) /\ caller'[c] = Idle
  <1>0. Typed /\ Calls
    BY DEF Sound, Typed
  <1>1. Request(c)
    BY <1>0, RequestMoves
  <1>2. ~\E s \in Sids : Send(c, s) \/ Attach(c, s) \/ Create(c, s)
    BY DEF Send, Attach, Create
  <1>3. ~(\/ Find(c) \/ Acquire(c) \/ Discard(c) \/ Room(c) \/ NoRoom(c) \/ RoomMade(c)
          \/ \E o \in Active : MakeRoom(c, o))
    BY DEF Find, Acquire, Discard, Room, NoRoom, RoomMade, MakeRoom
  <1>4. ~(Register(c) \/ WriteRunning(c) \/ Named(c) \/ NamingFails(c) \/ CleanedUp(c))
    BY DEF Register, WriteRunning, Named, NamingFails, CleanedUp
  <1>5. Started(c) \/ Query(c) \/ StartFails(c) \/ Failed(c)
    BY <1>1, <1>2, <1>3, <1>4 DEF Request
  <1>6. StartFails(c) \/ Failed(c) => caller'[c] = Idle
    BY <1>0, CallLeaves DEF StartFails, Failed
  <1> QED BY <1>5, <1>6

LEMMA RunningObjectNext ==
  ASSUME Sound, RunningObject, [Next]_vars
  PROVE  RunningObject'
  <1>0. Typed /\ Rows /\ Objects /\ stale \subseteq stale'
    BY StaleStays DEF Sound, Typed
  <1> SUFFICES ASSUME NEW x \in DOMAIN managed', managed'[x].status = "running"
               PROVE  managed'[x].turns > 0 \/ managed'[x].inbox > 0 \/ managed'[x].sid \in stale' \/ Awaited(x)'
    BY DEF RunningObject, Sid
  \* A request that waits goes on waiting, or has asked.
  <1>1. ASSUME NEW c \in Callers, caller[c] # Idle, caller[c].op = "create",
               caller[c].pc \in {"starting", "query"}, caller[c].object = x
        PROVE  managed'[x].turns > 0 \/ Awaited(x)'
    <2>1. CASE caller'[c] = caller[c]
      BY <1>1, <2>1 DEF Awaited
    <2>2. CASE Started(c)
      BY <1>0, <1>1, <2>2, StartedDoes DEF Moves, Awaited
    <2>3. CASE Query(c)
      <3>1. /\ x \in DOMAIN managed
            /\ ~Refuses(x) => managed'[x].turns = managed[x].turns + 1
            /\ Refuses(x) => managed'[x].status = "ended"
        BY <1>0, <1>1, <2>3, QueryDoes DEF Becomes
      <3>2. managed[x].turns \in Nat
        BY <1>0, <3>1, FieldsTyped
      <3> QED BY <3>1, <3>2
    <2>4. CASE StartFails(c) \/ (Failed(c) /\ caller[c].op = "create")
      BY <1>0, <1>1, <2>4, RetiresDoes DEF Becomes
    <2> QED BY <1>1, <2>1, <2>2, <2>3, <2>4, RequestStep
  <1>2. ASSUME x \in DOMAIN managed, managed[x].status = "running", managed'[x].sid = managed[x].sid,
               managed[x].turns > 0 \/ managed[x].inbox > 0 => managed'[x].turns > 0 \/ managed'[x].inbox > 0
        PROVE  managed'[x].turns > 0 \/ managed'[x].inbox > 0 \/ managed'[x].sid \in stale' \/ Awaited(x)'
    <2>1. managed[x].turns > 0 \/ managed[x].inbox > 0 \/ Sid(x) \in stale \/ Awaited(x)
      BY <1>2 DEF RunningObject
    <2>2. Awaited(x) => managed'[x].turns > 0 \/ Awaited(x)'
      BY <1>1 DEF Awaited
    <2> QED BY <1>0, <1>2, <2>1, <2>2 DEF Sid
  <1>3. CASE TouchesNone
    BY <1>2, <1>3 DEF TouchesNone, Same
  <1>4. ASSUME NEW o \in DOMAIN managed, Touches(o), x # o
        PROVE  managed'[x].turns > 0 \/ managed'[x].inbox > 0 \/ managed'[x].sid \in stale' \/ Awaited(x)'
    BY <1>2, <1>4 DEF Touches, Same
  <1>5. ASSUME NEW c \in Callers, caller[c] # Idle, Register(c)
        PROVE  managed'[x].turns > 0 \/ managed'[x].inbox > 0 \/ managed'[x].sid \in stale' \/ Awaited(x)'
    <2>1. CASE x \in DOMAIN managed
      BY <1>0, <1>2, <1>5, <2>1, RegisterDoes DEF Adds, Same
    <2>2. CASE x \notin DOMAIN managed /\ caller[c].op = "create"
      <3>1. Moves(c, "starting", Len(managed) + 1, caller[c].seen) /\ DOMAIN managed' = DOMAIN managed \cup {Len(managed) + 1}
        BY <1>0, <1>5, <2>2, RegisterDoes DEF Adds
      <3> QED BY <2>2, <3>1 DEF Moves, Awaited
    <2>3. CASE x \notin DOMAIN managed /\ caller[c].op # "create"
      <3>1. /\ Adds(Len(managed) + 1, caller[c].sid, caller[c].seen, "sid")
            /\ stale' = IF caller[c].seen = "running" THEN stale \cup {caller[c].sid} ELSE stale
        BY <1>0, <1>5, <2>3, RegisterDoes
      <3> QED BY <2>3, <3>1 DEF Adds
    <2> QED BY <2>1, <2>2, <2>3
  <1>6. ASSUME x \in DOMAIN managed, Touches(x),
               \/ ByItself(x) \/ Evicts(x)
               \/ \E c \in Callers : ByRequest(c, x)
               \/ \E y \in DOMAIN managed : CleansUp(y, x)
        PROVE  managed'[x].turns > 0 \/ managed'[x].inbox > 0 \/ managed'[x].sid \in stale' \/ Awaited(x)'
    <2>1. managed[x].turns \in Nat /\ managed[x].inbox \in Nat /\ managed'[x].sid = managed[x].sid
      BY <1>0, <1>6, FieldsTyped DEF Touches
    <2>2. CASE Renames(x) \/ Evicts(x)
      BY <1>2, <1>6, <2>1, <2>2 DEF Renames, Evicts, Becomes
    <2>3. CASE Runs(x)
      BY <1>2, <1>6, <2>1, <2>3 DEF Runs, Becomes
    <2>4. CASE Ends(x)
      BY <1>2, <1>6, <2>1, <2>4 DEF Ends, Becomes
    <2>5. CASE \E c \in Callers : ByRequest(c, x)
      BY <1>2, <1>6, <2>1, <2>5 DEF ByRequest, Drops, Becomes
    <2>6. CASE \E y \in DOMAIN managed : CleansUp(y, x)
      BY <2>6 DEF CleansUp, Drops, Becomes
    <2> QED BY <1>6, <2>2, <2>3, <2>4, <2>5, <2>6 DEF ByItself
  <1> QED BY <1>0, <1>3, <1>4, <1>5, <1>6, ObjectsStep, OneObjectTouched DEF Touches

LEMMA PersistingStays ==
  ASSUME Sound, [Next]_vars, NEW x \in persisting
  PROVE  x \in persisting' \/ PersistError(x)
  <1>1. CASE UNCHANGED vars
    BY <1>1 DEF vars
  <1>2. ASSUME NEW c \in Callers, Request(c)
        PROVE  x \in persisting'
    <2>1. CASE \E s \in Sids : Send(c, s) \/ Attach(c, s) \/ Create(c, s)
      BY <2>1 DEF Send, Attach, Create
    <2>2. CASE \/ Find(c) \/ Acquire(c) \/ Discard(c) \/ Room(c) \/ NoRoom(c) \/ RoomMade(c)
               \/ \E o \in Active : MakeRoom(c, o)
      BY <2>2 DEF Find, Acquire, Discard, Room, NoRoom, RoomMade, MakeRoom
    <2>3. CASE Register(c) \/ Started(c) \/ StartFails(c) \/ WriteRunning(c)
      BY <2>3 DEF Register, Started, StartFails, WriteRunning
    <2>4. CASE Query(c) \/ Failed(c) \/ Named(c) \/ NamingFails(c) \/ CleanedUp(c)
      BY <2>4 DEF Query, Failed, Named, NamingFails, CleanedUp
    <2> QED BY <1>2, <2>1, <2>2, <2>3, <2>4 DEF Request
  <1>3. ASSUME NEW o \in DOMAIN managed, Inside(o), ~PersistError(x)
        PROVE  x \in persisting'
    BY <1>3 DEF Inside, MakeRow, RowFails, SwapKeys, Finalize, Finalized, Die, ToPersist, PersistError,
         Result, TimerEnded, Disconnected, Evicted, Cleanup, CleanupDead, CleanupNothing
  <1>4. ASSUME NEW s \in Sids, Interrupt(s) \/ Patrol(s)
        PROVE  x \in persisting'
    BY <1>4 DEF Interrupt, Patrol
  <1> QED BY <1>1, <1>2, <1>3, <1>4 DEF Next

\* A turn of a session with a row is not forgotten: its end is written, or is
\* still to be written.
LEMMA BusyEnds ==
  ASSUME Sound, [Next]_vars, NEW x \in DOMAIN managed, Ending(x)
  PROVE  Ending(x)' \/ x \in persisting' \/ Sid(x) \in stale' \/ Finalized(x)
  <1>0. /\ Typed /\ Rows /\ Objects /\ Shape(x) /\ Busy(x) /\ managed[x].key \in {"sid", "created"}
        /\ managed[x].turns \in Nat /\ managed[x].inbox \in Nat /\ managed[x].settling \in BOOLEAN
    BY FieldsTyped DEF Sound, Typed, Shaped, Ending
  <1>1. Same(x) => Ending(x)'
    BY <1>0 DEF Same, Ending, Busy, Drained
  <1>2. CASE TouchesNone
    BY <1>1, <1>2 DEF TouchesNone
  <1>3. ASSUME NEW c \in Callers, caller[c] # Idle, Register(c)
        PROVE  Same(x)
    BY <1>0, <1>3, RegisterDoes DEF Adds
  <1>4. ASSUME NEW o \in DOMAIN managed, Touches(o), x # o
        PROVE  Same(x)
    BY <1>4 DEF Touches
  <1>5. CASE Renames(x) \/ Evicts(x)
    BY <1>0, <1>5 DEF Renames, Evicts, Becomes, Ending, Busy, Drained, MakeRow, RowFails, Nameable
  <1>6. CASE Runs(x)
    <2>1. CASE Result(x)
      BY <1>0, <2>1, ResultObject DEF Becomes, Ending, Busy, Drained
    <2>2. CASE Finalize(x)
      BY <1>0, <2>2, FinalizeObject DEF Becomes, Ending, Busy, Drained
    <2> QED BY <1>6, <2>1, <2>2 DEF Runs
  <1>7. CASE Ends(x)
    <2>1. CASE Die(x) /\ (managed[x].key = "sid" \/ managed[x].turns > 0)
      BY <1>0, <2>1 DEF Die, ToPersist
    <2>2. CASE Die(x) /\ ~(managed[x].turns > 0)
      BY <1>0, <2>2, InsideDoes DEF Becomes, Ending, Busy, Drained
    <2>3. CASE TimerEnded(x)
      BY <1>0, <2>3, TimerEndedObject DEF Becomes, Ending, Busy, Drained
    <2>4. CASE Disconnected(x)
      <3>1. CASE managed[x].turns > 0
        BY <2>4, <3>1 DEF Disconnected
      <3>2. CASE ~(managed[x].turns > 0)
        BY <1>0, <2>4, <3>2, DisconnectedObject DEF Becomes, Ending, Busy, Drained
      <3> QED BY <3>1, <3>2
    <2>5. ~Evicted(x)
      BY <1>0 DEF Evicted, Shape, Busy
    <2> QED BY <1>0, <1>7, <2>1, <2>2, <2>3, <2>4, <2>5 DEF Ends
  <1>8. ASSUME NEW c \in Callers, ByRequest(c, x)
        PROVE  Ending(x)' \/ x \in persisting' \/ Sid(x) \in stale'
    <2>1. caller[c] # Idle /\ caller[c].object = x /\ Sid(x) = caller[c].sid
      BY <1>8 DEF ByRequest
    <2>2. CASE Started(c) \/ Query(c)
      <3>1. /\ managed'[x].key = managed[x].key /\ managed'[x].inbox = managed[x].inbox
            /\ managed'[x].settling = managed[x].settling
            /\ managed'[x].turns \in {managed[x].turns, managed[x].turns + 1}
        BY <1>0, <2>1, <2>2, StartedDoes, QueryDoes DEF Becomes
      <3> QED BY <1>0, <3>1 DEF Ending, Busy, Drained
    <2>3. CASE Discard(c)
      BY <1>0, <2>1, <2>3 DEF Sound, Ordered, Proper, Discard, Shape, Busy
    <2>4. CASE StartFails(c)
      <3>1. Drained(x)
        BY <2>1, <2>4 DEF Sound, Ordered, Proper, StartFails
      <3>2. managed[x].turns > 0
        BY <1>0, <3>1 DEF Busy
      <3> QED BY <2>1, <2>4, <3>2 DEF StartFails
    <2>5. CASE NamingFails(c)
      BY <1>0, <2>1, <2>5 DEF NamingFails, Temporary
    <2>6. ~CleanedUp(c)
      BY <1>0, <2>1 DEF CleanedUp, Sound, Dropping, Popped
    <2>7. CASE Failed(c) /\ caller[c].op = "create"
      BY <1>0, <2>1, <2>7 DEF Sound, Creating, Creates, Failed, Early
    <2> QED BY <1>8, <2>2, <2>3, <2>4, <2>5, <2>6, <2>7 DEF ByRequest
  <1>9. ~\E y \in DOMAIN managed : CleansUp(y, x)
    BY <1>0 DEF CleansUp, CleanupDead, Shape, Busy
  <1> QED BY <1>0, <1>1, <1>2, <1>3, <1>4, <1>5, <1>6, <1>7, <1>8, <1>9, ObjectsStep, OneObjectTouched DEF ByItself

LEMMA RunningRowNext ==
  ASSUME Sound, RunningRow, [Next]_vars
  PROVE  RunningRow'
  <1>0. Typed /\ Rows /\ Objects /\ stale \subseteq stale' /\ meta \in [Sids -> Written]
    BY StaleStays DEF Sound, Typed, Base
  <1> SUFFICES ASSUME NEW s \in Sids \ stale', meta'[s] = "running"
               PROVE  \/ Asking(s)'
                      \/ \E o \in DOMAIN managed' : managed'[o].sid = s /\ (Ending(o)' \/ o \in persisting')
    BY DEF RunningRow, Sid
  <1>1. CASE meta[s] = "running"
    <2>1. ASSUME NEW c \in Callers, caller[c] # Idle, caller[c].op # "create",
                 caller[c].pc \in {"query", "failed"}, caller[c].sid = s
          PROVE  \/ Asking(s)'
                 \/ \E o \in DOMAIN managed' : managed'[o].sid = s /\ (Ending(o)' \/ o \in persisting')
      <3>1. CASE caller'[c] = caller[c]
        BY <2>1, <3>1 DEF Asking
      <3>2. CASE Query(c) /\ Refuses(caller[c].object)
        BY <1>0, <2>1, <3>2, QueryDoes DEF Moves, Asking
      <3>3. CASE Query(c) /\ ~Refuses(caller[c].object)
        <4>1. PICK x \in DOMAIN managed : /\ x = caller[c].object /\ Sid(x) = s
                                          /\ managed'[x].turns = managed[x].turns + 1 /\ Touches(x)
          BY <1>0, <2>1, <3>3, QueryDoes DEF Becomes
        <4>2. managed[x].turns \in Nat
          BY <1>0, FieldsTyped
        <4>3. x \in DOMAIN managed' /\ managed'[x].sid = s /\ managed'[x].turns > 0
          BY <4>1, <4>2 DEF Touches, Sid
        <4>4. managed[x].key = "sid"
          BY <2>1, <3>3, <4>1 DEF Sound, Given, Shaped, Shape, Refuses, Query
        <4>5. managed'[x].key = "sid"
          BY <1>0, <2>1, <3>3, <4>1, <4>4, QueryDoes DEF Becomes
        <4> QED BY <4>3, <4>5 DEF Ending, Busy
      <3>4. CASE Failed(c)
        BY <1>0, <1>1, <2>1, <3>4 DEF Failed
      <3>5. ~Started(c) /\ ~StartFails(c)
        BY <2>1 DEF Started, StartFails
      <3> QED BY <2>1, <3>1, <3>2, <3>3, <3>4, <3>5, RequestStep
    <2>2. ASSUME NEW o \in DOMAIN managed, Sid(o) = s, Ending(o) \/ o \in persisting
          PROVE  o \in DOMAIN managed' /\ managed'[o].sid = s /\ (Ending(o)' \/ o \in persisting')
      <3>1. o \in DOMAIN managed' /\ managed'[o].sid = s
        BY <2>2, SidStays DEF Sid
      <3>2. ~PersistError(o)
        BY <1>0, <2>2 DEF PersistError
      <3>3. CASE Ending(o)
        <4>1. managed[o].settling => managed[o].key = "sid"
          BY <3>3 DEF Sound, Shaped, Shape, Ending
        <4>2. ~Finalized(o)
          BY <1>0, <2>2, <4>1 DEF Finalized
        <4> QED BY <2>2, <3>1, <3>3, <4>2, BusyEnds
      <3>4. CASE o \in persisting
        BY <3>1, <3>2, <3>4, PersistingStays
      <3> QED BY <2>2, <3>3, <3>4
    <2> QED BY <1>0, <1>1, <2>1, <2>2 DEF RunningRow, Asking
  <1>2. CASE meta[s] # "running"
    <2>1. \/ \E c \in Callers : caller[c] # Idle /\ WriteRunning(c) /\ caller[c].sid = s
          \/ \E o \in DOMAIN managed : MakeRow(o) /\ Sid(o) = s
      <3>1. ASSUME NEW c \in Callers, Request(c)
            PROVE  caller[c] # Idle /\ WriteRunning(c) /\ caller[c].sid = s
        <4>1. CASE \E r \in Sids : Send(c, r) \/ Attach(c, r) \/ Create(c, r)
          BY <1>2, <4>1 DEF Send, Attach, Create
        <4>2. CASE \/ Find(c) \/ Acquire(c) \/ Discard(c) \/ Room(c) \/ NoRoom(c) \/ RoomMade(c)
                   \/ \E o \in Active : MakeRoom(c, o)
          BY <1>2, <4>2 DEF Find, Acquire, Discard, Room, NoRoom, RoomMade, MakeRoom
        <4>3. CASE \/ Register(c) \/ Started(c) \/ StartFails(c) \/ Query(c)
                   \/ Named(c) \/ NamingFails(c) \/ CleanedUp(c)
          BY <1>2, <4>3 DEF Register, Started, StartFails, Query, Named, NamingFails, CleanedUp
        <4>4. CASE caller[c] # Idle /\ (WriteRunning(c) \/ Failed(c))
          BY <1>0, <1>2, <4>4 DEF WriteRunning, Failed
        <4> QED BY <3>1, <4>1, <4>2, <4>3, <4>4 DEF Request
      <3>2. ASSUME NEW o \in DOMAIN managed, Inside(o)
            PROVE  MakeRow(o) /\ Sid(o) = s
        BY <1>0, <1>2, <3>2 DEF Inside, MakeRow, RowFails, SwapKeys, Finalize, Finalized, Die, PersistError,
           Result, TimerEnded, Disconnected, Evicted, Cleanup, CleanupDead, CleanupNothing
      <3>3. ASSUME NEW r \in Sids, Interrupt(r) \/ Patrol(r)
            PROVE  FALSE
        BY <1>0, <1>2, <3>3 DEF Interrupt, Patrol
      <3>4. ~UNCHANGED vars
        BY <1>2 DEF vars
      <3> QED BY <3>1, <3>2, <3>3, <3>4 DEF Next
    <2>2. ASSUME NEW c \in Callers, caller[c] # Idle, WriteRunning(c), caller[c].sid = s
          PROVE  Asking(s)'
      <3>1. Moves(c, "query", caller[c].object, caller[c].seen)
        BY <1>0, <2>2, MovingNow DEF WriteRunning, Place, Typed
      <3>2. caller[c].op # "create"
        BY <2>2 DEF Sound, Ordered, Proper, WriteRunning
      <3> QED BY <2>2, <3>1, <3>2 DEF Moves, Asking
    <2>3. ASSUME NEW o \in DOMAIN managed, MakeRow(o), Sid(o) = s
          PROVE  o \in DOMAIN managed' /\ managed'[o].sid = s /\ Ending(o)'
      <3>1. managed[o].key = "temp" /\ Busy(o)
        BY <2>3 DEF MakeRow, Nameable
      <3>2. /\ o \in DOMAIN managed' /\ managed'[o].sid = s /\ managed'[o].key = "created"
            /\ managed'[o].turns = managed[o].turns /\ managed'[o].inbox = managed[o].inbox
            /\ managed'[o].settling = managed[o].settling
        BY <1>0, <2>3, <3>1, MakeRowObject DEF Becomes, Touches, Sid
      <3> QED BY <3>1, <3>2 DEF Ending, Busy, Drained
    <2> QED BY <2>1, <2>2, <2>3
  <1> QED BY <1>1, <1>2

LEMMA RunningAlways ==
  Spec => [](Sound /\ RunningObject /\ RunningRow)
  <1>1. Init => Sound /\ RunningObject /\ RunningRow
    BY SoundInit DEF Init, RunningObject, RunningRow
  <1>2. Sound /\ RunningObject /\ RunningRow /\ [Next]_vars => (Sound /\ RunningObject /\ RunningRow)'
    BY SoundNext, RunningObjectNext, RunningRowNext
  <1> QED BY <1>1, <1>2, PTL DEF Spec

\* When nothing is left to do no session is shown as running but those of stale
\* (see SettledWhenQuiet): the end of a turn was written by _finalize_turn, by
\* the task of a dead actor, by the request that failed or by the eviction.
THEOREM ManagerSettles == Spec => []SettledWhenQuiet
  <1>1. ASSUME Sound, RunningObject, RunningRow
        PROVE  SettledWhenQuiet
    <2> SUFFICES ASSUME Quiet, NEW s \in Sids, Status(s) = "running"
                 PROVE  s \in stale
      BY DEF SettledWhenQuiet
    <2>1. /\ \A c \in Callers : caller[c] = Idle
          /\ \A o \in DOMAIN managed : ~Busy(o) /\ o \notin persisting
      BY DEF Quiet
    <2>2. CASE sessions[s] # Nobody
      <3>1. PICK o \in DOMAIN managed : o = sessions[s] /\ Sid(o) = s
        BY <1>1, <2>2 DEF Sound, Typed, Known
      <3>2. managed[o].turns \in Nat /\ managed[o].inbox \in Nat
        BY <1>1, FieldsTyped DEF Sound, Typed
      <3>3. ~(managed[o].turns > 0) /\ ~(managed[o].inbox > 0) /\ ~Awaited(o)
        BY <2>1, <3>2 DEF Busy, Drained, Awaited
      <3> QED BY <1>1, <2>2, <3>1, <3>3 DEF Status, RunningObject
    <2>3. CASE sessions[s] = Nobody
      BY <1>1, <2>1, <2>3 DEF Status, RunningRow, Asking, Ending
    <2> QED BY <2>2, <2>3
  <1> QED BY <1>1, RunningAlways, PTL

-----------------------------------------------------------------------------
(* Who serves a session.                                                   *)

Serves(o) == ~Over(o) /\ managed[o].key = "sid"

\* A mark stands for an eviction that is under way.
Marked == \A s \in disconnecting : \E o \in DOMAIN managed : Sid(o) = s /\ UnderEviction(o)

\* Of a session that no two objects were made or evicted for at once: what
\* serves it is in the registry, ...
OneServes == \A o \in DOMAIN managed : Serves(o) /\ Sid(o) \notin collided => sessions[Sid(o)] = o

\* ... nothing else of it is evicted, ...
OneEvicted == \A o, x \in DOMAIN managed :
  UnderEviction(o) /\ Serves(x) /\ Sid(x) = Sid(o) /\ Sid(o) \notin collided => x = o

\* ... one request at most makes it an object, ...
OneConnects == \A c, d \in Callers :
  /\ caller[c] # Idle /\ caller[c].pc \in Locked /\ caller[d] # Idle /\ caller[d].pc \in Locked
  /\ caller[c].sid = caller[d].sid /\ caller[c].sid \notin collided
  => c = d

\* ... and while it does what served the session is on its way out.
Holds(c, x) ==
  /\ caller[c].pc # "discard"
  /\ caller[c].pc \in Early => UnderEviction(x)
  /\ caller[c].pc = "starting" => caller[c].object = x

Holder == \A c \in Callers, x \in DOMAIN managed :
  /\ caller[c] # Idle /\ caller[c].op # "create" /\ caller[c].sid \notin collided
  /\ Serves(x) /\ Sid(x) = caller[c].sid
  => Holds(c, x)

Alright == Sound /\ Marked /\ OneServes /\ OneEvicted /\ OneConnects /\ Holder

LEMMA CollidedStays ==
  ASSUME [Next]_vars
  PROVE  collided \subseteq collided'
  <1>1. CASE UNCHANGED vars
    BY <1>1 DEF vars, history
  <1>2. ASSUME NEW c \in Callers, Request(c)
        PROVE  collided \subseteq collided'
    <2>1. CASE \E s \in Sids : Send(c, s) \/ Attach(c, s) \/ Create(c, s)
      BY <2>1 DEF history, Send, Attach, Create
    <2>2. CASE \/ Find(c) \/ Acquire(c) \/ Discard(c) \/ Room(c) \/ NoRoom(c) \/ RoomMade(c)
               \/ \E o \in Active : MakeRoom(c, o)
      BY <2>2 DEF history, Find, Acquire, Discard, Room, NoRoom, RoomMade, MakeRoom
    <2>3. CASE Register(c) \/ Started(c) \/ StartFails(c) \/ WriteRunning(c)
      BY <2>3 DEF history, Register, Started, StartFails, WriteRunning
    <2>4. CASE Query(c) \/ Failed(c) \/ Named(c) \/ NamingFails(c) \/ CleanedUp(c)
      BY <2>4 DEF history, Query, Failed, Named, NamingFails, CleanedUp
    <2> QED BY <1>2, <2>1, <2>2, <2>3, <2>4 DEF Request
  <1>3. ASSUME NEW o \in DOMAIN managed, Inside(o)
        PROVE  collided \subseteq collided'
    BY <1>3 DEF Inside, history, MakeRow, RowFails, SwapKeys, Finalize, Finalized, Die, PersistError,
         Result, TimerEnded, Disconnected, Evicted, Cleanup, CleanupDead, CleanupNothing
  <1>4. ASSUME NEW s \in Sids, Interrupt(s) \/ Patrol(s)
        PROVE  collided \subseteq collided'
    BY <1>4 DEF Interrupt, Patrol, history
  <1> QED BY <1>1, <1>2, <1>3, <1>4 DEF Next

\* An object comes to serve when it is registered under its session's id.
LEMMA ServesStep ==
  ASSUME Sound, [Next]_vars, NEW x \in DOMAIN managed', Serves(x)'
  PROVE  \/ x \in DOMAIN managed /\ Serves(x)
         \/ \E c \in Callers : /\ caller[c] # Idle /\ Register(c) /\ caller[c].op # "create"
                               /\ x = Len(managed) + 1 /\ managed'[x].sid = caller[c].sid
         \/ x \in DOMAIN managed /\ SwapKeys(x)
  <1>0. Typed /\ Rows /\ Objects
    BY DEF Sound, Typed
  <1>1. ASSUME x \in DOMAIN managed, Same(x)
        PROVE  Serves(x)
    BY <1>1 DEF Same, Serves, Over
  <1>2. CASE TouchesNone
    BY <1>1, <1>2 DEF TouchesNone
  <1>3. ASSUME NEW o \in DOMAIN managed, Touches(o), x # o
        PROVE  x \in DOMAIN managed /\ Serves(x)
    BY <1>1, <1>3 DEF Touches
  <1>4. ASSUME NEW c \in Callers, caller[c] # Idle, Register(c)
        PROVE  \/ x \in DOMAIN managed /\ Serves(x)
               \/ /\ caller[c].op # "create" /\ x = Len(managed) + 1
                  /\ managed'[x].sid = caller[c].sid
    <2>1. CASE caller[c].op = "create"
      <3>1. Adds(Len(managed) + 1, caller[c].sid, "running", "temp")
        BY <1>0, <1>4, <2>1, RegisterDoes
      <3>2. managed'[Len(managed) + 1].key = "temp"
        BY <3>1 DEF Adds
      <3>3. x # Len(managed) + 1
        BY <3>2 DEF Serves
      <3> QED BY <1>1, <3>1, <3>3 DEF Adds
    <2>2. CASE caller[c].op # "create"
      <3>1. Adds(Len(managed) + 1, caller[c].sid, caller[c].seen, "sid")
        BY <1>0, <1>4, <2>2, RegisterDoes
      <3> QED BY <1>1, <2>2, <3>1 DEF Adds
    <2> QED BY <2>1, <2>2
  <1>5. ASSUME x \in DOMAIN managed,
               \/ ByItself(x) \/ Evicts(x)
               \/ \E c \in Callers : ByRequest(c, x)
               \/ \E y \in DOMAIN managed : CleansUp(y, x)
        PROVE  Serves(x) \/ SwapKeys(x)
    <2>1. CASE Renames(x)
      BY <2>1 DEF Renames, Becomes, Serves
    <2>2. CASE Runs(x) \/ Evicts(x)
      BY <2>2 DEF Runs, Evicts, Becomes, Serves, Over
    <2>3. CASE Ends(x)
      BY <2>3 DEF Ends, Becomes, Serves, Over
    <2>4. CASE \E c \in Callers : ByRequest(c, x)
      BY <2>4 DEF ByRequest, Drops, Becomes, Serves, Over, Begun
    <2>5. CASE \E y \in DOMAIN managed : CleansUp(y, x)
      BY <2>5 DEF CleansUp, Drops, Becomes, Serves
    <2> QED BY <1>5, <2>1, <2>2, <2>3, <2>4, <2>5 DEF ByItself
  <1> QED BY <1>0, <1>2, <1>3, <1>4, <1>5, ObjectsStep, OneObjectTouched DEF Touches

\* An eviction begins with an object of the registry, and ends with its mark.
LEMMA EvictionStep ==
  ASSUME Sound, [Next]_vars, NEW x \in DOMAIN managed
  PROVE  /\ UnderEviction(x)' => UnderEviction(x) \/ Evicts(x)
         /\ UnderEviction(x) => UnderEviction(x)' \/ Evicted(x)
  <1>0. Typed /\ Rows
    BY DEF Sound
  <1>1. Same(x) => (UnderEviction(x) <=> UnderEviction(x)')
    BY DEF Same, UnderEviction
  <1>2. ASSUME NEW c \in Callers, caller[c] # Idle, Register(c)
        PROVE  Same(x)
    BY <1>0, <1>2, RegisterDoes DEF Adds
  <1>3. ASSUME NEW o \in DOMAIN managed, Touches(o), x # o
        PROVE  Same(x)
    BY <1>3 DEF Touches
  <1>4. ASSUME \/ ByItself(x) \/ (\E c \in Callers : ByRequest(c, x))
               \/ \E y \in DOMAIN managed : CleansUp(y, x)
        PROVE  /\ UnderEviction(x)' => UnderEviction(x)
               /\ UnderEviction(x) => UnderEviction(x)' \/ Evicted(x)
    <2>1. CASE Renames(x) \/ Runs(x)
      BY <2>1 DEF Renames, Runs, Becomes, UnderEviction
    <2>2. CASE Ends(x)
      BY <2>2 DEF Ends, Becomes, UnderEviction, TimerEnded, Disconnected
    <2>3. CASE (\E c \in Callers : ByRequest(c, x)) \/ \E y \in DOMAIN managed : CleansUp(y, x)
      BY <2>3 DEF ByRequest, CleansUp, Drops, Becomes, UnderEviction
    <2> QED BY <1>4, <2>1, <2>2, <2>3 DEF ByItself
  <1>5. Evicts(x) => UnderEviction(x)'
    BY DEF Evicts, Becomes, UnderEviction
  <1>6. TouchesNone => Same(x)
    BY DEF TouchesNone
  <1> QED BY <1>0, <1>1, <1>2, <1>3, <1>4, <1>5, <1>6, ObjectsStep, OneObjectTouched

\* Who takes an entry out of the registry, and who takes a mark away.
LEMMA SessionsGo ==
  ASSUME Sound, [Next]_vars, NEW s \in Sids, sessions[s] # Nobody, sessions'[s] = Nobody
  PROVE  \/ \E c \in Callers : caller[c] # Idle /\ Discard(c) /\ caller[c].sid = s
         \/ \E c \in Callers : caller[c] # Idle /\ StartFails(c) /\ caller[c].op # "create" /\ caller[c].sid = s
         \/ \E y \in DOMAIN managed : Sid(y) = s /\ (CleanupDead(y) \/ Evicted(y))
  <1>0. sessions \in [Sids -> Nat] /\ Typed /\ Rows
    BY DEF Sound, Typed, Base
  <1>1. ASSUME NEW c \in Callers, Request(c)
        PROVE  \/ caller[c] # Idle /\ Discard(c) /\ caller[c].sid = s
               \/ caller[c] # Idle /\ StartFails(c) /\ caller[c].op # "create" /\ caller[c].sid = s
    <2>1. CASE caller[c] # Idle /\ Register(c)
      BY <1>0, <2>1, RegisterDoes DEF Nobody, Typed, Objects
    <2>2. CASE \E r \in Sids : Send(c, r) \/ Attach(c, r) \/ Create(c, r)
      BY <2>2 DEF Send, Attach, Create
    <2>3. CASE \/ Find(c) \/ Acquire(c) \/ Room(c) \/ NoRoom(c) \/ RoomMade(c)
               \/ \E o \in Active : MakeRoom(c, o)
      BY <2>3 DEF Find, Acquire, Room, NoRoom, RoomMade, MakeRoom
    <2>4. CASE \/ Started(c) \/ WriteRunning(c) \/ Query(c) \/ Failed(c)
               \/ Named(c) \/ NamingFails(c) \/ CleanedUp(c)
      BY <2>4 DEF Started, WriteRunning, Query, Failed, Named, NamingFails, CleanedUp
    <2>5. CASE caller[c] # Idle /\ (Discard(c) \/ StartFails(c))
      BY <1>0, <2>5 DEF Discard, StartFails, Unregistered
    <2> QED BY <1>1, <2>1, <2>2, <2>3, <2>4, <2>5 DEF Request
  <1>2. ASSUME NEW o \in DOMAIN managed, Inside(o)
        PROVE  Sid(o) = s /\ (CleanupDead(o) \/ Evicted(o))
    <2>1. ~SwapKeys(o)
      BY <1>0 DEF SwapKeys, Nobody, Typed, Objects
    <2> QED BY <1>0, <1>2, <2>1 DEF Inside, MakeRow, RowFails, Finalize, Finalized, Die, PersistError, Unregistered,
       Result, TimerEnded, Disconnected, Evicted, Cleanup, CleanupDead, CleanupNothing
  <1>3. ASSUME NEW r \in Sids, Interrupt(r) \/ Patrol(r)
        PROVE  FALSE
    BY <1>3 DEF Interrupt, Patrol
  <1>4. ~UNCHANGED vars
    BY DEF vars
  <1> QED BY <1>1, <1>2, <1>3, <1>4 DEF Next

LEMMA MarksStep ==
  ASSUME Sound, [Next]_vars, NEW s \in disconnecting', s \notin disconnecting
  PROVE  \E o \in DOMAIN managed : Sid(o) = s /\ Evicts(o)
  <1>0. Typed
    BY DEF Sound
  <1>1. ASSUME NEW c \in Callers, Request(c)
        PROVE  \E o \in DOMAIN managed : Sid(o) = s /\ Evicts(o)
    <2>1. PICK o \in Active : caller[c] # Idle /\ MakeRoom(c, o)
      <3>1. ~\E r \in Sids : Send(c, r) \/ Attach(c, r) \/ Create(c, r)
        BY DEF Send, Attach, Create
      <3>2. ~(Find(c) \/ Acquire(c) \/ Discard(c) \/ Room(c) \/ NoRoom(c) \/ RoomMade(c))
        BY DEF Find, Acquire, Discard, Room, NoRoom, RoomMade
      <3>3. ~(Register(c) \/ Started(c) \/ StartFails(c) \/ WriteRunning(c))
        BY DEF Register, Started, StartFails, WriteRunning
      <3>4. ~(Query(c) \/ Failed(c) \/ Named(c) \/ NamingFails(c) \/ CleanedUp(c))
        BY DEF Query, Failed, Named, NamingFails, CleanedUp
      <3> QED BY <1>1, <3>1, <3>2, <3>3, <3>4 DEF Request
    <2>2. o \in DOMAIN managed /\ Evicts(o)
      BY <1>0, <2>1, MakeRoomDoes DEF Evicts, MakeRoom, history
    <2> QED BY <2>2 DEF Evicts
  <1>2. ASSUME NEW x \in DOMAIN managed, Inside(x)
        PROVE  \E o \in DOMAIN managed : Sid(o) = s /\ Evicts(o)
    <2>1. Cleanup(x)
      BY <1>2 DEF Inside, MakeRow, RowFails, SwapKeys, Finalize, Finalized, Die, PersistError,
         Result, TimerEnded, Disconnected, Evicted, CleanupDead, CleanupNothing
    <2> QED BY <1>0, <2>1, EvictsEffect DEF Evicts
  <1>3. ASSUME NEW r \in Sids, Interrupt(r) \/ Patrol(r)
        PROVE  \E o \in DOMAIN managed : Sid(o) = s /\ Evicts(o)
    <2>1. Patrol(r)
      BY <1>3 DEF Interrupt
    <2> QED BY <1>0, <2>1, EvictsEffect DEF Evicts
  <1>4. ~UNCHANGED vars
    BY DEF vars
  <1> QED BY <1>1, <1>2, <1>3, <1>4 DEF Next

LEMMA MarkedNext ==
  ASSUME Alright, [Next]_vars
  PROVE  Marked'
  <1>0. Sound /\ Marked
    BY DEF Alright
  <1> SUFFICES ASSUME NEW s \in disconnecting'
               PROVE  \E o \in DOMAIN managed' : managed'[o].sid = s /\ UnderEviction(o)'
    BY DEF Marked, Sid
  <1>1. CASE s \in disconnecting
    <2>1. PICK o \in DOMAIN managed : Sid(o) = s /\ UnderEviction(o)
      BY <1>0, <1>1 DEF Marked
    <2>2. Evicted(o) => s \notin disconnecting'
      BY <2>1 DEF Evicted
    <2> QED BY <1>0, <2>1, <2>2, EvictionStep, SidStays DEF Sid
  <1>2. CASE s \notin disconnecting
    <2>1. PICK o \in DOMAIN managed : Sid(o) = s /\ Evicts(o)
      BY <1>0, <1>2, MarksStep
    <2>2. UnderEviction(o)'
      BY <2>1 DEF Evicts, Becomes, UnderEviction
    <2> QED BY <1>0, <2>1, <2>2, SidStays DEF Sid
  <1> QED BY <1>1, <1>2

LEMMA OneServesNext ==
  ASSUME Alright, [Next]_vars
  PROVE  OneServes'
  <1>0. Sound /\ OneServes /\ OneEvicted /\ Holder /\ Typed /\ Rows /\ collided \subseteq collided'
    BY CollidedStays DEF Alright, Sound
  <1> SUFFICES ASSUME NEW x \in DOMAIN managed', Serves(x)', managed'[x].sid \notin collided'
               PROVE  sessions'[managed'[x].sid] = x
    BY DEF OneServes, Sid
  <1>1. ASSUME NEW c \in Callers, caller[c] # Idle, Register(c), caller[c].op # "create",
               x = Len(managed) + 1, managed'[x].sid = caller[c].sid
        PROVE  sessions'[managed'[x].sid] = x
    BY <1>0, <1>1, RegisterDoes DEF Typed, Base
  <1>2. ASSUME x \in DOMAIN managed, SwapKeys(x)
        PROVE  sessions'[managed'[x].sid] = x
    <2>1. managed'[x].sid = Sid(x) /\ Sid(x) \in Sids
      BY <1>0, <1>2, SidStays, FieldsTyped DEF Sid, Typed
    <2> QED BY <1>0, <1>2, <2>1 DEF SwapKeys, Typed, Base
  <1>3. ASSUME x \in DOMAIN managed, Serves(x), ~SwapKeys(x)
        PROVE  sessions'[managed'[x].sid] = x
    <2> DEFINE s == Sid(x)
    <2>1. s \in Sids /\ managed'[x].sid = s /\ s \notin collided /\ s \notin collided'
      BY <1>0, <1>3, SidStays, FieldsTyped DEF Sid, Typed
    <2>2. sessions[s] = x /\ x # Nobody
      BY <1>0, <1>3, <2>1 DEF OneServes, Nobody, Typed, Objects
    <2> HIDE DEF s
    <2>3. ASSUME NEW c \in Callers, caller[c] # Idle, Register(c), caller[c].op # "create", caller[c].sid = s
          PROVE  FALSE
      <3>1. UnderEviction(x)
        BY <1>0, <1>3, <2>1, <2>3 DEF Holder, Holds, Register, Early, s
      <3> QED BY <1>0, <1>3, <2>1, <2>3, <3>1, RegisterDoes DEF s
    <2>4. ASSUME NEW o \in DOMAIN managed, SwapKeys(o), Sid(o) = s, o # x
          PROVE  FALSE
      BY <1>3, <2>1, <2>4 DEF SwapKeys, s
    <2>5. ASSUME sessions'[s] = Nobody
          PROVE  FALSE
      <3>1. ASSUME NEW c \in Callers, caller[c] # Idle, Discard(c), caller[c].sid = s
            PROVE  FALSE
        <4>1. caller[c].op # "create"
          BY <1>0, <3>1 DEF Sound, Ordered, Proper, Discard
        <4> QED BY <1>0, <1>3, <2>1, <3>1, <4>1 DEF Holder, Holds, Discard, s
      <3>2. ASSUME NEW c \in Callers, caller[c] # Idle, StartFails(c), caller[c].op # "create", caller[c].sid = s
            PROVE  FALSE
        <4>1. caller[c].object = x
          BY <1>0, <1>3, <2>1, <3>2 DEF Holder, Holds, StartFails, s
        <4>2. managed'[x].key = "dropped"
          BY <1>0, <3>2, <4>1, RetiresDoes DEF Becomes
        <4> QED BY <4>2 DEF Serves
      <3>3. ASSUME NEW y \in DOMAIN managed, Sid(y) = s, CleanupDead(y)
            PROVE  FALSE
        BY <1>3, <2>2, <3>3 DEF CleanupDead, Serves
      <3>4. ASSUME NEW y \in DOMAIN managed, Sid(y) = s, Evicted(y)
            PROVE  FALSE
        <4>1. y = x
          BY <1>0, <1>3, <2>1, <3>4 DEF OneEvicted, Evicted, UnderEviction, s
        <4>2. managed'[x].key = "dropped"
          BY <1>0, <3>4, <4>1, EvictedObject DEF Becomes, Typed
        <4> QED BY <4>2 DEF Serves
      <3> QED BY <1>0, <2>1, <2>2, <2>5, <3>1, <3>2, <3>3, <3>4, SessionsGo
    <2>6. sessions'[s] = sessions[s]
      BY <1>0, <1>3, <2>1, <2>3, <2>4, <2>5, SessionsStep
    <2> QED BY <2>1, <2>2, <2>6
  <1> QED BY <1>0, <1>1, <1>2, <1>3, ServesStep

LEMMA OneEvictedNext ==
  ASSUME Alright, [Next]_vars
  PROVE  OneEvicted'
  <1>0. Sound /\ OneServes /\ OneEvicted /\ Typed /\ Rows /\ collided \subseteq collided'
    BY CollidedStays DEF Alright, Sound
  <1> SUFFICES ASSUME NEW o \in DOMAIN managed', NEW x \in DOMAIN managed', UnderEviction(o)', Serves(x)',
                      managed'[x].sid = managed'[o].sid, managed'[o].sid \notin collided'
               PROVE  x = o
    BY DEF OneEvicted, Sid
  <1>1. CASE o \notin DOMAIN managed
    <2>1. PICK c \in Callers : caller[c] # Idle /\ Register(c) /\ o = Len(managed) + 1
      BY <1>0, <1>1, Newcomer
    <2>2. managed'[o].evict = "no"
      BY <1>0, <2>1, RegisterDoes DEF Adds
    <2> QED BY <2>2 DEF UnderEviction
  <1>2. CASE o \in DOMAIN managed
    <2>1. managed'[o].sid = Sid(o) /\ Sid(o) \notin collided
      BY <1>0, <1>2, SidStays DEF Sid
    <2>2. CASE x \in DOMAIN managed /\ Serves(x)
      <3>1. Sid(x) = Sid(o)
        BY <1>0, <2>1, <2>2, SidStays DEF Sid
      <3>2. CASE UnderEviction(o)
        BY <1>0, <1>2, <2>1, <2>2, <3>1, <3>2 DEF OneEvicted
      <3>3. CASE Evicts(o)
        BY <1>0, <1>2, <2>1, <2>2, <3>1, <3>3 DEF OneServes, Evicts
      <3> QED BY <1>0, <1>2, <3>2, <3>3, EvictionStep
    <2>3. ASSUME NEW c \in Callers, caller[c] # Idle, Register(c), caller[c].op # "create",
                 managed'[x].sid = caller[c].sid
          PROVE  FALSE
      <3>1. UnderEviction(o)
        <4>1. Same(o)
          BY <1>0, <1>2, <2>3, RegisterDoes DEF Adds
        <4> QED BY <4>1 DEF Same, UnderEviction
      <3> QED BY <1>0, <1>2, <2>1, <2>3, <3>1, RegisterDoes
    <2>4. ASSUME x \in DOMAIN managed, SwapKeys(x), x # o
          PROVE  FALSE
      <3>1. Sid(x) = Sid(o)
        BY <1>0, <2>1, <2>4, SidStays DEF Sid
      <3> QED BY <1>2, <2>1, <2>4, <3>1 DEF SwapKeys
    <2> QED BY <1>0, <2>2, <2>3, <2>4, ServesStep
  <1> QED BY <1>1, <1>2

\* The steps by which a request comes to hold the lock of its session.
LEMMA LocksStep ==
  ASSUME Sound, [Next]_vars, NEW c \in Callers, caller'[c] # Idle, caller'[c].pc \in Locked
  PROVE  \/ caller[c] # Idle /\ caller[c].pc \in Locked /\ caller'[c].sid = caller[c].sid
         \/ /\ caller[c] # Idle /\ Acquire(c) /\ caller'[c].sid = caller[c].sid
            /\ collided' = IF Bypassed(caller[c].sid, caller[c].lock) THEN collided \cup {caller[c].sid} ELSE collided
         \/ \E s \in Sids : Create(c, s) /\ caller'[c].sid = s
  <1>0. Typed /\ Rows
    BY DEF Sound
  <1>1. CASE caller'[c] = caller[c]
    BY <1>1
  <1>2. ASSUME NEW s \in Sids, BeginsAt(c, s)
        PROVE  Create(c, s) /\ caller'[c].sid = s
    BY <1>2 DEF BeginsAt, Begins, Locked
  <1>3. ASSUME caller[c] # Idle, GoesOn(c)
        PROVE  \/ caller[c].pc \in Locked /\ caller'[c].sid = caller[c].sid
               \/ Acquire(c) /\ caller'[c].sid = caller[c].sid
    <2>1. caller'[c].sid = caller[c].sid
      BY <1>3 DEF GoesOn, Moves
    <2>2. Discard(c) => caller[c].pc \in Locked
      BY DEF Discard, Locked
    <2>3. Register(c) => caller[c].pc \in Locked
      BY DEF Register, Locked
    <2>4. caller[c].pc \in {"capacity", "evicting"} => caller[c].pc \in Locked
      BY DEF Locked
    <2>5. ~Discard(c) /\ ~Register(c) /\ ~Acquire(c) /\ caller[c].pc \notin {"capacity", "evicting"} => FALSE
      BY <1>3 DEF GoesOn, Moves, Locked
    <2> QED BY <2>1, <2>2, <2>3, <2>4, <2>5
  <1>4. ASSUME caller[c] # Idle, Acquire(c), caller[c].pc \notin Locked
        PROVE  collided' = IF Bypassed(caller[c].sid, caller[c].lock) THEN collided \cup {caller[c].sid} ELSE collided
    <2>1. ASSUME UNCHANGED collided, Arrives(c, sessions[caller[c].sid], managed[sessions[caller[c].sid]].status)
          PROVE  FALSE
      BY <2>1 DEF Arrives, Leaves, Moves, Locked
    <2> QED BY <1>0, <1>4, <2>1, CallTyped, AcquireEffect
  <1>5. ASSUME NEW d \in Callers, c # d, GoesOn(d) \/ Leaves(d) \/ \E r \in Sids : BeginsAt(d, r)
        PROVE  caller'[c] = caller[c]
    BY <1>5 DEF GoesOn, Moves, Leaves, BeginsAt, Begins, Others
  <1>6. Leaves(c) => caller'[c] = Idle
    BY DEF Leaves
  <1> QED BY <1>0, <1>1, <1>2, <1>3, <1>4, <1>5, <1>6, CallsStep

LEMMA OneConnectsNext ==
  ASSUME Alright, [Next]_vars
  PROVE  OneConnects'
  <1>0. Sound /\ OneConnects /\ Typed /\ Rows /\ collided \subseteq collided'
    BY CollidedStays DEF Alright, Sound
  \* A second one that comes to hold a lock of the session collides.
  <1>1. ASSUME NEW c \in Callers, NEW d \in Callers, c # d, caller'[c] # Idle, caller'[c].pc \in Locked,
               caller'[d] # Idle, caller'[d].pc \in Locked,
               caller'[c].sid = caller'[d].sid, caller'[c].sid \notin collided',
               ~(caller[c] # Idle /\ caller[c].pc \in Locked /\ caller'[c].sid = caller[c].sid)
        PROVE  FALSE
    <2>1. caller'[d] = caller[d]
      <3>1. caller'[c] # caller[c]
        BY <1>1
      <3>2. ASSUME NEW e \in Callers, e # c, GoesOn(e) \/ Leaves(e) \/ \E r \in Sids : BeginsAt(e, r)
            PROVE  FALSE
        BY <3>1, <3>2 DEF GoesOn, Moves, Leaves, BeginsAt, Begins, Others
      <3>3. ASSUME GoesOn(c) \/ Leaves(c) \/ \E r \in Sids : BeginsAt(c, r)
            PROVE  caller'[d] = caller[d]
        BY <1>1, <3>3 DEF GoesOn, Moves, Leaves, BeginsAt, Begins, Others
      <3> QED BY <1>0, <3>1, <3>2, <3>3, CallsStep
    <2>2. ASSUME caller[c] # Idle, Acquire(c), caller'[c].sid = caller[c].sid,
                 collided' = IF Bypassed(caller[c].sid, caller[c].lock) THEN collided \cup {caller[c].sid} ELSE collided
          PROVE  FALSE
      BY <1>1, <2>1, <2>2 DEF Bypassed, Acquire, Free
    <2>3. ASSUME NEW s \in Sids, Create(c, s), caller'[c].sid = s
          PROVE  FALSE
      BY <1>1, <2>1, <2>3 DEF Create
    <2> QED BY <1>0, <1>1, <2>2, <2>3, LocksStep
  <1> SUFFICES ASSUME NEW c \in Callers, NEW d \in Callers, caller'[c] # Idle, caller'[c].pc \in Locked,
                      caller'[d] # Idle, caller'[d].pc \in Locked,
                      caller'[c].sid = caller'[d].sid, caller'[c].sid \notin collided', c # d
               PROVE  FALSE
    BY DEF OneConnects
  <1>2. caller[c] # Idle /\ caller[c].pc \in Locked /\ caller'[c].sid = caller[c].sid
    BY <1>1
  <1>3. caller[d] # Idle /\ caller[d].pc \in Locked /\ caller'[d].sid = caller[d].sid
    BY <1>1
  <1> QED BY <1>0, <1>2, <1>3 DEF OneConnects

LEMMA HolderNext ==
  ASSUME Alright, [Next]_vars
  PROVE  Holder'
  <1>0. Sound /\ Marked /\ OneServes /\ OneEvicted /\ OneConnects /\ Holder /\ Typed /\ Rows /\ collided \subseteq collided'
    BY CollidedStays DEF Alright, Sound
  <1> SUFFICES ASSUME NEW c \in Callers, NEW x \in DOMAIN managed', caller'[c] # Idle, caller'[c].op # "create",
                      caller'[c].sid \notin collided', Serves(x)', managed'[x].sid = caller'[c].sid
               PROVE  Holds(c, x)'
    BY DEF Holder, Sid
  <1> DEFINE s == caller'[c].sid
  \* What served before has been seen, ...
  <1>1. ASSUME x \in DOMAIN managed, Serves(x), caller[c] # Idle, caller[c].sid = s, caller[c].op # "create"
        PROVE  /\ Holds(c, x) /\ Sid(x) = s /\ sessions[s] = x
               /\ UnderEviction(x) => UnderEviction(x)'
    <2>1. Sid(x) = s /\ s \notin collided
      BY <1>0, <1>1, SidStays DEF Sid
    <2>2. Holds(c, x) /\ sessions[s] = x
      BY <1>0, <1>1, <2>1 DEF Holder, OneServes
    <2>3. ASSUME Evicted(x)
          PROVE  FALSE
      <3>1. managed'[x].key = "dropped"
        BY <1>0, <1>1, <2>3, EvictedObject DEF Becomes, Typed
      <3> QED BY <3>1 DEF Serves
    <2> QED BY <1>0, <1>1, <2>1, <2>2, <2>3, EvictionStep
  \* ... and nothing comes to serve while another request connects the session.
  <1>2. ASSUME caller[c] # Idle, caller[c].sid = s, caller[c].pc \in Locked, ~Register(c)
        PROVE  x \in DOMAIN managed /\ Serves(x)
    <2>1. ASSUME NEW d \in Callers, caller[d] # Idle, Register(d), caller[d].op # "create",
                 managed'[x].sid = caller[d].sid
          PROVE  FALSE
      <3>1. c # d /\ caller[d].pc \in Locked /\ caller[d].sid = s
        BY <1>2, <2>1 DEF Register, Locked
      <3> QED BY <1>0, <1>2, <2>1, <3>1 DEF OneConnects
    <2>2. ASSUME x \in DOMAIN managed, SwapKeys(x)
          PROVE  FALSE
      <3>1. Sid(x) = s
        BY <1>0, <2>2, SidStays DEF Sid
      <3> QED BY <1>2, <2>2, <3>1 DEF SwapKeys, Connecting
    <2> QED BY <1>0, <2>1, <2>2, ServesStep
  <1>3. ASSUME caller'[c] = caller[c]
        PROVE  Holds(c, x)'
    <2>1. CASE caller[c].pc \in Locked
      <3>1. ~Register(c)
        BY <1>0, <1>3, RegisterDoes DEF Moves, Register
      <3>2. x \in DOMAIN managed /\ Serves(x)
        BY <1>2, <1>3, <2>1, <3>1
      <3> QED BY <1>1, <1>3, <3>2 DEF Holds, UnderEviction
    <2>2. CASE caller[c].pc \notin Locked
      BY <1>3, <2>2 DEF Holds, Locked, Early
    <2> QED BY <2>1, <2>2
  <1>4. ASSUME caller'[c].pc \notin Locked
        PROVE  Holds(c, x)'
    BY <1>4 DEF Holds, Locked, Early
  <1>5. ASSUME caller[c] # Idle, GoesOn(c), caller'[c].pc \in Locked
        PROVE  Holds(c, x)'
    <2>1. caller[c].sid = s /\ caller[c].op = caller'[c].op
      BY <1>5 DEF GoesOn, Moves
    <2>2. CASE Register(c)
      <3>1. /\ Moves(c, "starting", Len(managed) + 1, caller[c].seen)
            /\ Adds(Len(managed) + 1, caller[c].sid, caller[c].seen, "sid")
        BY <1>0, <1>5, <2>1, <2>2, RegisterDoes
      <3>2. CASE x \in DOMAIN managed
        <4>1. Serves(x)
          BY <3>1, <3>2 DEF Adds, Same, Serves, Over
        <4>2. UnderEviction(x) /\ Sid(x) = s
          BY <1>1, <1>5, <2>1, <2>2, <3>2, <4>1 DEF Holds, Register, Early
        <4> QED BY <1>0, <1>5, <2>1, <2>2, <3>2, <4>2, RegisterDoes
      <3>3. CASE x \notin DOMAIN managed
        BY <3>1, <3>3 DEF Adds, Moves, Holds, Early
      <3> QED BY <3>2, <3>3
    <2>3. ASSUME Acquire(c)
          PROVE  Holds(c, x)'
      <3>1. TouchesNone
        BY <1>0, <1>5, <2>3, OthersTouchNone
      <3>2. x \in DOMAIN managed /\ Serves(x) /\ Same(x)
        BY <3>1 DEF TouchesNone, Same, Serves, Over
      <3>3. Sid(x) = s /\ sessions[s] = x /\ ~Over(x) /\ s \notin collided
        BY <1>0, <1>1, <1>5, <2>1, <3>2 DEF Serves
      <3>4. s \in disconnecting /\ caller'[c].pc = "capacity"
        <4>1. x # Nobody
          BY <1>0, <3>2 DEF Nobody, Typed, Objects
        <4>2. caller[c].pc = "lock"
          BY <2>3 DEF Acquire
        <4> QED BY <1>5, <2>1, <3>3, <4>1, <4>2 DEF GoesOn, Moves, Locked, Discard, Register, Started
      <3>5. UnderEviction(x)
        <4>1. PICK o \in DOMAIN managed : Sid(o) = s /\ UnderEviction(o)
          BY <1>0, <3>4 DEF Marked
        <4> QED BY <1>0, <3>2, <3>3, <4>1 DEF OneEvicted
      <3> QED BY <3>2, <3>4, <3>5 DEF Holds, Same, UnderEviction
    <2>4. ASSUME ~Register(c), ~Acquire(c)
          PROVE  Holds(c, x)'
      <3>1. /\ caller[c].pc \in {"discard", "capacity", "evicting"}
            /\ caller'[c].pc \in Early
        BY <1>5, <2>4 DEF GoesOn, Moves, Locked, Discard, Early
      <3>2. x \in DOMAIN managed /\ Serves(x)
        BY <1>2, <1>5, <2>1, <2>4, <3>1 DEF Locked
      <3>3. Holds(c, x) /\ (UnderEviction(x) => UnderEviction(x)')
        BY <1>1, <1>5, <2>1, <3>2
      <3> QED BY <3>1, <3>3 DEF Holds, Early
    <2> QED BY <2>2, <2>3, <2>4
  <1>6. ASSUME NEW r \in Sids, BeginsAt(c, r)
        PROVE  Holds(c, x)'
    BY <1>4, <1>6 DEF BeginsAt, Begins, Locked
  <1>7. ASSUME NEW d \in Callers, c # d, GoesOn(d) \/ Leaves(d) \/ \E r \in Sids : BeginsAt(d, r)
        PROVE  caller'[c] = caller[c]
    BY <1>7 DEF GoesOn, Moves, Leaves, BeginsAt, Begins, Others
  <1>8. ~Leaves(c)
    BY DEF Leaves
  <1> QED BY <1>0, <1>3, <1>4, <1>5, <1>6, <1>7, <1>8, CallsStep

LEMMA AlrightAlways ==
  Spec => []Alright
  <1>1. Init => Alright
    BY SoundInit DEF Init, Alright, Marked, OneServes, OneEvicted, OneConnects, Holder
  <1>2. Alright /\ [Next]_vars => Alright'
    <2> SUFFICES ASSUME Alright, [Next]_vars
                 PROVE  Alright'
      OBVIOUS
    <2>1. Sound'
      BY SoundNext DEF Alright
    <2> QED BY <2>1, MarkedNext, OneServesNext, OneEvictedNext, OneConnectsNext, HolderNext DEF Alright
  <1> QED BY <1>1, <1>2, PTL DEF Spec

\* Nothing runs outside the registry but what a request is disconnecting, of a
\* session that no two objects were made or evicted for at once: get_or_connect
\* connects under the lock of the session and only when what the registry has is
\* gone or is being evicted, what drops a session by its id drops the object that
\* served it, and _cleanup_on_error stays with the actor it has dropped.
THEOREM ManagerLeaksNone == Spec => []NoneLeaked
  <1>1. ASSUME Alright
        PROVE  NoneLeaked
    <2> SUFFICES ASSUME NEW o \in DOMAIN managed, Live(o), Sid(o) \notin collided,
                        managed[o].key \notin Temporary
                 PROVE  sessions[Sid(o)] = o \/ Disconnecting(o)
      BY DEF NoneLeaked
    <2>1. Shape(o) /\ managed[o].key \in Temporary \cup Popped \cup {"sid", "dropped"}
      BY <1>1, FieldsTyped DEF Alright, Sound, Shaped, Typed
    <2>2. CASE managed[o].key \in Popped
      BY <1>1, <2>2 DEF Alright, Sound, Attended, Disconnecting
    <2>3. CASE managed[o].key \notin Popped
      <3>1. Serves(o)
        BY <2>1, <2>3 DEF Serves, Shape, Live, Over
      <3> QED BY <1>1, <3>1 DEF Alright, OneServes
    <2> QED BY <2>2, <2>3
  <1> QED BY <1>1, AlrightAlways, PTL
=============================================================================
