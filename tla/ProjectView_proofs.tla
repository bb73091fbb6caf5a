-------------------------- MODULE ProjectView_proofs --------------------------
(***************************************************************************)
(* Proofs about ProjectView, for any clients, pages, channels, writes,     *)
(* batches, failures and size of the queues.                               *)
(***************************************************************************)
EXTENDS ProjectView, TLAPS

(***************************************************************************)
(* Type correctness.  Nothing anybody has read or been told is newer than  *)
(* the files.                                                              *)
(***************************************************************************)

Known == NoContents .. files
Newest == 0 .. files

ServiceTyped ==
  /\ files \in Contents
  /\ made \in 0 .. MaxChannels /\ current \in 0 .. made
  /\ subs \in [Channel -> SUBSET Client]
  /\ snap \in [Channel -> Known]
  /\ ready \in [Channel -> BOOLEAN]
  /\ watch \in [Channel -> {"none", "reading", "waiting", "cut", "over"}]
  /\ read \in [Channel -> Newest \cup {NotRead}]
  /\ rebuilds \subseteq [batch : 1 .. MaxBatches, on : Channel, saw : Newest]
  /\ batches \in 0 .. MaxBatches
  /\ crossed \in BOOLEAN

ClientsTyped ==
  /\ at \in [Client -> {"out", "joining", "freed", "in", "leaving", "popping"}]
  /\ on \in [Client -> 0 .. made]
  /\ greeting \in [Client -> Known \cup {NotRead}]
  /\ told \in [Client -> Known]

QueuesTyped ==
  /\ queue \in [Client -> Seq(Contents)]
  /\ \A c \in Client : Len(queue[c]) <= QueueSize
  /\ \A c \in Client : \A i \in 1 .. Len(queue[c]) : queue[c][i] <= files

Loads == {None, Asked} \cup [st : {"read"}, got : Newest]

PagesTyped ==
  /\ shown \in [Page -> Known]
  /\ first \in [Page -> Loads] /\ load \in [Page -> Loads]
  /\ again \in [Page -> BOOLEAN] /\ early \in [Page -> BOOLEAN] /\ missed \in [Page -> BOOLEAN]

Subscribing == {"joining", "freed", "in"}

\* A client that follows or waits is subscribed, if at all, to the channel it knows.
OnItsChannel ==
  /\ \A c \in Client : at[c] # "out" => on[c] # 0
  /\ \A k \in Channel : \A c \in subs[k] : at[c] \in Subscribing => on[c] = k

\* The last message of such a client, once there is one, is the snapshot.
LastOf(c) ==
  at[c] \in Subscribing /\ c \in subs[on[c]] =>
    IF queue[c] # <<>> THEN queue[c][Len(queue[c])] = snap[on[c]]
    ELSE at[c] = "in" => IF greeting[c] # NotRead THEN greeting[c] \in {NoContents, snap[on[c]]}
                                                  ELSE told[c] \in {NoContents, snap[on[c]]}

LastIsSnapshot == \A c \in Client : LastOf(c)

\* Channels are made in order, and then have a task; the cancelled task of the
\* registered channel has somebody waiting for it; a leaver's channel is empty.
Fresh == \A k \in Channel : IF k > made THEN subs[k] = {} /\ watch[k] = "none" ELSE watch[k] # "none"
Awaited == ~crossed => \A k \in Channel : k = current /\ watch[k] = "cut" => Leavers(k) # {}
LeftEmpty == ~crossed => \A c \in Client : at[c] \in {"leaving", "popping"} => subs[on[c]] = {}
CutByLeavers == \A c \in Client : at[c] = "leaving" => watch[on[c]] = "cut"

Tended == Fresh /\ Awaited /\ LeftEmpty /\ CutByLeavers

\* What a page was told is loaded, or will be.
Loaded(p) ==
  told[p] # NoContents /\ ~early[p] /\ ~missed[p] =>
    \/ again[p] \/ Asked \in {first[p], load[p]}
    \/ \E got \in {first[p].got, load[p].got, shown[p]} : got >= told[p]

PagesLoad == \A p \in Page : Loaded(p) /\ (again[p] => load[p] # None)

Typed == ServiceTyped /\ ClientsTyped /\ QueuesTyped /\ PagesTyped

\* A subscriber's queue gets longer by the message, nobody else's changes.
LEMMA BroadcastTyped ==
  ASSUME QueuesTyped, subs \in [Channel -> SUBSET Client],
         NEW k \in Channel, NEW fingerprint \in Contents, fingerprint <= files,
         Broadcast(k, fingerprint)
  PROVE  /\ queue' \in [Client -> Seq(Contents)]
         /\ subs' = [subs EXCEPT ![k] = @ \ Full(k)]
         /\ \A c \in Client : IF c \in subs[k] \ Full(k) THEN queue'[c] = Append(queue[c], fingerprint)
                                                         ELSE queue'[c] = queue[c]
         /\ \A c \in Client : Len(queue'[c]) <= QueueSize
         /\ \A c \in Client : \A i \in 1 .. Len(queue'[c]) : queue'[c][i] <= files
  <1> USE DEF QueuesTyped
  <1>1. queue' = [c \in Client |-> IF c \in subs[k] \ Full(k) THEN Append(queue[c], fingerprint)
                                                               ELSE queue[c]]
    BY DEF Broadcast
  <1>2. \A c \in subs[k] \ Full(k) : Len(queue[c]) < QueueSize
    BY EventBounds DEF Full
  <1>3. ASSUME NEW c \in Client
        PROVE  /\ queue'[c] \in Seq(Contents) /\ Len(queue'[c]) <= QueueSize
               /\ \A i \in 1 .. Len(queue'[c]) : queue'[c][i] <= files
    <2>1. CASE c \in subs[k] \ Full(k)
      <3>1. queue'[c] = Append(queue[c], fingerprint)
        BY <1>1, <2>1
      <3>2. Len(queue[c]) < QueueSize /\ queue[c] \in Seq(Contents)
        BY <1>2, <2>1
      <3> QED BY <3>1, <3>2, EventBounds
    <2>2. CASE c \notin subs[k] \ Full(k)
      BY <1>1, <2>2
    <2> QED BY <2>1, <2>2
  <1> QED BY <1>1, <1>3 DEF Broadcast

\* The channel a subscriber gets is the registered one, or a new one.
Joined == IF current = 0 THEN made + 1 ELSE current

Joins(c) ==
  /\ Joined \in Channel /\ current' = Joined
  /\ made' \in 0 .. MaxChannels /\ made <= made' /\ Joined <= made'
  /\ \/ Joined = current /\ current # 0 /\ made' = made
     \/ Joined = made + 1 /\ made' = made + 1 /\ current = 0
  /\ subs' = [subs EXCEPT ![Joined] = @ \cup {c}]
  /\ watch' = [watch EXCEPT ![Joined] = IF @ \in {"none", "over"} THEN "reading" ELSE @]
  /\ ready' = [ready EXCEPT ![Joined] = @ /\ watch[Joined] \notin {"none", "over"}]
  /\ on' = [on EXCEPT ![c] = Joined]
  /\ queue' = [queue EXCEPT ![c] = <<>>]
  /\ \/ at' = [at EXCEPT ![c] = "in"] /\ greeting' = [greeting EXCEPT ![c] = snap[Joined]]
     \/ at' = [at EXCEPT ![c] = "joining"] /\ UNCHANGED greeting
  /\ crossed' \in BOOLEAN /\ (~crossed' => ~crossed /\ Leavers(Joined) = {})
  /\ UNCHANGED <<files, snap, read, rebuilds, told, batches, failures>>

LEMMA SubscribeJoins ==
  ASSUME ServiceTyped, NEW c \in Client, Subscribe(c)
  PROVE  Joins(c)
  <1> USE DEF Joins
  <1>1. Joined \in Channel
    BY EventBounds DEF Joined, Subscribe, ServiceTyped, Channel
  <1>2. current' = Joined /\ made' = IF current = 0 THEN made + 1 ELSE made
    BY DEF Subscribe, Joined
  <1>3. made' \in 0 .. MaxChannels /\ made <= made' /\ Joined <= made'
    BY <1>1, <1>2, EventBounds DEF ServiceTyped, Joined, Channel
  <1>8. \/ Joined = current /\ current # 0 /\ made' = made
        \/ Joined = made + 1 /\ made' = made + 1 /\ current = 0
    BY <1>2 DEF Joined
  <1>4. watch' = [watch EXCEPT ![Joined] = IF @ \in {"none", "over"} THEN "reading" ELSE @]
    BY <1>1 DEF Subscribe, Joined, ServiceTyped
  <1>5. ready' = [ready EXCEPT ![Joined] = @ /\ watch[Joined] \notin {"none", "over"}]
    BY <1>1 DEF Subscribe, Joined, ServiceTyped
  <1>6. \/ at' = [at EXCEPT ![c] = "in"] /\ greeting' = [greeting EXCEPT ![c] = snap[Joined]]
        \/ at' = [at EXCEPT ![c] = "joining"] /\ UNCHANGED greeting
    BY DEF Subscribe, Joined
  <1>7. /\ subs' = [subs EXCEPT ![Joined] = @ \cup {c}]
        /\ on' = [on EXCEPT ![c] = Joined]
        /\ queue' = [queue EXCEPT ![c] = <<>>]
        /\ UNCHANGED <<files, snap, read, rebuilds, told, batches, failures>>
    BY DEF Subscribe, Joined
  <1>9. crossed' \in BOOLEAN /\ (~crossed' => ~crossed /\ Leavers(Joined) = {})
    <2>1. crossed' = (crossed \/ Leavers(Joined) # {})
      BY DEF Subscribe, Joined
    <2> QED BY <2>1
  <1> QED BY <1>1, <1>2, <1>3, <1>4, <1>5, <1>6, <1>7, <1>8, <1>9

LEMMA ServiceStep ==
  ASSUME ServiceTyped, ClientsTyped, QueuesTyped, [Next]_vars
  PROVE  ServiceTyped'
  <1> USE DEF ServiceTyped, Known, Newest, Contents, NoContents, NotRead, Channel, service, clients, events, vars
  <1>1. ASSUME Write PROVE ServiceTyped'
    <2>1. files' \in Contents /\ files < files' /\ files \in Nat
      BY <1>1, EventBounds DEF Write
    <2>2. Known \subseteq Known' /\ Newest \subseteq Newest'
      BY <2>1
    <2>3. UNCHANGED <<service, made, batches, crossed>>
      BY <1>1 DEF Write
    <2> HIDE DEF Known, Newest
    <2> QED BY <2>1, <2>2, <2>3
  <1>2. ASSUME ApplyBatch PROVE ServiceTyped'
    <2>1. batches' \in 1 .. MaxBatches
      BY <1>2, EventBounds DEF ApplyBatch
    <2>2. current \in Channel
      BY <1>2, EventBounds DEF ApplyBatch
    <2>3. [batch |-> batches', on |-> current, saw |-> files] \in [batch : 1 .. MaxBatches, on : Channel, saw : Newest]
      BY <2>1, <2>2, EventBounds
    <2> QED BY <1>2, <2>1, <2>3, EventBounds DEF ApplyBatch
  <1>3. ASSUME NEW k \in Channel, ReadFiles(k) PROVE ServiceTyped'
    BY <1>3 DEF ReadFiles
  <1>4. ASSUME NEW k \in Channel, ApplyScan(k) PROVE ServiceTyped'
    <2>0. read[k] \in Newest
      BY <1>4 DEF ApplyScan
    <2>1. read[k] \in Newest /\ read[k] \in Contents /\ read[k] <= files
      BY <2>0, EventBounds
    <2>2. subs' \in [Channel -> SUBSET Client]
      BY <1>4 DEF ApplyScan, Broadcast
    <2>3. /\ snap' = [snap EXCEPT ![k] = read[k]] /\ read' = [read EXCEPT ![k] = NotRead]
          /\ watch' = [watch EXCEPT ![k] = "waiting"] /\ ready' = [ready EXCEPT ![k] = TRUE]
          /\ UNCHANGED <<files, current, made, rebuilds, batches, crossed>>
      BY <1>4 DEF ApplyScan, ScanDone, Release
    <2>4. read[k] \in Known
      BY <2>1, EventBounds
    <2>5. UNCHANGED <<Known, Newest>>
      BY <2>3
    <2> HIDE DEF Known, Newest
    <2> QED BY <2>1, <2>2, <2>3, <2>4, <2>5
  <1>5. ASSUME NEW k \in Channel, ScanFails(k) PROVE ServiceTyped'
    BY <1>5 DEF ScanFails, ScanDone, Release
  <1>6. ASSUME NEW k \in Channel, WakeUp(k) PROVE ServiceTyped'
    <2>1. files \in Newest
      BY EventBounds
    <2> QED BY <1>6, <2>1 DEF WakeUp
  <1>7. ASSUME NEW k \in Channel, WatchEnds(k) PROVE ServiceTyped'
    BY <1>7 DEF WatchEnds
  <1>8. ASSUME NEW b \in rebuilds, RebuildDone(b) PROVE ServiceTyped'
    <2>1. b.saw \in Newest /\ b.on \in Channel
      OBVIOUS
    <2>2. subs' \in [Channel -> SUBSET Client]
      BY <1>8, <2>1 DEF RebuildDone, Broadcast
    <2> QED BY <1>8, <2>1, <2>2 DEF RebuildDone
  <1>9. ASSUME NEW b \in rebuilds, RebuildFails(b) PROVE ServiceTyped'
    BY <1>9 DEF RebuildFails
  <1>10. ASSUME NEW c \in Client, Subscribe(c) PROVE ServiceTyped'
    <2>0. Joins(c)
      BY <1>10, SubscribeJoins
    <2> HIDE DEF service, Known, Newest
    <2>1. UNCHANGED <<Known, Newest>>
      BY <2>0 DEF Joins, Known, Newest
    <2>2. Joined \in Channel /\ made' \in 0 .. MaxChannels /\ current' \in 0 .. made'
      BY <2>0 DEF Joins
    <2>3. subs' \in [Channel -> SUBSET Client]
      BY <2>0, <2>2 DEF Joins
    <2>4. watch' \in [Channel -> {"none", "reading", "waiting", "cut", "over"}]
      BY <2>0, <2>2 DEF Joins
    <2>5. ready' \in [Channel -> BOOLEAN]
      BY <2>0, <2>2 DEF Joins
    <2>6. crossed' \in BOOLEAN
      BY <2>0, <2>2 DEF Joins
    <2> QED BY <2>0, <2>1, <2>2, <2>3, <2>4, <2>5, <2>6 DEF Joins
  <1>11. ASSUME NEW c \in Client, Subscribed(c) PROVE ServiceTyped'
    BY <1>11 DEF Subscribed
  <1>12. ASSUME NEW c \in Client, GiveUp(c) PROVE ServiceTyped'
    <2>1. subs' = [subs EXCEPT ![on[c]] = @ \ {c}] /\ UNCHANGED <<files, snap, ready, read, rebuilds, made, batches>>
      BY <1>12 DEF GiveUp
    <2>2. watch' \in {watch, Cancelled(on[c])} /\ current' \in {0, current}
      BY <1>12 DEF GiveUp, Pop
    <2>8. subs' \in [Channel -> SUBSET Client]
      BY <2>1
    <2>3. Cancelled(on[c]) \in [Channel -> {"none", "reading", "waiting", "cut", "over"}]
      BY DEF Cancelled
    <2>4. crossed' \in BOOLEAN
      BY <1>12 DEF GiveUp, Pop
    <2>5. UNCHANGED <<Known, Newest>>
      BY <2>1
    <2>6. watch' \in [Channel -> {"none", "reading", "waiting", "cut", "over"}]
      BY <2>2, <2>3
    <2>7. current' \in 0 .. made'
      BY <2>1, <2>2, EventBounds
    <2> HIDE DEF Known, Newest
    <2> QED BY <2>8, <2>1, <2>4, <2>5, <2>6, <2>7
  <1>13. ASSUME NEW c \in Client, Disconnect(c) PROVE ServiceTyped'
    BY <1>13 DEF Disconnect, Cancelled
  <1>14. ASSUME NEW c \in Client, Left(c) PROVE ServiceTyped'
    BY <1>14 DEF Left, Pop
  <1>15. ASSUME NEW c \in Client, OnSnapshot(c) PROVE ServiceTyped'
    BY <1>15 DEF OnSnapshot, Snapshot
  <1>16. ASSUME NEW c \in Client, OnChanges(c) PROVE ServiceTyped'
    BY <1>16 DEF OnChanges, Take
  <1>17. ASSUME NEW p \in Page, ServerReads(p) PROVE ServiceTyped'
    BY <1>17 DEF ServerReads
  <1>18. ASSUME NEW p \in Page, FirstShown(p) PROVE ServiceTyped'
    BY <1>18 DEF FirstShown
  <1>19. ASSUME NEW p \in Page, LoadShown(p) PROVE ServiceTyped'
    BY <1>19 DEF LoadShown, LoadEnds
  <1>20. CASE UNCHANGED vars
    BY <1>20 DEF vars
  <1>21. ASSUME NEW p \in Page, FirstFails(p) PROVE ServiceTyped'
    BY <1>21 DEF FirstFails, Failure, service, clients
  <1>22. ASSUME NEW p \in Page, LoadFails(p) PROVE ServiceTyped'
    BY <1>22 DEF LoadFails, LoadEnds, Failure, service, clients
  <1> QED BY <1>1, <1>2, <1>3, <1>4, <1>5, <1>6, <1>7, <1>8, <1>9, <1>10, <1>11, <1>12, <1>13, <1>14, <1>15, <1>16, <1>17, <1>18, <1>19, <1>20, <1>21, <1>22 DEF Next, Service

LEMMA ClientsStep ==
  ASSUME ServiceTyped, ClientsTyped, QueuesTyped, OnItsChannel, [Next]_vars
  PROVE  ClientsTyped'
  <1> USE DEF ServiceTyped, ClientsTyped, Known, Newest, Contents, NoContents, NotRead, Channel, service, clients, events, vars
  <1>1. ASSUME Write PROVE ClientsTyped'
    <2>1. files \in Nat /\ files' \in Nat /\ files < files'
      BY <1>1, EventBounds DEF Write
    <2>2. Known \subseteq Known'
      BY <2>1
    <2>3. UNCHANGED <<clients, made>>
      BY <1>1 DEF Write
    <2> HIDE DEF Known
    <2> QED BY <2>2, <2>3
  <1>2. ASSUME ApplyBatch PROVE ClientsTyped'
    BY <1>2 DEF ApplyBatch
  <1>3. ASSUME NEW k \in Channel, ReadFiles(k) PROVE ClientsTyped'
    BY <1>3 DEF ReadFiles
  <1>4. ASSUME NEW k \in Channel, ApplyScan(k) PROVE ClientsTyped'
    BY <1>4 DEF ApplyScan, Broadcast, ScanDone, Release
  <1>5. ASSUME NEW k \in Channel, ScanFails(k) PROVE ClientsTyped'
    BY <1>5 DEF ScanFails, ScanDone, Release
  <1>6. ASSUME NEW k \in Channel, WakeUp(k) PROVE ClientsTyped'
    BY <1>6 DEF WakeUp
  <1>7. ASSUME NEW k \in Channel, WatchEnds(k) PROVE ClientsTyped'
    BY <1>7 DEF WatchEnds
  <1>8. ASSUME NEW b \in rebuilds, RebuildDone(b) PROVE ClientsTyped'
    BY <1>8 DEF RebuildDone, Broadcast
  <1>9. ASSUME NEW b \in rebuilds, RebuildFails(b) PROVE ClientsTyped'
    BY <1>9 DEF RebuildFails
  <1>10. ASSUME NEW c \in Client, Subscribe(c) PROVE ClientsTyped'
    <2>0. Joins(c)
      BY <1>10, SubscribeJoins
    <2> HIDE DEF service, Known, Newest
    <2>1. 0 .. made \subseteq 0 .. made' /\ Joined \in 0 .. made' /\ snap[Joined] \in Known
      BY <2>0 DEF Joins, Channel
    <2>2. UNCHANGED Known
      BY <2>0 DEF Joins, Known
    <2> QED BY <2>0, <2>1, <2>2 DEF Joins
  <1>11. ASSUME NEW c \in Client, Subscribed(c) PROVE ClientsTyped'
    <2>1. on[c] \in Channel \/ on[c] = 0
      BY EventBounds
    <2> QED BY <1>11, <2>1 DEF Subscribed, OnItsChannel
  <1>12. ASSUME NEW c \in Client, GiveUp(c) PROVE ClientsTyped'
    BY <1>12 DEF GiveUp, Pop, Cancelled
  <1>13. ASSUME NEW c \in Client, Disconnect(c) PROVE ClientsTyped'
    <2>1. \E x \in {"out", "popping", "leaving"} : at' = [at EXCEPT ![c] = x]
      BY <1>13 DEF Disconnect
    <2>2. on' = [on EXCEPT ![c] = current] \/ on' = [on EXCEPT ![c] = 0]
      BY <1>13 DEF Disconnect
    <2>3. greeting' = [greeting EXCEPT ![c] = NotRead] /\ UNCHANGED <<told, made, files>>
      BY <1>13 DEF Disconnect
    <2> HIDE DEF Known
    <2> QED BY <2>1, <2>2, <2>3 DEF Known
  <1>14. ASSUME NEW c \in Client, Left(c) PROVE ClientsTyped'
    BY <1>14 DEF Left, Pop
  <1>15. ASSUME NEW c \in Client, OnSnapshot(c) PROVE ClientsTyped'
    BY <1>15 DEF OnSnapshot, Snapshot
  <1>16. ASSUME NEW c \in Client, OnChanges(c) PROVE ClientsTyped'
    <2>1. queue[c] # <<>> /\ queue[c] \in Seq(Contents)
      BY <1>16 DEF OnChanges, Take, QueuesTyped
    <2>2. Len(queue[c]) >= 1
      BY <2>1
    <2>3. queue[c][1] \in Nat /\ queue[c][1] <= files
      BY <2>1, <2>2, EventBounds DEF QueuesTyped
    <2>4. Head(queue[c]) \in Known
      BY <2>1, <2>3
    <2> HIDE DEF Known
    <2> QED BY <1>16, <2>4 DEF OnChanges, Take, Known
  <1>17. ASSUME NEW p \in Page, ServerReads(p) PROVE ClientsTyped'
    BY <1>17 DEF ServerReads
  <1>18. ASSUME NEW p \in Page, FirstShown(p) PROVE ClientsTyped'
    BY <1>18 DEF FirstShown
  <1>19. ASSUME NEW p \in Page, LoadShown(p) PROVE ClientsTyped'
    BY <1>19 DEF LoadShown, LoadEnds
  <1>20. CASE UNCHANGED vars
    BY <1>20 DEF vars
  <1>21. ASSUME NEW p \in Page, FirstFails(p) PROVE ClientsTyped'
    BY <1>21 DEF FirstFails, Failure, service, clients
  <1>22. ASSUME NEW p \in Page, LoadFails(p) PROVE ClientsTyped'
    BY <1>22 DEF LoadFails, LoadEnds, Failure, service, clients
  <1> QED BY <1>1, <1>2, <1>3, <1>4, <1>5, <1>6, <1>7, <1>8, <1>9, <1>10, <1>11, <1>12, <1>13, <1>14, <1>15, <1>16, <1>17, <1>18, <1>19, <1>20, <1>21, <1>22 DEF Next, Service

LEMMA QueuesStep ==
  ASSUME ServiceTyped, QueuesTyped, [Next]_vars
  PROVE  QueuesTyped'
  <1> USE DEF QueuesTyped, service, clients, events, vars
  <1>1. ASSUME Write PROVE QueuesTyped'
    <2>1. files \in Nat /\ files' \in Nat /\ files <= files' /\ UNCHANGED queue
      BY <1>1, EventBounds DEF Write, ServiceTyped, Contents
    <2>2. \A c \in Client : \A i \in 1 .. Len(queue[c]) : queue[c][i] \in Nat /\ queue[c][i] <= files
      BY EventBounds DEF Contents
    <2>3. \A c \in Client : \A i \in 1 .. Len(queue[c]) : queue[c][i] <= files'
      BY <2>1, <2>2
    <2> QED BY <2>1, <2>3
  <1>2. ASSUME ApplyBatch PROVE QueuesTyped'
    BY <1>2 DEF ApplyBatch
  <1>3. ASSUME NEW k \in Channel, ReadFiles(k) PROVE QueuesTyped'
    BY <1>3 DEF ReadFiles
  <1>4. ASSUME NEW k \in Channel, ApplyScan(k) PROVE QueuesTyped'
    <2>1. read[k] \in Contents /\ read[k] <= files
      BY <1>4, EventBounds DEF ApplyScan, ServiceTyped, Newest, Contents
    <2>2. UNCHANGED files /\ (Broadcast(k, read[k]) \/ UNCHANGED queue)
      BY <1>4 DEF ApplyScan
    <2> QED BY <2>1, <2>2, BroadcastTyped DEF ServiceTyped
  <1>5. ASSUME NEW k \in Channel, ScanFails(k) PROVE QueuesTyped'
    BY <1>5 DEF ScanFails, ScanDone, Release
  <1>6. ASSUME NEW k \in Channel, WakeUp(k) PROVE QueuesTyped'
    BY <1>6 DEF WakeUp
  <1>7. ASSUME NEW k \in Channel, WatchEnds(k) PROVE QueuesTyped'
    BY <1>7 DEF WatchEnds
  <1>8. ASSUME NEW b \in rebuilds, RebuildDone(b) PROVE QueuesTyped'
    <2>1. b.on \in Channel /\ b.saw \in Contents /\ b.saw <= files
      BY EventBounds DEF ServiceTyped, Newest, Contents
    <2>2. UNCHANGED files /\ Broadcast(b.on, b.saw)
      BY <1>8 DEF RebuildDone
    <2> QED BY <2>1, <2>2, BroadcastTyped DEF ServiceTyped
  <1>9. ASSUME NEW b \in rebuilds, RebuildFails(b) PROVE QueuesTyped'
    BY <1>9 DEF RebuildFails
  <1>10. ASSUME NEW c \in Client, Subscribe(c) PROVE QueuesTyped'
    <2>0. Joins(c)
      BY <1>10, SubscribeJoins
    <2>1. queue' = [queue EXCEPT ![c] = <<>>] /\ UNCHANGED files
      BY <2>0 DEF Joins
    <2>2. <<>> \in Seq(Contents) /\ Len(<<>>) = 0
      OBVIOUS
    <2> QED BY <2>1, <2>2, EventBounds
  <1>11. ASSUME NEW c \in Client, Subscribed(c) PROVE QueuesTyped'
    BY <1>11 DEF Subscribed
  <1>12. ASSUME NEW c \in Client, GiveUp(c) PROVE QueuesTyped'
    <2>1. queue' = [queue EXCEPT ![c] = <<>>] /\ UNCHANGED files
      BY <1>12 DEF GiveUp
    <2>2. <<>> \in Seq(Contents) /\ Len(<<>>) = 0
      OBVIOUS
    <2> QED BY <2>1, <2>2, EventBounds
  <1>13. ASSUME NEW c \in Client, Disconnect(c) PROVE QueuesTyped'
    <2>1. queue' = [queue EXCEPT ![c] = <<>>] /\ UNCHANGED files
      BY <1>13 DEF Disconnect
    <2>2. <<>> \in Seq(Contents) /\ Len(<<>>) = 0
      OBVIOUS
    <2> QED BY <2>1, <2>2, EventBounds
  <1>14. ASSUME NEW c \in Client, Left(c) PROVE QueuesTyped'
    BY <1>14 DEF Left, Pop
  <1>15. ASSUME NEW c \in Client, OnSnapshot(c) PROVE QueuesTyped'
    BY <1>15 DEF OnSnapshot, Snapshot
  <1>16. ASSUME NEW c \in Client, OnChanges(c) PROVE QueuesTyped'
    <2>1. queue' = [queue EXCEPT ![c] = Tail(@)] /\ queue[c] # <<>> /\ UNCHANGED files
      BY <1>16 DEF OnChanges, Take
    <2>2. queue[c] \in Seq(Contents) /\ Len(queue[c]) <= QueueSize
      OBVIOUS
    <2>3. /\ Tail(queue[c]) \in Seq(Contents) /\ Len(Tail(queue[c])) <= QueueSize
          /\ \A i \in 1 .. Len(Tail(queue[c])) : Tail(queue[c])[i] = queue[c][i + 1]
          /\ Len(Tail(queue[c])) = Len(queue[c]) - 1
      BY <2>1, <2>2, EventBounds
    <2>4. \A i \in 1 .. Len(Tail(queue[c])) : Tail(queue[c])[i] <= files
      BY <2>2, <2>3
    <2> QED BY <2>1, <2>3, <2>4
  <1>17. ASSUME NEW p \in Page, ServerReads(p) PROVE QueuesTyped'
    BY <1>17 DEF ServerReads
  <1>18. ASSUME NEW p \in Page, FirstShown(p) PROVE QueuesTyped'
    BY <1>18 DEF FirstShown
  <1>19. ASSUME NEW p \in Page, LoadShown(p) PROVE QueuesTyped'
    BY <1>19 DEF LoadShown, LoadEnds
  <1>20. CASE UNCHANGED vars
    BY <1>20 DEF vars
  <1>21. ASSUME NEW p \in Page, FirstFails(p) PROVE QueuesTyped'
    BY <1>21 DEF FirstFails, Failure, service, clients
  <1>22. ASSUME NEW p \in Page, LoadFails(p) PROVE QueuesTyped'
    BY <1>22 DEF LoadFails, LoadEnds, Failure, service, clients
  <1> QED BY <1>1, <1>2, <1>3, <1>4, <1>5, <1>6, <1>7, <1>8, <1>9, <1>10, <1>11, <1>12, <1>13, <1>14, <1>15, <1>16, <1>17, <1>18, <1>19, <1>20, <1>21, <1>22 DEF Next, Service

LEMMA PagesStep ==
  ASSUME ServiceTyped, ClientsTyped, PagesTyped, [Next]_vars
  PROVE  PagesTyped'
  <1> USE DEF PagesTyped, Loads, None, Asked, Answer, Known, Newest, NoContents, pages, events, vars
  <1>1. ASSUME Write, UNCHANGED pages PROVE PagesTyped'
    BY <1>1, EventBounds DEF Write, ServiceTyped, Contents
  <1>2. ASSUME ApplyBatch, UNCHANGED pages PROVE PagesTyped'
    BY <1>2 DEF ApplyBatch
  <1>3. ASSUME NEW k \in Channel, ReadFiles(k), UNCHANGED pages PROVE PagesTyped'
    BY <1>3 DEF ReadFiles
  <1>4. ASSUME NEW k \in Channel, ApplyScan(k), UNCHANGED pages PROVE PagesTyped'
    BY <1>4 DEF ApplyScan, Broadcast, ScanDone, Release
  <1>5. ASSUME NEW k \in Channel, ScanFails(k), UNCHANGED pages PROVE PagesTyped'
    BY <1>5 DEF ScanFails, ScanDone, Release
  <1>6. ASSUME NEW k \in Channel, WakeUp(k), UNCHANGED pages PROVE PagesTyped'
    BY <1>6 DEF WakeUp
  <1>7. ASSUME NEW k \in Channel, WatchEnds(k), UNCHANGED pages PROVE PagesTyped'
    BY <1>7 DEF WatchEnds
  <1>8. ASSUME NEW b \in rebuilds, RebuildDone(b), UNCHANGED pages PROVE PagesTyped'
    BY <1>8 DEF RebuildDone, Broadcast
  <1>9. ASSUME NEW b \in rebuilds, RebuildFails(b), UNCHANGED pages PROVE PagesTyped'
    BY <1>9 DEF RebuildFails
  <1>10. ASSUME NEW c \in Client, Subscribe(c), UNCHANGED pages PROVE PagesTyped'
    BY <1>10 DEF Subscribe
  <1>11. ASSUME NEW c \in Client, Subscribed(c), UNCHANGED pages PROVE PagesTyped'
    BY <1>11 DEF Subscribed
  <1>12. ASSUME NEW c \in Client, GiveUp(c), UNCHANGED pages PROVE PagesTyped'
    BY <1>12 DEF GiveUp, Pop, Cancelled
  <1>13. ASSUME NEW c \in Client, Disconnect(c), UNCHANGED pages PROVE PagesTyped'
    BY <1>13 DEF Disconnect, Cancelled
  <1>14. ASSUME NEW c \in Client, Left(c), UNCHANGED pages PROVE PagesTyped'
    BY <1>14 DEF Left, Pop
  <1>15. ASSUME NEW c \in Client, OnSnapshot(c) PROVE PagesTyped'
    BY <1>15 DEF OnSnapshot, Snapshot, Refresh, Outdated
  <1>16. ASSUME NEW c \in Client, OnChanges(c) PROVE PagesTyped'
    BY <1>16 DEF OnChanges, Take, Refresh
  <1>17. ASSUME NEW p \in Page, ServerReads(p) PROVE PagesTyped'
    BY <1>17 DEF ServerReads, ServiceTyped, Contents
  <1>18. ASSUME NEW p \in Page, FirstShown(p) PROVE PagesTyped'
    BY <1>18 DEF FirstShown
  <1>19. ASSUME NEW p \in Page, LoadShown(p) PROVE PagesTyped'
    BY <1>19 DEF LoadShown, LoadEnds
  <1>20. CASE UNCHANGED vars
    BY <1>20 DEF vars
  <1>21. ASSUME NEW p \in Page, FirstFails(p) PROVE PagesTyped'
    BY <1>21, EventBounds DEF FirstFails, Failure, ServiceTyped, Contents, service, clients
  <1>22. ASSUME NEW p \in Page, LoadFails(p) PROVE PagesTyped'
    BY <1>22 DEF LoadFails, LoadEnds, Failure, service, clients
  <1> QED BY <1>1, <1>2, <1>3, <1>4, <1>5, <1>6, <1>7, <1>8, <1>9, <1>10, <1>11, <1>12, <1>13, <1>14, <1>15, <1>16, <1>17, <1>18, <1>19, <1>20, <1>21, <1>22 DEF Next, Service

(***************************************************************************)
(* Who is subscribed where.                                                *)
(***************************************************************************)

LEMMA KnownChannels ==
  ASSUME ServiceTyped, ClientsTyped, OnItsChannel
  PROVE  \A c \in Client : at[c] # "out" => on[c] \in Channel
  BY EventBounds DEF ServiceTyped, ClientsTyped, OnItsChannel, Channel

\* What a scan does that is applied.
Scanned(k) ==
  /\ read[k] \in Newest
  /\ \A j \in Channel : subs'[j] \subseteq subs[j] /\ (j # k => subs'[j] = subs[j])
  /\ \A j \in Channel : snap'[j] = IF j = k THEN read[k] ELSE snap[j]
  /\ \A j \in Channel : watch'[j] = IF j = k THEN "waiting" ELSE watch[j]
  /\ \A c \in Client : at'[c] = IF at[c] = "joining" /\ on[c] = k THEN "freed" ELSE at[c]
  /\ \A c \in Client : c \notin subs[k] => queue'[c] = queue[c]
  /\ IF snap[k] \notin {NoContents, read[k]}
     THEN \A c \in subs'[k] : queue'[c] = Append(queue[c], read[k])
     ELSE UNCHANGED queue
  /\ watch[k] = "reading"
  /\ UNCHANGED <<files, current, on, greeting, told, made, crossed>>

LEMMA ScanDoes ==
  ASSUME ServiceTyped, QueuesTyped, NEW k \in Channel, ApplyScan(k)
  PROVE  Scanned(k)
  <1> USE DEF Scanned
  <1>1. read[k] \in Newest
    BY DEF ApplyScan, ServiceTyped
  <1>2. /\ \A j \in Channel : snap'[j] = IF j = k THEN read[k] ELSE snap[j]
        /\ \A j \in Channel : watch'[j] = IF j = k THEN "waiting" ELSE watch[j]
        /\ \A c \in Client : at'[c] = IF at[c] = "joining" /\ on[c] = k THEN "freed" ELSE at[c]
        /\ watch[k] = "reading"
        /\ UNCHANGED <<files, current, on, greeting, told, made, crossed>>
    BY DEF ApplyScan, ScanDone, Release, ServiceTyped
  <1>3. CASE snap[k] \notin {NoContents, read[k]}
    <2>1. Broadcast(k, read[k])
      BY <1>3 DEF ApplyScan
    <2>2. read[k] \in Contents /\ read[k] <= files
      BY <1>1, EventBounds DEF ServiceTyped, Newest, Contents
    <2> QED BY <1>1, <1>2, <1>3, <2>1, <2>2, BroadcastTyped DEF ServiceTyped
  <1>4. CASE snap[k] \in {NoContents, read[k]}
    <2>1. UNCHANGED <<queue, subs>>
      BY <1>4 DEF ApplyScan
    <2> QED BY <1>1, <1>2, <1>4, <2>1
  <1> QED BY <1>3, <1>4

\* What a batch does that is applied.
Rebuilt(b) ==
  /\ b.on \in Channel /\ b.saw \in Newest
  /\ \A j \in Channel : subs'[j] \subseteq subs[j] /\ (j # b.on => subs'[j] = subs[j])
  /\ \A j \in Channel : snap'[j] = IF j = b.on THEN b.saw ELSE snap[j]
  /\ \A c \in Client : c \notin subs[b.on] => queue'[c] = queue[c]
  /\ \A c \in subs'[b.on] : queue'[c] = Append(queue[c], b.saw)
  /\ UNCHANGED <<files, current, watch, at, on, greeting, told, made, crossed>>

LEMMA RebuildDoes ==
  ASSUME ServiceTyped, QueuesTyped, NEW b \in rebuilds, RebuildDone(b)
  PROVE  Rebuilt(b)
  <1> USE DEF Rebuilt
  <1>1. b.on \in Channel /\ b.saw \in Newest
    BY DEF ServiceTyped
  <1>2. b.saw \in Contents /\ b.saw <= files
    BY <1>1, EventBounds DEF ServiceTyped, Newest, Contents
  <1>3. Broadcast(b.on, b.saw)
    BY DEF RebuildDone
  <1>4. /\ \A j \in Channel : snap'[j] = IF j = b.on THEN b.saw ELSE snap[j]
        /\ UNCHANGED <<files, current, watch, at, on, greeting, told, made, crossed>>
    BY <1>1 DEF RebuildDone, ServiceTyped
  <1> QED BY <1>1, <1>2, <1>3, <1>4, BroadcastTyped DEF ServiceTyped

\* What the departure of a client does: it waits for the task of a channel it
\* leaves empty, or is gone.
Departed(c) ==
  /\ at[c] = "in"
  /\ \A d \in Client \ {c} : at'[d] = at[d] /\ on'[d] = on[d] /\ queue'[d] = queue[d]
  /\ \A d \in Client \ {c} : greeting'[d] = greeting[d]
  /\ \A k \in Channel : subs'[k] = IF k = current THEN subs[k] \ {c} ELSE subs[k]
  /\ UNCHANGED <<files, current, snap, told, made, crossed>>
  /\ \A k \in Channel \ {current} : watch'[k] = watch[k]
  /\ \/ at'[c] = "out" /\ UNCHANGED watch
     \/ /\ current \in Channel /\ subs'[current] = {} /\ on'[c] = current
        /\ \/ at'[c] = "popping" /\ watch[current] = "over"
           \/ at'[c] = "leaving" /\ watch[current] # "over"
        /\ watch'[current] = IF watch[current] \in {"reading", "waiting"} THEN "cut" ELSE watch[current]

LEMMA DisconnectDoes ==
  ASSUME ServiceTyped, ClientsTyped, QueuesTyped, NEW c \in Client, Disconnect(c)
  PROVE  Departed(c)
  <1> USE DEF Departed
  <1>1. /\ at[c] = "in"
        /\ \A d \in Client \ {c} : queue'[d] = queue[d] /\ greeting'[d] = greeting[d]
        /\ \A k \in Channel : subs'[k] = IF k = current THEN subs[k] \ {c} ELSE subs[k]
        /\ UNCHANGED <<files, current, snap, told, made, crossed>>
    BY DEF Disconnect, ClientsTyped, QueuesTyped
  <1>2. CASE current # 0 /\ subs'[current] = {}
    <2>1. current \in Channel
      BY <1>2, EventBounds DEF ServiceTyped, Channel
    <2>2. /\ at' = [at EXCEPT ![c] = IF watch[current] = "over" THEN "popping" ELSE "leaving"]
          /\ on' = [on EXCEPT ![c] = current]
          /\ watch' = Cancelled(current)
      BY <1>2 DEF Disconnect
    <2>3. /\ \A d \in Client \ {c} : at'[d] = at[d] /\ on'[d] = on[d]
          /\ on'[c] = current
          /\ at'[c] = IF watch[current] = "over" THEN "popping" ELSE "leaving"
      BY <2>2 DEF ClientsTyped
    <2>4. /\ \A k \in Channel \ {current} : watch'[k] = watch[k]
          /\ watch'[current] = IF watch[current] \in {"reading", "waiting"} THEN "cut" ELSE watch[current]
      BY <2>1, <2>2 DEF Cancelled, ServiceTyped
    <2> QED BY <1>1, <1>2, <2>1, <2>3, <2>4
  <1>3. CASE ~(current # 0 /\ subs'[current] = {})
    <2>1. at' = [at EXCEPT ![c] = "out"] /\ on' = [on EXCEPT ![c] = 0] /\ UNCHANGED watch
      BY <1>3 DEF Disconnect
    <2> QED BY <1>1, <2>1 DEF ClientsTyped
  <1> QED BY <1>2, <1>3

\* What giving up does.
GaveUp(c) ==
  /\ at[c] \in {"joining", "freed"} /\ at'[c] = "out" /\ on[c] \in Channel
  /\ \A d \in Client \ {c} : at'[d] = at[d] /\ on'[d] = on[d] /\ queue'[d] = queue[d]
  /\ \A k \in Channel : subs'[k] = IF k = on[c] THEN subs[k] \ {c} ELSE subs[k]
  /\ UNCHANGED <<files, snap, greeting, told, made>>
  /\ \A k \in Channel : watch'[k] = watch[k] \/ (watch[k] \in {"reading", "waiting"} /\ watch'[k] = "cut")
  /\ ~crossed' => ~crossed
  /\ \/ UNCHANGED <<watch, current>>
     \/ subs'[on[c]] = {} /\ current' = 0 /\ (~crossed' => current \in {0, on[c]})

LEMMA GiveUpDoes ==
  ASSUME ServiceTyped, ClientsTyped, QueuesTyped, OnItsChannel, NEW c \in Client, GiveUp(c)
  PROVE  GaveUp(c)
  <1> USE DEF GaveUp
  <1>1. at[c] \in {"joining", "freed"} /\ on[c] \in Channel
    BY KnownChannels DEF GiveUp
  <1>2. /\ at'[c] = "out"
        /\ \A d \in Client \ {c} : at'[d] = at[d] /\ on'[d] = on[d] /\ queue'[d] = queue[d]
        /\ UNCHANGED <<files, snap, greeting, told, made>>
    BY DEF GiveUp, ClientsTyped, QueuesTyped
  <1>3. \A k \in Channel : subs'[k] = IF k = on[c] THEN subs[k] \ {c} ELSE subs[k]
    BY <1>1 DEF GiveUp, ServiceTyped
  <1>4. CASE subs'[on[c]] = {}
    <2>1. watch' = Cancelled(on[c]) /\ Pop(c)
      BY <1>4 DEF GiveUp
    <2>2. \A k \in Channel : watch'[k] = watch[k] \/ (watch[k] \in {"reading", "waiting"} /\ watch'[k] = "cut")
      <3> SUFFICES ASSUME NEW k \in Channel
                   PROVE  watch'[k] = watch[k] \/ (watch[k] \in {"reading", "waiting"} /\ watch'[k] = "cut")
        OBVIOUS
      <3>1. watch'[k] = IF k = on[c] /\ watch[k] \in {"reading", "waiting"} THEN "cut" ELSE watch[k]
        BY <1>1, <2>1 DEF Cancelled, ServiceTyped
      <3> QED BY <3>1
    <2>3. current' = 0 /\ (~crossed' => ~crossed /\ current \in {0, on[c]})
      BY <2>1 DEF Pop
    <2> QED BY <1>1, <1>2, <1>3, <1>4, <2>2, <2>3
  <1>5. CASE subs'[on[c]] # {}
    <2>1. UNCHANGED <<watch, current>> /\ UNCHANGED crossed
      BY <1>5 DEF GiveUp
    <2>2. ~crossed' => ~crossed
      BY <2>1
    <2>3. \A k \in Channel : watch'[k] = watch[k]
      BY <2>1
    <2> QED BY <1>1, <1>2, <1>3, <2>1, <2>2, <2>3
  <1> QED BY <1>4, <1>5

LEMMA OnItsChannelStep ==
  ASSUME ServiceTyped, ClientsTyped, QueuesTyped, OnItsChannel, [Next]_vars
  PROVE  OnItsChannel'
  <1>1. ASSUME Write PROVE OnItsChannel'
    BY <1>1 DEF Write, OnItsChannel, ServiceTyped, ClientsTyped, Subscribing, Channel, service, clients, events
  <1>2. ASSUME ApplyBatch PROVE OnItsChannel'
    BY <1>2 DEF ApplyBatch, OnItsChannel, ServiceTyped, ClientsTyped, Subscribing, Channel, service, clients, events
  <1>3. ASSUME NEW k \in Channel, ReadFiles(k) PROVE OnItsChannel'
    BY <1>3 DEF ReadFiles, OnItsChannel, ServiceTyped, ClientsTyped, Subscribing, Channel, service, clients, events
  <1>4. ASSUME NEW k \in Channel, ApplyScan(k) PROVE OnItsChannel'
    <2>0. Scanned(k)
      BY <1>4, ScanDoes
    <2> QED BY <2>0 DEF Scanned, OnItsChannel, ServiceTyped, ClientsTyped, Subscribing
  <1>5. ASSUME NEW k \in Channel, ScanFails(k) PROVE OnItsChannel'
    BY <1>5 DEF ScanFails, ScanDone, Release, OnItsChannel, ServiceTyped, ClientsTyped, Subscribing, Channel, service, clients, events
  <1>6. ASSUME NEW k \in Channel, WakeUp(k) PROVE OnItsChannel'
    BY <1>6 DEF WakeUp, OnItsChannel, ServiceTyped, ClientsTyped, Subscribing, Channel, service, clients, events
  <1>7. ASSUME NEW k \in Channel, WatchEnds(k) PROVE OnItsChannel'
    BY <1>7 DEF WatchEnds, OnItsChannel, ServiceTyped, ClientsTyped, Subscribing, Channel, service, clients, events
  <1>8. ASSUME NEW b \in rebuilds, RebuildDone(b) PROVE OnItsChannel'
    <2>0. Rebuilt(b)
      BY <1>8, RebuildDoes
    <2> QED BY <2>0 DEF Rebuilt, OnItsChannel, ServiceTyped, ClientsTyped, Subscribing
  <1>9. ASSUME NEW b \in rebuilds, RebuildFails(b) PROVE OnItsChannel'
    BY <1>9 DEF RebuildFails, OnItsChannel, ServiceTyped, ClientsTyped, Subscribing, Channel, service, clients, events
  <1>10. ASSUME NEW c \in Client, Subscribe(c) PROVE OnItsChannel'
    <2>0. Joins(c)
      BY <1>10, SubscribeJoins
    <2>1. Joined \in Channel /\ Joined # 0
      BY <2>0 DEF Joins, Channel
    <2>2. /\ on'[c] = Joined /\ \A d \in Client \ {c} : at'[d] = at[d] /\ on'[d] = on[d]
          /\ \A k \in Channel : subs'[k] = IF k = Joined THEN subs[k] \cup {c} ELSE subs[k]
      BY <2>0 DEF Joins, ServiceTyped, ClientsTyped
    <2>3. \A k \in Channel : c \in subs'[k] => k = Joined
      BY <1>10, <2>2 DEF Subscribe
    <2>4. \A k \in Channel : subs[k] \subseteq Client
      BY DEF ServiceTyped
    <2>5. ASSUME NEW k \in Channel, NEW d \in subs'[k], at'[d] \in Subscribing PROVE on'[d] = k
      <3>1. CASE d = c
        BY <2>2, <2>3, <2>5, <3>1
      <3>2. CASE d # c
        <4>1. d \in subs[k] /\ d \in Client
          BY <2>2, <2>4, <2>5, <3>2
        <4> QED BY <2>2, <2>5, <3>2, <4>1 DEF OnItsChannel
      <3> QED BY <3>1, <3>2
    <2>6. \A d \in Client : at'[d] # "out" => on'[d] # 0
      BY <2>1, <2>2 DEF OnItsChannel
    <2> QED BY <2>5, <2>6 DEF OnItsChannel
  <1>11. ASSUME NEW c \in Client, Subscribed(c) PROVE OnItsChannel'
    BY <1>11 DEF Subscribed, OnItsChannel, ServiceTyped, ClientsTyped, Subscribing, Channel, service, clients, events
  <1>12. ASSUME NEW c \in Client, GiveUp(c) PROVE OnItsChannel'
    <2>0. GaveUp(c)
      BY <1>12, GiveUpDoes
    <2>1. \A k \in Channel : subs[k] \subseteq Client /\ subs'[k] \subseteq subs[k]
      BY <2>0 DEF GaveUp, ServiceTyped
    <2>2. \A d \in Client \ {c} : at'[d] = at[d] /\ on'[d] = on[d]
      BY <2>0 DEF GaveUp
    <2>3. at'[c] = "out" /\ at'[c] \notin Subscribing
      BY <2>0 DEF GaveUp, Subscribing
    <2> QED BY <2>1, <2>2, <2>3 DEF OnItsChannel
  <1>13. ASSUME NEW c \in Client, Disconnect(c) PROVE OnItsChannel'
    <2>0. Departed(c)
      BY <1>13, DisconnectDoes
    <2>1. \A k \in Channel : subs[k] \subseteq Client /\ subs'[k] \subseteq subs[k]
      BY <2>0 DEF Departed, ServiceTyped
    <2>2. \A d \in Client \ {c} : at'[d] = at[d] /\ on'[d] = on[d]
      BY <2>0 DEF Departed
    <2>3. at'[c] \notin Subscribing /\ (at'[c] # "out" => on'[c] # 0)
      BY <2>0 DEF Departed, Subscribing, Channel
    <2> QED BY <2>1, <2>2, <2>3 DEF OnItsChannel
  <1>14. ASSUME NEW c \in Client, Left(c) PROVE OnItsChannel'
    BY <1>14 DEF Left, Pop, OnItsChannel, ServiceTyped, ClientsTyped, Subscribing, Channel, service, clients, events
  <1>15. ASSUME NEW c \in Client, OnSnapshot(c) PROVE OnItsChannel'
    BY <1>15 DEF OnSnapshot, Snapshot, OnItsChannel, ServiceTyped, ClientsTyped, Subscribing, Channel, service, clients, events
  <1>16. ASSUME NEW c \in Client, OnChanges(c) PROVE OnItsChannel'
    BY <1>16 DEF OnChanges, Take, OnItsChannel, ServiceTyped, ClientsTyped, Subscribing, Channel, service, clients, events
  <1>17. ASSUME NEW p \in Page, ServerReads(p) PROVE OnItsChannel'
    BY <1>17 DEF ServerReads, OnItsChannel, ServiceTyped, ClientsTyped, Subscribing, Channel, service, clients, events
  <1>18. ASSUME NEW p \in Page, FirstShown(p) PROVE OnItsChannel'
    BY <1>18 DEF FirstShown, OnItsChannel, ServiceTyped, ClientsTyped, Subscribing, Channel, service, clients, events
  <1>19. ASSUME NEW p \in Page, LoadShown(p) PROVE OnItsChannel'
    BY <1>19 DEF LoadShown, LoadEnds, OnItsChannel, ServiceTyped, ClientsTyped, Subscribing, Channel, service, clients, events
  <1>20. CASE UNCHANGED vars
    BY <1>20 DEF vars, OnItsChannel, ServiceTyped, ClientsTyped, Subscribing, Channel, service, clients, events
  <1>21. ASSUME NEW p \in Page, FirstFails(p) PROVE OnItsChannel'
    BY <1>21 DEF FirstFails, Failure, service, clients, OnItsChannel, ServiceTyped, ClientsTyped, Subscribing, Channel, service, clients, events
  <1>22. ASSUME NEW p \in Page, LoadFails(p) PROVE OnItsChannel'
    BY <1>22 DEF LoadFails, LoadEnds, Failure, service, clients, OnItsChannel, ServiceTyped, ClientsTyped, Subscribing, Channel, service, clients, events
  <1> QED BY <1>1, <1>2, <1>3, <1>4, <1>5, <1>6, <1>7, <1>8, <1>9, <1>10, <1>11, <1>12, <1>13, <1>14, <1>15, <1>16, <1>17, <1>18, <1>19, <1>20, <1>21, <1>22 DEF Next, Service

(***************************************************************************)
(* The last message and the snapshot.                                      *)
(***************************************************************************)

LEMMA LastStep ==
  ASSUME ServiceTyped, ClientsTyped, QueuesTyped, OnItsChannel, LastIsSnapshot, [Next]_vars
  PROVE  LastIsSnapshot'
  <1>1. ASSUME Write PROVE LastIsSnapshot'
    BY <1>1 DEF Write, LastIsSnapshot, LastOf, ServiceTyped, ClientsTyped, Subscribing, Channel, service, clients, events
  <1>2. ASSUME ApplyBatch PROVE LastIsSnapshot'
    BY <1>2 DEF ApplyBatch, LastIsSnapshot, LastOf, ServiceTyped, ClientsTyped, Subscribing, Channel, service, clients, events
  <1>3. ASSUME NEW k \in Channel, ReadFiles(k) PROVE LastIsSnapshot'
    BY <1>3 DEF ReadFiles, LastIsSnapshot, LastOf, ServiceTyped, ClientsTyped, Subscribing, Channel, service, clients, events
  <1>4. ASSUME NEW k \in Channel, ApplyScan(k) PROVE LastIsSnapshot'
    <2>0. Scanned(k)
      BY <1>4, ScanDoes
    <2> SUFFICES ASSUME NEW d \in Client, (at[d] \in Subscribing /\ d \in subs[on[d]])' PROVE LastOf(d)'
      BY DEF LastIsSnapshot, LastOf
    <2>1. at[d] \in Subscribing /\ on[d] \in Channel /\ (at'[d] = "in" => at[d] = "in")
      BY <2>0, KnownChannels DEF Scanned, Subscribing
    <2>2. d \in subs[on[d]] /\ LastOf(d)
      BY <2>0, <2>1 DEF Scanned, LastIsSnapshot
    <2>3. CASE on[d] # k
      <3>1. d \notin subs[k]
        BY <2>1, <2>3 DEF OnItsChannel
      <3> QED BY <2>0, <2>1, <2>2, <2>3, <3>1 DEF Scanned, LastOf
    <2>4. CASE on[d] = k /\ snap[k] \notin {NoContents, read[k]}
      <3>1. queue'[d] = Append(queue[d], read[k]) /\ queue[d] \in Seq(Contents)
        BY <2>0, <2>4 DEF Scanned, QueuesTyped
      <3>2. queue'[d] # <<>> /\ queue'[d][Len(queue'[d])] = read[k]
        BY <3>1
      <3> QED BY <2>0, <2>4, <3>2 DEF Scanned, LastOf
    <2>5. CASE on[d] = k /\ snap[k] \in {NoContents, read[k]}
      <3>1. /\ UNCHANGED <<queue, on, greeting, told>> /\ snap'[k] = read[k]
            /\ read[k] \in Newest
        BY <2>0, <2>5 DEF Scanned
      <3>2. queue[d] # <<>> => queue[d][Len(queue[d])] \in Contents
        BY DEF QueuesTyped
      <3>3. NoContents \notin Contents
        BY DEF NoContents, Contents
      <3> QED BY <2>1, <2>2, <2>5, <3>1, <3>2, <3>3 DEF LastOf
    <2> QED BY <2>3, <2>4, <2>5
  <1>5. ASSUME NEW k \in Channel, ScanFails(k) PROVE LastIsSnapshot'
    BY <1>5 DEF ScanFails, ScanDone, Release, LastIsSnapshot, LastOf, ServiceTyped, ClientsTyped, Subscribing, Channel, service, clients, events
  <1>6. ASSUME NEW k \in Channel, WakeUp(k) PROVE LastIsSnapshot'
    BY <1>6 DEF WakeUp, LastIsSnapshot, LastOf, ServiceTyped, ClientsTyped, Subscribing, Channel, service, clients, events
  <1>7. ASSUME NEW k \in Channel, WatchEnds(k) PROVE LastIsSnapshot'
    BY <1>7 DEF WatchEnds, LastIsSnapshot, LastOf, ServiceTyped, ClientsTyped, Subscribing, Channel, service, clients, events
  <1>8. ASSUME NEW b \in rebuilds, RebuildDone(b) PROVE LastIsSnapshot'
    <2>0. Rebuilt(b)
      BY <1>8, RebuildDoes
    <2> SUFFICES ASSUME NEW d \in Client, (at[d] \in Subscribing /\ d \in subs[on[d]])' PROVE LastOf(d)'
      BY DEF LastIsSnapshot, LastOf
    <2>1. at[d] \in Subscribing /\ on[d] \in Channel
      BY <2>0, KnownChannels DEF Rebuilt, Subscribing
    <2>2. d \in subs[on[d]] /\ LastOf(d)
      BY <2>0, <2>1 DEF Rebuilt, LastIsSnapshot
    <2>3. CASE on[d] # b.on
      <3>1. d \notin subs[b.on]
        BY <2>0, <2>1, <2>3 DEF Rebuilt, OnItsChannel
      <3> QED BY <2>0, <2>1, <2>2, <2>3, <3>1 DEF Rebuilt, LastOf
    <2>4. CASE on[d] = b.on
      <3>1. queue'[d] = Append(queue[d], b.saw) /\ queue[d] \in Seq(Contents)
        BY <2>0, <2>4 DEF Rebuilt, QueuesTyped
      <3>2. queue'[d] # <<>> /\ queue'[d][Len(queue'[d])] = b.saw
        BY <3>1
      <3> QED BY <2>0, <2>4, <3>2 DEF Rebuilt, LastOf
    <2> QED BY <2>3, <2>4
  <1>9. ASSUME NEW b \in rebuilds, RebuildFails(b) PROVE LastIsSnapshot'
    BY <1>9 DEF RebuildFails, LastIsSnapshot, LastOf, ServiceTyped, ClientsTyped, Subscribing, Channel, service, clients, events
  <1>10. ASSUME NEW c \in Client, Subscribe(c) PROVE LastIsSnapshot'
    <2>0. Joins(c)
      BY <1>10, SubscribeJoins
    <2> SUFFICES ASSUME NEW d \in Client PROVE LastOf(d)'
      BY DEF LastIsSnapshot
    <2>1. CASE d = c
      <3>1. /\ on'[c] = Joined /\ queue'[c] = <<>> /\ UNCHANGED snap
            /\ \/ at'[c] = "in" /\ greeting'[c] = snap[Joined]
               \/ at'[c] = "joining"
        BY <2>0 DEF Joins, ClientsTyped, QueuesTyped
      <3>2. snap[Joined] # NotRead
        BY <2>0, EventBounds DEF Joins, ServiceTyped, Known, Contents, NoContents, NotRead
      <3> QED BY <2>1, <3>1, <3>2 DEF LastOf
    <2>2. CASE d # c
      <3>1. UNCHANGED <<at[d], on[d], queue[d], greeting[d], told[d], snap>>
        BY <2>0, <2>2 DEF Joins, ClientsTyped, QueuesTyped
      <3>2. d \in subs'[on[d]] => d \in subs[on[d]]
        BY <2>0, <2>2 DEF Joins, ServiceTyped
      <3> QED BY <3>1, <3>2 DEF LastIsSnapshot, LastOf
    <2> QED BY <2>1, <2>2
  <1>11. ASSUME NEW c \in Client, Subscribed(c) PROVE LastIsSnapshot'
    <2>1. /\ at[c] = "freed" /\ at' = [at EXCEPT ![c] = "in"]
          /\ greeting' = [greeting EXCEPT ![c] = snap[on[c]]]
          /\ UNCHANGED <<subs, snap, on, queue, told>>
      BY <1>11 DEF Subscribed, service
    <2>2. snap[on[c]] # NotRead
      BY <2>1, KnownChannels, EventBounds DEF ServiceTyped, Known, Contents, NoContents, NotRead
    <2> SUFFICES ASSUME NEW d \in Client PROVE LastOf(d)'
      BY DEF LastIsSnapshot
    <2>3. CASE d = c
      BY <2>1, <2>2, <2>3 DEF LastIsSnapshot, LastOf, ClientsTyped, Subscribing
    <2>4. CASE d # c
      BY <2>1, <2>4 DEF LastIsSnapshot, LastOf, ClientsTyped
    <2> QED BY <2>3, <2>4
  <1>12. ASSUME NEW c \in Client, GiveUp(c) PROVE LastIsSnapshot'
    <2>0. GaveUp(c)
      BY <1>12, GiveUpDoes
    <2> SUFFICES ASSUME NEW d \in Client, (at[d] \in Subscribing /\ d \in subs[on[d]])' PROVE LastOf(d)'
      BY DEF LastIsSnapshot, LastOf
    <2>1. d # c
      BY <2>0 DEF GaveUp, Subscribing
    <2>2. on[d] \in Channel
      BY <2>0, <2>1, KnownChannels DEF GaveUp, Subscribing
    <2>3. UNCHANGED <<at[d], on[d], queue[d], greeting[d], told[d], snap>>
      BY <2>0, <2>1 DEF GaveUp
    <2>4. d \in subs[on[d]]
      BY <2>0, <2>2, <2>3 DEF GaveUp
    <2> QED BY <2>3, <2>4 DEF LastIsSnapshot, LastOf
  <1>13. ASSUME NEW c \in Client, Disconnect(c) PROVE LastIsSnapshot'
    <2>0. Departed(c)
      BY <1>13, DisconnectDoes
    <2> SUFFICES ASSUME NEW d \in Client, (at[d] \in Subscribing /\ d \in subs[on[d]])' PROVE LastOf(d)'
      BY DEF LastIsSnapshot, LastOf
    <2>1. d # c
      BY <2>0 DEF Departed, Subscribing
    <2>2. on[d] \in Channel
      BY <2>0, <2>1, KnownChannels DEF Departed, Subscribing
    <2>3. UNCHANGED <<at[d], on[d], queue[d], greeting[d], told[d], snap>>
      BY <2>0, <2>1 DEF Departed
    <2>4. d \in subs[on[d]]
      BY <2>0, <2>2, <2>3 DEF Departed
    <2> QED BY <2>3, <2>4 DEF LastIsSnapshot, LastOf
  <1>14. ASSUME NEW c \in Client, Left(c) PROVE LastIsSnapshot'
    BY <1>14 DEF Left, Pop, LastIsSnapshot, LastOf, ServiceTyped, ClientsTyped, Subscribing, Channel, service, clients, events
  <1>15. ASSUME NEW c \in Client, OnSnapshot(c) PROVE LastIsSnapshot'
    BY <1>15 DEF OnSnapshot, Snapshot, OnItsChannel, LastIsSnapshot, LastOf, ServiceTyped, ClientsTyped, Subscribing, Channel, service, clients, events
  <1>16. ASSUME NEW c \in Client, OnChanges(c) PROVE LastIsSnapshot'
    <2>1. /\ at[c] = "in" /\ greeting[c] = NotRead /\ queue[c] # <<>> /\ queue[c] \in Seq(Contents)
          /\ told' = [told EXCEPT ![c] = Head(queue[c])] /\ queue' = [queue EXCEPT ![c] = Tail(@)]
          /\ UNCHANGED <<subs, snap, at, on, greeting>>
      BY <1>16 DEF OnChanges, Take, QueuesTyped, service
    <2> SUFFICES ASSUME NEW d \in Client PROVE LastOf(d)'
      BY DEF LastIsSnapshot
    <2>2. CASE d # c
      BY <2>1, <2>2 DEF LastIsSnapshot, LastOf, QueuesTyped, ClientsTyped
    <2>3. CASE d = c /\ Tail(queue[c]) = <<>>
      <3>1. Head(queue[c]) = queue[c][Len(queue[c])]
        BY <2>1, <2>3
      <3> QED BY <2>1, <2>3, <3>1 DEF LastIsSnapshot, LastOf, QueuesTyped, ClientsTyped
    <2>4. CASE d = c /\ Tail(queue[c]) # <<>>
      <3>1. Tail(queue[c])[Len(Tail(queue[c]))] = queue[c][Len(queue[c])]
        BY <2>1, <2>4
      <3> QED BY <2>1, <2>4, <3>1 DEF LastIsSnapshot, LastOf, QueuesTyped, ClientsTyped
    <2> QED BY <2>2, <2>3, <2>4
  <1>17. ASSUME NEW p \in Page, ServerReads(p) PROVE LastIsSnapshot'
    BY <1>17 DEF ServerReads, LastIsSnapshot, LastOf, ServiceTyped, ClientsTyped, Subscribing, Channel, service, clients, events
  <1>18. ASSUME NEW p \in Page, FirstShown(p) PROVE LastIsSnapshot'
    BY <1>18 DEF FirstShown, LastIsSnapshot, LastOf, ServiceTyped, ClientsTyped, Subscribing, Channel, service, clients, events
  <1>19. ASSUME NEW p \in Page, LoadShown(p) PROVE LastIsSnapshot'
    BY <1>19 DEF LoadShown, LoadEnds, LastIsSnapshot, LastOf, ServiceTyped, ClientsTyped, Subscribing, Channel, service, clients, events
  <1>20. CASE UNCHANGED vars
    BY <1>20 DEF vars, LastIsSnapshot, LastOf, ServiceTyped, ClientsTyped, Subscribing, Channel, service, clients, events
  <1>21. ASSUME NEW p \in Page, FirstFails(p) PROVE LastIsSnapshot'
    BY <1>21 DEF FirstFails, Failure, service, clients, LastIsSnapshot, LastOf, ServiceTyped, ClientsTyped, Subscribing, Channel, service, clients, events
  <1>22. ASSUME NEW p \in Page, LoadFails(p) PROVE LastIsSnapshot'
    BY <1>22 DEF LoadFails, LoadEnds, Failure, service, clients, LastIsSnapshot, LastOf, ServiceTyped, ClientsTyped, Subscribing, Channel, service, clients, events
  <1> QED BY <1>1, <1>2, <1>3, <1>4, <1>5, <1>6, <1>7, <1>8, <1>9, <1>10, <1>11, <1>12, <1>13, <1>14, <1>15, <1>16, <1>17, <1>18, <1>19, <1>20, <1>21, <1>22 DEF Next, Service

(***************************************************************************)
(* The channel with a subscriber.                                          *)
(***************************************************************************)

LEMMA TendedStep ==
  ASSUME ServiceTyped, ClientsTyped, QueuesTyped, OnItsChannel, Tended, Attended, [Next]_vars
  PROVE  Tended'
  <1>1. ASSUME Write PROVE Tended'
    BY <1>1 DEF Write, Tended, Fresh, Awaited, LeftEmpty, CutByLeavers, Attended, Leavers, OnItsChannel, ServiceTyped, ClientsTyped, Subscribing, Channel, service, clients, events
  <1>2. ASSUME ApplyBatch PROVE Tended'
    BY <1>2 DEF ApplyBatch, Tended, Fresh, Awaited, LeftEmpty, CutByLeavers, Attended, Leavers, OnItsChannel, ServiceTyped, ClientsTyped, Subscribing, Channel, service, clients, events
  <1>3. ASSUME NEW k \in Channel, ReadFiles(k) PROVE Tended'
    BY <1>3 DEF ReadFiles, Tended, Fresh, Awaited, LeftEmpty, CutByLeavers, Attended, Leavers, OnItsChannel, ServiceTyped, ClientsTyped, Subscribing, Channel, service, clients, events
  <1>4. ASSUME NEW k \in Channel, ApplyScan(k) PROVE Tended'
    <2>0. Scanned(k)
      BY <1>4, ScanDoes
    <2> USE DEF Tended, ServiceTyped, ClientsTyped
    <2>1. Fresh'
      BY <2>0 DEF Scanned, Fresh
    <2>2. Awaited'
      BY <2>0 DEF Scanned, Awaited, Leavers
    <2>3. LeftEmpty'
      BY <2>0, KnownChannels DEF Scanned, LeftEmpty
    <2>4. CutByLeavers'
      BY <2>0, KnownChannels DEF Scanned, CutByLeavers
    <2> QED BY <2>1, <2>2, <2>3, <2>4
  <1>5. ASSUME NEW k \in Channel, ScanFails(k) PROVE Tended'
    BY <1>5 DEF ScanFails, ScanDone, Release, Tended, Fresh, Awaited, LeftEmpty, CutByLeavers, Attended, Leavers, OnItsChannel, ServiceTyped, ClientsTyped, Subscribing, Channel, service, clients, events
  <1>6. ASSUME NEW k \in Channel, WakeUp(k) PROVE Tended'
    <2>0. /\ watch[k] = "waiting" /\ \E w \in {"over", "reading"} : watch' = [watch EXCEPT ![k] = w]
          /\ UNCHANGED <<made, current, subs, at, on, crossed>>
      BY <1>6 DEF WakeUp, clients
    <2> QED BY <2>0 DEF Tended, Fresh, Awaited, LeftEmpty, CutByLeavers, Leavers, ServiceTyped
  <1>7. ASSUME NEW k \in Channel, WatchEnds(k) PROVE Tended'
    BY <1>7 DEF WatchEnds, Tended, Fresh, Awaited, LeftEmpty, CutByLeavers, Attended, Leavers, OnItsChannel, ServiceTyped, ClientsTyped, Subscribing, Channel, service, clients, events
  <1>8. ASSUME NEW b \in rebuilds, RebuildDone(b) PROVE Tended'
    <2>0. Rebuilt(b)
      BY <1>8, RebuildDoes
    <2> USE DEF Tended, ServiceTyped, ClientsTyped
    <2>1. Fresh'
      BY <2>0 DEF Rebuilt, Fresh
    <2>2. Awaited'
      BY <2>0 DEF Rebuilt, Awaited, Leavers
    <2>3. LeftEmpty'
      BY <2>0, KnownChannels DEF Rebuilt, LeftEmpty
    <2>4. CutByLeavers'
      BY <2>0, KnownChannels DEF Rebuilt, CutByLeavers
    <2> QED BY <2>1, <2>2, <2>3, <2>4
  <1>9. ASSUME NEW b \in rebuilds, RebuildFails(b) PROVE Tended'
    BY <1>9 DEF RebuildFails, Tended, Fresh, Awaited, LeftEmpty, CutByLeavers, Attended, Leavers, OnItsChannel, ServiceTyped, ClientsTyped, Subscribing, Channel, service, clients, events
  <1>10. ASSUME NEW c \in Client, Subscribe(c) PROVE Tended'
    <2>0. Joins(c)
      BY <1>10, SubscribeJoins
    <2>1. Joined \in Channel /\ (current = 0 => watch[Joined] = "none")
      BY <2>0 DEF Joins, Tended, Fresh, ServiceTyped
    <2>2. \A d \in Client \ {c} : at'[d] = at[d] /\ on'[d] = on[d]
      BY <2>0 DEF Joins, ClientsTyped
    <2>3. at'[c] \in {"in", "joining"}
      BY <2>0 DEF Joins, ClientsTyped
    <2>4. \A k \in Channel \ {Joined} : subs'[k] = subs[k] /\ watch'[k] = watch[k]
      BY <2>0 DEF Joins, ServiceTyped
    <2>5. watch'[Joined] = IF watch[Joined] \in {"none", "over"} THEN "reading" ELSE watch[Joined]
      BY <2>0, <2>1 DEF Joins, ServiceTyped
    <2>6. ~crossed' => ~crossed /\ Leavers(Joined) = {}
      BY <2>0 DEF Joins
    <2>7. Fresh'
      BY <2>0, <2>1, <2>4, <2>5 DEF Joins, Tended, Fresh, ServiceTyped, Channel
    <2>8. Awaited'
      BY <2>0, <2>1, <2>5, <2>6 DEF Joins, Tended, Awaited
    <2>9. LeftEmpty'
      BY <2>2, <2>3, <2>4, <2>6, KnownChannels DEF Tended, LeftEmpty, Leavers
    <2>10. CutByLeavers'
      BY <2>2, <2>3, <2>4, <2>5, KnownChannels DEF Tended, CutByLeavers
    <2> QED BY <2>7, <2>8, <2>9, <2>10 DEF Tended
  <1>11. ASSUME NEW c \in Client, Subscribed(c) PROVE Tended'
    BY <1>11 DEF Subscribed, Tended, Fresh, Awaited, LeftEmpty, CutByLeavers, Attended, Leavers, OnItsChannel, ServiceTyped, ClientsTyped, Subscribing, Channel, service, clients, events
  <1>12. ASSUME NEW c \in Client, GiveUp(c) PROVE Tended'
    <2>0. GaveUp(c)
      BY <1>12, GiveUpDoes
    <2>1. \A k \in Channel : watch'[k] = watch[k] \/ (watch[k] \in {"reading", "waiting"} /\ watch'[k] = "cut")
      BY <2>0 DEF GaveUp
    <2>2. \A k \in Channel : subs'[k] \subseteq subs[k]
      BY <2>0 DEF GaveUp
    <2>3. /\ UNCHANGED made /\ (~crossed' => ~crossed)
          /\ \A d \in Client : at'[d] \in {"leaving", "popping"} => at'[d] = at[d] /\ on'[d] = on[d]
          /\ \A d \in Client : at[d] \in {"leaving", "popping"} => at'[d] = at[d] /\ on'[d] = on[d]
      <3>1. at[c] \notin {"leaving", "popping"} /\ at'[c] \notin {"leaving", "popping"}
        BY <2>0 DEF GaveUp
      <3> QED BY <2>0, <3>1 DEF GaveUp
    <2>4. Fresh'
      BY <2>1, <2>2, <2>3 DEF Tended, Fresh
    <2>5. Awaited'
      BY <2>0, <2>3 DEF GaveUp, Tended, Awaited, Leavers, Channel
    <2>6. LeftEmpty'
      BY <2>2, <2>3, KnownChannels DEF Tended, LeftEmpty
    <2>7. CutByLeavers'
      BY <2>1, <2>3, KnownChannels DEF Tended, CutByLeavers
    <2> QED BY <2>4, <2>5, <2>6, <2>7 DEF Tended
  <1>13. ASSUME NEW c \in Client, Disconnect(c) PROVE Tended'
    <2>0. Departed(c)
      BY <1>13, DisconnectDoes
    <2>1. \A k \in Channel : watch'[k] = watch[k] \/ (watch[k] \in {"reading", "waiting"} /\ watch'[k] = "cut")
      <3> SUFFICES ASSUME NEW k \in Channel
                   PROVE  watch'[k] = watch[k] \/ (watch[k] \in {"reading", "waiting"} /\ watch'[k] = "cut")
        OBVIOUS
      <3>1. CASE k # current
        BY <2>0, <3>1 DEF Departed
      <3>2. CASE k = current
        BY <2>0, <3>2 DEF Departed
      <3> QED BY <3>1, <3>2
    <2>2. \A k \in Channel : subs'[k] \subseteq subs[k]
      BY <2>0 DEF Departed
    <2>3. \A d \in Client \ {c} : at'[d] = at[d] /\ on'[d] = on[d]
      BY <2>0 DEF Departed
    <2>4. UNCHANGED <<made, crossed, current>> /\ at[c] = "in"
      BY <2>0 DEF Departed
    <2>5. \/ at'[c] = "out" /\ UNCHANGED watch
          \/ /\ current \in Channel /\ subs'[current] = {} /\ on'[c] = current
             /\ \/ at'[c] = "popping" /\ watch[current] = "over"
                \/ at'[c] = "leaving" /\ watch[current] # "over"
             /\ watch'[current] = IF watch[current] \in {"reading", "waiting"} THEN "cut" ELSE watch[current]
             /\ \A k \in Channel \ {current} : watch'[k] = watch[k]
      BY <2>0 DEF Departed
    <2>6. Fresh'
      BY <2>1, <2>2, <2>4 DEF Tended, Fresh
    <2>7. Awaited'
      <3> SUFFICES ASSUME ~crossed, NEW k \in Channel, k = current, watch'[k] = "cut" PROVE Leavers(k)' # {}
        BY <2>4 DEF Awaited
      <3>1. CASE watch[k] = "cut"
        <4>1. PICK d \in Client : at[d] \in {"leaving", "popping"} /\ on[d] = k
          BY <3>1 DEF Tended, Awaited, Leavers
        <4>2. d # c
          BY <2>4, <4>1
        <4> QED BY <2>3, <4>1, <4>2 DEF Leavers
      <3>2. CASE watch[k] # "cut"
        <4>1. at'[c] \in {"leaving", "popping"} /\ on'[c] = k
          BY <2>5, <3>2
        <4> QED BY <4>1 DEF Leavers
      <3> QED BY <3>1, <3>2
    <2>8. LeftEmpty'
      BY <2>2, <2>3, <2>4, <2>5, KnownChannels DEF Tended, LeftEmpty
    <2>9. CutByLeavers'
      <3>1. current \in Channel => watch[current] # "none"
        BY DEF Tended, Fresh, ServiceTyped, Channel
      <3>2. current \in Channel => watch[current] \in {"reading", "waiting", "cut", "over"}
        BY <3>1 DEF ServiceTyped
      <3> QED BY <2>1, <2>3, <2>5, <3>2, KnownChannels DEF Tended, CutByLeavers
    <2> QED BY <2>6, <2>7, <2>8, <2>9 DEF Tended
  <1>14. ASSUME NEW c \in Client, Left(c) PROVE Tended'
    BY <1>14 DEF Left, Pop, Tended, Fresh, Awaited, LeftEmpty, CutByLeavers, Attended, Leavers, OnItsChannel, ServiceTyped, ClientsTyped, Subscribing, Channel, service, clients, events
  <1>15. ASSUME NEW c \in Client, OnSnapshot(c) PROVE Tended'
    BY <1>15 DEF OnSnapshot, Snapshot, Tended, Fresh, Awaited, LeftEmpty, CutByLeavers, Attended, Leavers, OnItsChannel, ServiceTyped, ClientsTyped, Subscribing, Channel, service, clients, events
  <1>16. ASSUME NEW c \in Client, OnChanges(c) PROVE Tended'
    BY <1>16 DEF OnChanges, Take, Tended, Fresh, Awaited, LeftEmpty, CutByLeavers, Attended, Leavers, OnItsChannel, ServiceTyped, ClientsTyped, Subscribing, Channel, service, clients, events
  <1>17. ASSUME NEW p \in Page, ServerReads(p) PROVE Tended'
    BY <1>17 DEF ServerReads, Tended, Fresh, Awaited, LeftEmpty, CutByLeavers, Attended, Leavers, OnItsChannel, ServiceTyped, ClientsTyped, Subscribing, Channel, service, clients, events
  <1>18. ASSUME NEW p \in Page, FirstShown(p) PROVE Tended'
    BY <1>18 DEF FirstShown, Tended, Fresh, Awaited, LeftEmpty, CutByLeavers, Attended, Leavers, OnItsChannel, ServiceTyped, ClientsTyped, Subscribing, Channel, service, clients, events
  <1>19. ASSUME NEW p \in Page, LoadShown(p) PROVE Tended'
    BY <1>19 DEF LoadShown, LoadEnds, Tended, Fresh, Awaited, LeftEmpty, CutByLeavers, Attended, Leavers, OnItsChannel, ServiceTyped, ClientsTyped, Subscribing, Channel, service, clients, events
  <1>20. CASE UNCHANGED vars
    BY <1>20 DEF vars, Tended, Fresh, Awaited, LeftEmpty, CutByLeavers, Attended, Leavers, OnItsChannel, ServiceTyped, ClientsTyped, Subscribing, Channel, service, clients, events
  <1>21. ASSUME NEW p \in Page, FirstFails(p) PROVE Tended'
    BY <1>21 DEF FirstFails, Failure, service, clients, Tended, Fresh, Awaited, LeftEmpty, CutByLeavers, Attended, Leavers, OnItsChannel, ServiceTyped, ClientsTyped, Subscribing, Channel, service, clients, events
  <1>22. ASSUME NEW p \in Page, LoadFails(p) PROVE Tended'
    BY <1>22 DEF LoadFails, LoadEnds, Failure, service, clients, Tended, Fresh, Awaited, LeftEmpty, CutByLeavers, Attended, Leavers, OnItsChannel, ServiceTyped, ClientsTyped, Subscribing, Channel, service, clients, events
  <1> QED BY <1>1, <1>2, <1>3, <1>4, <1>5, <1>6, <1>7, <1>8, <1>9, <1>10, <1>11, <1>12, <1>13, <1>14, <1>15, <1>16, <1>17, <1>18, <1>19, <1>20, <1>21, <1>22 DEF Next, Service

LEMMA AttendedStep ==
  ASSUME ServiceTyped, ClientsTyped, QueuesTyped, OnItsChannel, Tended, Attended, [Next]_vars
  PROVE  Attended'
  <1>1. ASSUME Write PROVE Attended'
    BY <1>1 DEF Write, Tended, Attended, Leavers, OnItsChannel, ServiceTyped, ClientsTyped, Subscribing, Channel, service, clients, events
  <1>2. ASSUME ApplyBatch PROVE Attended'
    BY <1>2 DEF ApplyBatch, Tended, Attended, Leavers, OnItsChannel, ServiceTyped, ClientsTyped, Subscribing, Channel, service, clients, events
  <1>3. ASSUME NEW k \in Channel, ReadFiles(k) PROVE Attended'
    BY <1>3 DEF ReadFiles, Tended, Attended, Leavers, OnItsChannel, ServiceTyped, ClientsTyped, Subscribing, Channel, service, clients, events
  <1>4. ASSUME NEW k \in Channel, ApplyScan(k) PROVE Attended'
    <2>0. Scanned(k)
      BY <1>4, ScanDoes
    <2> QED BY <2>0 DEF Scanned, Attended, ServiceTyped, ClientsTyped
  <1>5. ASSUME NEW k \in Channel, ScanFails(k) PROVE Attended'
    <2>1. /\ \A j \in Channel : watch'[j] = IF j = k THEN "waiting" ELSE watch[j]
          /\ \A c \in Client : at'[c] = IF at[c] = "joining" /\ on[c] = k THEN "freed" ELSE at[c]
          /\ UNCHANGED <<current, subs, on, crossed>>
      BY <1>5 DEF ScanFails, ScanDone, Release, ServiceTyped
    <2> QED BY <2>1 DEF Attended, ServiceTyped
  <1>6. ASSUME NEW k \in Channel, WakeUp(k) PROVE Attended'
    <2>1. /\ watch[k] = "waiting" /\ (subs[k] # {} => watch' = [watch EXCEPT ![k] = "reading"])
          /\ \E w \in {"over", "reading"} : watch' = [watch EXCEPT ![k] = w]
          /\ UNCHANGED <<current, subs, at, on, crossed>>
      BY <1>6 DEF WakeUp, clients
    <2> QED BY <2>1 DEF Attended, ServiceTyped
  <1>7. ASSUME NEW k \in Channel, WatchEnds(k) PROVE Attended'
    BY <1>7 DEF WatchEnds, Tended, Attended, Leavers, OnItsChannel, ServiceTyped, ClientsTyped, Subscribing, Channel, service, clients, events
  <1>8. ASSUME NEW b \in rebuilds, RebuildDone(b) PROVE Attended'
    <2>0. Rebuilt(b)
      BY <1>8, RebuildDoes
    <2> QED BY <2>0 DEF Rebuilt, Attended, ServiceTyped, ClientsTyped
  <1>9. ASSUME NEW b \in rebuilds, RebuildFails(b) PROVE Attended'
    BY <1>9 DEF RebuildFails, Tended, Attended, Leavers, OnItsChannel, ServiceTyped, ClientsTyped, Subscribing, Channel, service, clients, events
  <1>10. ASSUME NEW c \in Client, Subscribe(c) PROVE Attended'
    <2>0. Joins(c)
      BY <1>10, SubscribeJoins
    <2> SUFFICES ASSUME ~crossed', NEW k \in Channel, NEW d \in subs'[k]
                 PROVE  /\ at'[d] \in {"joining", "freed", "in"} /\ on'[d] = k
                        /\ k = current'
                        /\ watch'[k] \in {"reading", "waiting"}
      BY DEF Attended
    <2>1. ~crossed /\ Leavers(Joined) = {} /\ current' = Joined
      BY <2>0 DEF Joins
    <2>2. at'[c] \in {"in", "joining"} /\ on'[c] = Joined
      BY <2>0 DEF Joins, ClientsTyped
    <2>3. d # c => d \in subs[k] /\ at'[d] = at[d] /\ on'[d] = on[d]
      BY <2>0 DEF Joins, ClientsTyped, ServiceTyped
    <2>4. d = c => k = Joined
      BY <1>10, <2>0 DEF Joins, Subscribe, ServiceTyped
    <2>5. d # c => k = current /\ current = Joined
      BY <2>0, <2>1, <2>3 DEF Joins, Attended, Joined, Channel
    <2>6. watch[Joined] # "cut"
      <3>1. CASE current = 0
        <4>1. Joined > made /\ Joined \in Channel
          BY <2>0, <3>1 DEF Joins, ServiceTyped
        <4> QED BY <4>1 DEF Tended, Fresh
      <3>2. CASE current # 0
        BY <2>0, <2>1, <3>2 DEF Joins, Tended, Awaited
      <3> QED BY <3>1, <3>2
    <2>7. watch'[Joined] \in {"reading", "waiting"}
      BY <2>0, <2>6 DEF Joins, ServiceTyped
    <2> QED BY <2>1, <2>2, <2>3, <2>4, <2>5, <2>7 DEF Attended
  <1>11. ASSUME NEW c \in Client, Subscribed(c) PROVE Attended'
    BY <1>11 DEF Subscribed, Tended, Attended, Leavers, OnItsChannel, ServiceTyped, ClientsTyped, Subscribing, Channel, service, clients, events
  <1>12. ASSUME NEW c \in Client, GiveUp(c) PROVE Attended'
    <2>0. GaveUp(c)
      BY <1>12, GiveUpDoes
    <2> SUFFICES ASSUME ~crossed', NEW k \in Channel, NEW d \in subs'[k]
                 PROVE  /\ at'[d] \in {"joining", "freed", "in"} /\ on'[d] = k
                        /\ k = current'
                        /\ watch'[k] \in {"reading", "waiting"}
      BY DEF Attended
    <2>1. ~crossed /\ d \in subs[k] /\ d \in Client
      BY <2>0 DEF GaveUp, ServiceTyped
    <2>2. k = current /\ on[d] = k /\ at[d] \in {"joining", "freed", "in"} /\ watch[k] \in {"reading", "waiting"}
      BY <2>1 DEF Attended
    <2>3. d # c
      BY <2>0, <2>2 DEF GaveUp
    <2>4. UNCHANGED <<watch, current>>
      <3>1. current # 0
        BY <2>2 DEF Channel
      <3> QED BY <2>0, <2>1, <2>2, <2>3, <3>1 DEF GaveUp
    <2> QED BY <2>0, <2>1, <2>2, <2>3, <2>4 DEF GaveUp
  <1>13. ASSUME NEW c \in Client, Disconnect(c) PROVE Attended'
    <2>0. Departed(c)
      BY <1>13, DisconnectDoes
    <2> SUFFICES ASSUME ~crossed', NEW k \in Channel, NEW d \in subs'[k]
                 PROVE  /\ at'[d] \in {"joining", "freed", "in"} /\ on'[d] = k
                        /\ k = current'
                        /\ watch'[k] \in {"reading", "waiting"}
      BY DEF Attended
    <2>1. ~crossed /\ d \in subs[k] /\ UNCHANGED current
      BY <2>0 DEF Departed
    <2>2. k = current /\ on[d] = k /\ at[d] \in {"joining", "freed", "in"} /\ watch[k] \in {"reading", "waiting"}
      BY <2>1 DEF Attended
    <2>3. d # c /\ UNCHANGED watch
      BY <2>0, <2>2 DEF Departed
    <2> QED BY <2>0, <2>1, <2>2, <2>3, ServiceTyped DEF Departed, ServiceTyped
  <1>14. ASSUME NEW c \in Client, Left(c) PROVE Attended'
    <2>1. /\ at[c] = "popping" /\ current' = 0 /\ crossed' = (crossed \/ current \notin {0, on[c]})
          /\ UNCHANGED <<subs, watch>>
      BY <1>14 DEF Left, Pop
    <2>2. ~crossed' => ~crossed /\ current \in {0, on[c]}
      BY <2>1
    <2>3. ~crossed' => \A k \in Channel : subs[k] = {}
      <3> SUFFICES ASSUME ~crossed', NEW k \in Channel, NEW d \in subs[k] PROVE FALSE
        OBVIOUS
      <3>1. k = current
        BY <2>2 DEF Attended
      <3>2. k = on[c]
        BY <2>2, <3>1 DEF Channel
      <3> QED BY <2>1, <2>2, <3>2 DEF Tended, LeftEmpty
    <2> QED BY <2>1, <2>3 DEF Attended
  <1>15. ASSUME NEW c \in Client, OnSnapshot(c) PROVE Attended'
    BY <1>15 DEF OnSnapshot, Snapshot, Tended, Attended, Leavers, OnItsChannel, ServiceTyped, ClientsTyped, Subscribing, Channel, service, clients, events
  <1>16. ASSUME NEW c \in Client, OnChanges(c) PROVE Attended'
    BY <1>16 DEF OnChanges, Take, Tended, Attended, Leavers, OnItsChannel, ServiceTyped, ClientsTyped, Subscribing, Channel, service, clients, events
  <1>17. ASSUME NEW p \in Page, ServerReads(p) PROVE Attended'
    BY <1>17 DEF ServerReads, Tended, Attended, Leavers, OnItsChannel, ServiceTyped, ClientsTyped, Subscribing, Channel, service, clients, events
  <1>18. ASSUME NEW p \in Page, FirstShown(p) PROVE Attended'
    BY <1>18 DEF FirstShown, Tended, Attended, Leavers, OnItsChannel, ServiceTyped, ClientsTyped, Subscribing, Channel, service, clients, events
  <1>19. ASSUME NEW p \in Page, LoadShown(p) PROVE Attended'
    BY <1>19 DEF LoadShown, LoadEnds, Tended, Attended, Leavers, OnItsChannel, ServiceTyped, ClientsTyped, Subscribing, Channel, service, clients, events
  <1>20. CASE UNCHANGED vars
    BY <1>20 DEF vars, Tended, Attended, Leavers, OnItsChannel, ServiceTyped, ClientsTyped, Subscribing, Channel, service, clients, events
  <1>21. ASSUME NEW p \in Page, FirstFails(p) PROVE Attended'
    BY <1>21 DEF FirstFails, Failure, service, clients, Tended, Attended, Leavers, OnItsChannel, ServiceTyped, ClientsTyped, Subscribing, Channel, service, clients, events
  <1>22. ASSUME NEW p \in Page, LoadFails(p) PROVE Attended'
    BY <1>22 DEF LoadFails, LoadEnds, Failure, service, clients, Tended, Attended, Leavers, OnItsChannel, ServiceTyped, ClientsTyped, Subscribing, Channel, service, clients, events
  <1> QED BY <1>1, <1>2, <1>3, <1>4, <1>5, <1>6, <1>7, <1>8, <1>9, <1>10, <1>11, <1>12, <1>13, <1>14, <1>15, <1>16, <1>17, <1>18, <1>19, <1>20, <1>21, <1>22 DEF Next, Service

(***************************************************************************)
(* What the page shows.                                                    *)
(***************************************************************************)

LEMMA LoadFacts ==
  /\ None # Asked /\ None.got = NoContents
  /\ \A x : Answer(x) \notin {None, Asked} /\ Answer(x).got = x
  /\ \A l : l.st = "read" => l \notin {None, Asked}
  BY DEF None, Asked, Answer

\* What tells a page nothing leaves its loads as good as they were.
LEMMA TellsNothing ==
  ASSUME PagesLoad, UNCHANGED <<told, pages>>
  PROVE  PagesLoad'
  BY DEF PagesLoad, Loaded, pages

\* A page that asks to load will show what it is told.
LEMMA RefreshLoads ==
  ASSUME PagesTyped, NEW p \in Page, Refresh(p)
  PROVE  /\ again'[p] \/ load'[p] = Asked
         /\ again'[p] => load'[p] # None
         /\ \A q \in Page \ {p} : again'[q] = again[q] /\ load'[q] = load[q] /\ missed'[q] = missed[q]
  BY LoadFacts DEF Refresh, PagesTyped

LEMMA Numbers ==
  ASSUME ServiceTyped, ClientsTyped, PagesTyped, PageAssumption, NEW p \in Page
  PROVE  /\ files \in Int /\ told[p] \in Int /\ told[p] <= files /\ shown[p] \in Int
         /\ first[p].got \in Int /\ load[p].got \in Int
         /\ greeting[p] # NotRead => greeting[p] \in Int
  BY EventBounds DEF ServiceTyped, ClientsTyped, PagesTyped, Known, Newest, Contents, Loads, None, Asked, NoContents

LEMMA PagesLoadStep ==
  ASSUME ServiceTyped, ClientsTyped, PagesTyped, PagesLoad, [Next]_vars
  PROVE  PagesLoad'
  <1>1. ASSUME Write, UNCHANGED pages PROVE PagesLoad'
    BY <1>1, TellsNothing DEF Write, clients
  <1>2. ASSUME ApplyBatch, UNCHANGED pages PROVE PagesLoad'
    BY <1>2, TellsNothing DEF ApplyBatch, clients
  <1>3. ASSUME NEW k \in Channel, ReadFiles(k), UNCHANGED pages PROVE PagesLoad'
    BY <1>3, TellsNothing DEF ReadFiles, clients
  <1>4. ASSUME NEW k \in Channel, ApplyScan(k), UNCHANGED pages PROVE PagesLoad'
    BY <1>4, TellsNothing DEF ApplyScan, Broadcast, ScanDone, Release, clients
  <1>5. ASSUME NEW k \in Channel, ScanFails(k), UNCHANGED pages PROVE PagesLoad'
    BY <1>5, TellsNothing DEF ScanFails, ScanDone, Release, clients
  <1>6. ASSUME NEW k \in Channel, WakeUp(k), UNCHANGED pages PROVE PagesLoad'
    BY <1>6, TellsNothing DEF WakeUp, clients
  <1>7. ASSUME NEW k \in Channel, WatchEnds(k), UNCHANGED pages PROVE PagesLoad'
    BY <1>7, TellsNothing DEF WatchEnds, clients
  <1>8. ASSUME NEW b \in rebuilds, RebuildDone(b), UNCHANGED pages PROVE PagesLoad'
    BY <1>8, TellsNothing DEF RebuildDone, Broadcast, clients
  <1>9. ASSUME NEW b \in rebuilds, RebuildFails(b), UNCHANGED pages PROVE PagesLoad'
    BY <1>9, TellsNothing DEF RebuildFails, clients
  <1>10. ASSUME NEW c \in Client, Subscribe(c), UNCHANGED pages PROVE PagesLoad'
    BY <1>10, TellsNothing DEF Subscribe, clients
  <1>11. ASSUME NEW c \in Client, Subscribed(c), UNCHANGED pages PROVE PagesLoad'
    BY <1>11, TellsNothing DEF Subscribed, clients
  <1>12. ASSUME NEW c \in Client, GiveUp(c), UNCHANGED pages PROVE PagesLoad'
    BY <1>12, TellsNothing DEF GiveUp, Pop, Cancelled, clients
  <1>13. ASSUME NEW c \in Client, Disconnect(c), UNCHANGED pages PROVE PagesLoad'
    BY <1>13, TellsNothing DEF Disconnect, Cancelled, clients
  <1>14. ASSUME NEW c \in Client, Left(c), UNCHANGED pages PROVE PagesLoad'
    BY <1>14, TellsNothing DEF Left, Pop, clients
  <1>15. ASSUME NEW c \in Client, OnSnapshot(c) PROVE PagesLoad'
    <2> SUFFICES ASSUME NEW q \in Page PROVE Loaded(q)' /\ (again'[q] => load'[q] # None)
      BY DEF PagesLoad
    <2>1. Loaded(q) /\ (again[q] => load[q] # None)
      BY DEF PagesLoad
    <2>2. told' = [told EXCEPT ![c] = greeting[c]] /\ greeting[c] # NotRead
      BY <1>15 DEF OnSnapshot, Snapshot
    <2>3. CASE c \notin Page
      BY <1>15, <2>1, <2>2, <2>3, PageAssumption DEF OnSnapshot, pages, Loaded, ClientsTyped
    <2>4. CASE c \in Page
      <3>1. /\ UNCHANGED <<shown, first>>
            /\ early' = [early EXCEPT ![c] = @ \/ (told[c] = NoContents /\ Outdated(c, greeting[c]))]
            /\ \/ Refresh(c)
               \/ UNCHANGED <<load, again, missed>> /\ told[c] \in {NoContents, greeting[c]}
        BY <1>15, <2>4 DEF OnSnapshot
      <3>2. CASE q # c
        BY <2>1, <2>2, <2>4, <3>1, <3>2, RefreshLoads DEF Loaded, ClientsTyped, PagesTyped
      <3>3. CASE q = c /\ Refresh(c)
        BY <3>3, RefreshLoads DEF Loaded
      <3>4. CASE q = c /\ UNCHANGED <<load, again, missed>> /\ told[c] = greeting[c]
        <4>1. told'[q] = told[q] /\ (early[q] => early'[q])
          BY <2>2, <2>4, <3>1, <3>4, PageAssumption DEF ClientsTyped, PagesTyped
        <4> QED BY <2>1, <3>1, <3>4, <4>1 DEF Loaded
      <3>5. CASE q = c /\ UNCHANGED <<load, again, missed>> /\ told[c] = NoContents
        <4>1. told'[q] = greeting[q] /\ (~early'[q] => ~Outdated(q, greeting[q]))
          BY <2>2, <2>4, <3>1, <3>5, PageAssumption DEF ClientsTyped, PagesTyped
        <4>2. ~Outdated(q, greeting[q]) =>
                \/ Asked \in {first[q], load[q]}
                \/ \E got \in {first[q].got, load[q].got, shown[q]} : got >= greeting[q]
          BY <2>2, <3>5, Numbers, PageAssumption DEF Outdated
        <4> QED BY <2>1, <3>1, <3>5, <4>1, <4>2 DEF Loaded
      <3> QED BY <3>1, <3>2, <3>3, <3>4, <3>5
    <2> QED BY <2>3, <2>4
  <1>16. ASSUME NEW c \in Client, OnChanges(c) PROVE PagesLoad'
    <2> SUFFICES ASSUME NEW q \in Page PROVE Loaded(q)' /\ (again'[q] => load'[q] # None)
      BY DEF PagesLoad
    <2>1. Loaded(q) /\ (again[q] => load[q] # None)
      BY DEF PagesLoad
    <2>2. \A d \in Client \ {c} : told'[d] = told[d]
      BY <1>16 DEF OnChanges, Take, ClientsTyped
    <2>3. CASE c \notin Page
      BY <1>16, <2>1, <2>2, <2>3, PageAssumption DEF OnChanges, pages, Loaded
    <2>4. CASE c \in Page
      <3>1. UNCHANGED <<shown, first, early>> /\ Refresh(c)
        BY <1>16, <2>4 DEF OnChanges
      <3>2. CASE q # c
        BY <2>1, <2>2, <2>4, <3>1, <3>2, RefreshLoads, PageAssumption DEF Loaded
      <3>3. CASE q = c
        BY <3>1, <3>3, RefreshLoads DEF Loaded
      <3> QED BY <3>2, <3>3
    <2> QED BY <2>3, <2>4
  <1>17. ASSUME NEW p \in Page, ServerReads(p) PROVE PagesLoad'
    <2> SUFFICES ASSUME NEW q \in Page PROVE Loaded(q)' /\ (again'[q] => load'[q] # None)
      BY DEF PagesLoad
    <2>1. Loaded(q) /\ (again[q] => load[q] # None)
      BY DEF PagesLoad
    <2>2. UNCHANGED <<told, files, shown, again, early, missed>>
      BY <1>17 DEF ServerReads, events, clients
    <2>3. CASE q # p
      <3>1. first'[q] = first[q] /\ load'[q] = load[q]
        BY <1>17, <2>3 DEF ServerReads, PagesTyped
      <3> QED BY <2>1, <2>2, <3>1 DEF Loaded
    <2>4. CASE q = p
      <3>1. \/ first'[q] = Answer(files) /\ load'[q] = load[q]
            \/ load'[q] = Answer(files) /\ first'[q] = first[q]
        BY <1>17, <2>4 DEF ServerReads, PagesTyped
      <3>2. files >= told[q]
        BY Numbers, PageAssumption
      <3> QED BY <2>1, <2>2, <3>1, <3>2, LoadFacts DEF Loaded
    <2> QED BY <2>3, <2>4
  <1>18. ASSUME NEW p \in Page, FirstShown(p) PROVE PagesLoad'
    <2> SUFFICES ASSUME NEW q \in Page PROVE Loaded(q)' /\ (again'[q] => load'[q] # None)
      BY DEF PagesLoad
    <2>1. Loaded(q) /\ (again[q] => load[q] # None)
      BY DEF PagesLoad
    <2>2. UNCHANGED <<told, load, again, missed>>
      BY <1>18 DEF FirstShown, events, clients
    <2>3. CASE q # p
      <3>1. first'[q] = first[q] /\ shown'[q] = shown[q] /\ early'[q] = early[q]
        BY <1>18, <2>3 DEF FirstShown, PagesTyped
      <3> QED BY <2>1, <2>2, <3>1 DEF Loaded
    <2>4. CASE q = p
      <3>1. shown'[q] = first[q].got /\ (~early'[q] => ~early[q] /\ ~(first[q].got < shown[q]))
        BY <1>18, <2>4 DEF FirstShown, PagesTyped
      <3>2. first[q] # Asked
        BY <1>18, <2>4, LoadFacts DEF FirstShown
      <3>3. ~early'[q] => shown'[q] >= first[q].got /\ shown'[q] >= shown[q]
        BY <3>1, Numbers, PageAssumption
      <3>4. ~early'[q] /\ told[q] \in Int =>
              \A got \in {first[q].got, shown[q]} : got >= told[q] => shown'[q] >= told[q]
        BY <3>1, <3>3, Numbers, PageAssumption
      <3> QED BY <2>1, <2>2, <3>1, <3>2, <3>4, Numbers, PageAssumption DEF Loaded
    <2> QED BY <2>3, <2>4
  <1>19. ASSUME NEW p \in Page, LoadShown(p) PROVE PagesLoad'
    <2> SUFFICES ASSUME NEW q \in Page PROVE Loaded(q)' /\ (again'[q] => load'[q] # None)
      BY DEF PagesLoad
    <2>1. Loaded(q) /\ (again[q] => load[q] # None)
      BY DEF PagesLoad
    <2>2. UNCHANGED <<told, first, missed>>
      BY <1>19 DEF LoadShown, LoadEnds, events, clients
    <2>3. CASE q # p
      <3>1. load'[q] = load[q] /\ again'[q] = again[q] /\ shown'[q] = shown[q] /\ early'[q] = early[q]
        BY <1>19, <2>3 DEF LoadShown, LoadEnds, PagesTyped
      <3> QED BY <2>1, <2>2, <3>1 DEF Loaded
    <2>4. CASE q = p
      <3>1. shown'[q] = load[q].got /\ (~early'[q] => ~early[q] /\ ~(load[q].got < shown[q]))
        BY <1>19, <2>4 DEF LoadShown, LoadEnds, PagesTyped
      <3>2. load[q] # Asked /\ ~again'[q] /\ (again[q] => load'[q] = Asked)
        BY <1>19, <2>4, LoadFacts DEF LoadShown, LoadEnds, PagesTyped
      <3>3. ~early'[q] => shown'[q] >= load[q].got /\ shown'[q] >= shown[q]
        BY <3>1, Numbers, PageAssumption
      <3>4. ~early'[q] /\ told[q] \in Int =>
              \A got \in {load[q].got, shown[q]} : got >= told[q] => shown'[q] >= told[q]
        BY <3>1, <3>3, Numbers, PageAssumption
      <3> QED BY <2>1, <2>2, <3>1, <3>2, <3>4, Numbers, PageAssumption DEF Loaded
    <2> QED BY <2>3, <2>4
  <1>20. CASE UNCHANGED vars
    BY <1>20, TellsNothing DEF vars, events, clients
  <1>21. ASSUME NEW p \in Page, FirstFails(p) PROVE PagesLoad'
    <2> SUFFICES ASSUME NEW q \in Page PROVE Loaded(q)' /\ (again'[q] => load'[q] # None)
      BY DEF PagesLoad
    <2>1. Loaded(q) /\ (again[q] => load[q] # None)
      BY DEF PagesLoad
    <2>2. UNCHANGED <<told, load, again, early>>
      BY <1>21 DEF FirstFails, Failure, clients
    <2>3. CASE q # p
      <3>1. first'[q] = first[q] /\ shown'[q] = shown[q] /\ missed'[q] = missed[q]
        BY <1>21, <2>3 DEF FirstFails, PagesTyped
      <3> QED BY <2>1, <2>2, <3>1 DEF Loaded
    <2>4. CASE q = p
      <3>1. missed'[q] = (~again[q] /\ load[q] # Asked)
        BY <1>21, <2>4 DEF FirstFails, PagesTyped
      <3> QED BY <2>1, <2>2, <3>1 DEF Loaded
    <2> QED BY <2>3, <2>4
  <1>22. ASSUME NEW p \in Page, LoadFails(p) PROVE PagesLoad'
    <2> SUFFICES ASSUME NEW q \in Page PROVE Loaded(q)' /\ (again'[q] => load'[q] # None)
      BY DEF PagesLoad
    <2>1. Loaded(q) /\ (again[q] => load[q] # None)
      BY DEF PagesLoad
    <2>2. UNCHANGED <<told, first, shown, early>>
      BY <1>22 DEF LoadFails, Failure, clients
    <2>3. CASE q # p
      <3>1. load'[q] = load[q] /\ again'[q] = again[q] /\ missed'[q] = missed[q]
        BY <1>22, <2>3 DEF LoadFails, LoadEnds, PagesTyped
      <3> QED BY <2>1, <2>2, <3>1 DEF Loaded
    <2>4. CASE q = p
      <3>1. missed'[q] = ~again[q] /\ ~again'[q] /\ (again[q] => load'[q] = Asked)
        BY <1>22, <2>4 DEF LoadFails, LoadEnds, PagesTyped
      <3> QED BY <3>1 DEF Loaded
    <2> QED BY <2>3, <2>4
  <1> QED BY <1>1, <1>2, <1>3, <1>4, <1>5, <1>6, <1>7, <1>8, <1>9, <1>10, <1>11, <1>12, <1>13, <1>14, <1>15, <1>16, <1>17, <1>18, <1>19, <1>20, <1>21, <1>22 DEF Next, Service

(***************************************************************************)
(* The theorems.                                                           *)
(***************************************************************************)

IInv == Typed /\ OnItsChannel /\ LastIsSnapshot /\ Tended /\ Attended /\ PagesLoad

LEMMA TypedIsTypeOK == Typed => TypeOK
  <1> SUFFICES ASSUME Typed PROVE TypeOK
    OBVIOUS
  <1> USE DEF Typed
  <1>1. Known \subseteq Seen /\ Newest \subseteq Contents
    BY EventBounds DEF Known, Newest, Seen, ServiceTyped, Contents, NoContents
  <1>2. 0 .. made \subseteq {0} \cup Channel
    BY EventBounds DEF ServiceTyped, Channel
  <1>3. \A c \in Client : /\ Len(queue[c]) \in 0 .. QueueSize
                          /\ \A i \in DOMAIN queue[c] : queue[c][i] \in Contents
    BY EventBounds DEF QueuesTyped
  <1>4. Loads \subseteq [st : {"none", "asked", "read"}, got : Seen]
    BY <1>1 DEF Loads, None, Asked, NoContents, Seen
  <1>5. {first, load} \subseteq [Page -> [st : {"none", "asked", "read"}, got : Seen]]
    BY <1>4 DEF PagesTyped
  <1>6. rebuilds \subseteq [batch : 1 .. MaxBatches, on : Channel, saw : Contents]
    BY <1>1 DEF ServiceTyped
  <1>7. {again, early, missed} \subseteq [Page -> BOOLEAN]
    BY DEF PagesTyped
  <1>8. /\ files \in Contents /\ current \in {0} \cup Channel
        /\ subs \in [Channel -> SUBSET Client] /\ snap \in [Channel -> Seen]
        /\ ready \in [Channel -> BOOLEAN]
        /\ watch \in [Channel -> {"none", "reading", "waiting", "cut", "over"}]
        /\ read \in [Channel -> Contents \cup {NotRead}] /\ crossed \in BOOLEAN
    BY <1>1, <1>2 DEF ServiceTyped
  <1>9. /\ at \in [Client -> {"out", "joining", "freed", "in", "leaving", "popping"}]
        /\ on \in [Client -> {0} \cup Channel]
        /\ greeting \in [Client -> Seen \cup {NotRead}] /\ told \in [Client -> Seen]
    BY <1>1, <1>2 DEF ClientsTyped
  <1>10. shown \in [Page -> Seen]
    BY <1>1 DEF PagesTyped
  <1> QED BY <1>3, <1>5, <1>6, <1>7, <1>8, <1>9, <1>10 DEF TypeOK

LEMMA InitIInv == Init => IInv
  <1> SUFFICES ASSUME Init PROVE IInv
    OBVIOUS
  <1> USE DEF Init, EventsInit
  <1>1. ServiceTyped
    <2> USE DEF Contents, Known, Newest, NoContents, NotRead
    <2>1. files \in Contents /\ made \in 0 .. MaxChannels /\ current \in 0 .. made /\ batches \in 0 .. MaxBatches
      BY EventBounds
    <2>2. /\ subs \in [Channel -> SUBSET Client] /\ snap \in [Channel -> Known]
          /\ ready \in [Channel -> BOOLEAN] /\ crossed \in BOOLEAN
          /\ watch \in [Channel -> {"none", "reading", "waiting", "cut", "over"}]
          /\ read \in [Channel -> Newest \cup {NotRead}]
      <3>1. NoContents \in Known
        BY EventBounds
      <3> QED BY <3>1
    <2>3. rebuilds = {}
      OBVIOUS
    <2> HIDE DEF Contents, Known, Newest, NoContents, NotRead
    <2> QED BY <2>1, <2>2, <2>3 DEF ServiceTyped
  <1>2. ClientsTyped
    BY EventBounds DEF ClientsTyped, Known, NoContents, NotRead
  <1>3. QueuesTyped
    BY EventBounds DEF QueuesTyped
  <1>4. PagesTyped
    BY EventBounds DEF PagesTyped, Loads, Known, NoContents
  <1>5. OnItsChannel /\ LastIsSnapshot
    BY DEF OnItsChannel, LastIsSnapshot, LastOf, Subscribing
  <1>6. Tended /\ Attended
    BY DEF Tended, Fresh, Awaited, LeftEmpty, CutByLeavers, Attended, Channel
  <1>7. PagesLoad
    BY PageAssumption DEF PagesLoad, Loaded
  <1> QED BY <1>1, <1>2, <1>3, <1>4, <1>5, <1>6, <1>7 DEF IInv, Typed

LEMMA StepIInv ==
  ASSUME IInv, [Next]_vars
  PROVE  IInv'
  <1> USE DEF IInv, Typed
  <1>1. ServiceTyped' /\ ClientsTyped' /\ QueuesTyped' /\ PagesTyped'
    BY ServiceStep, ClientsStep, QueuesStep, PagesStep
  <1>2. OnItsChannel' /\ LastIsSnapshot'
    BY OnItsChannelStep, LastStep
  <1>3. Tended' /\ Attended'
    BY TendedStep, AttendedStep
  <1>4. PagesLoad'
    BY PagesLoadStep
  <1> QED BY <1>1, <1>2, <1>3, <1>4

LEMMA ViewInvariant == Spec => []IInv
  <1>1. IInv /\ [Next]_vars => IInv'
    BY StepIInv
  <1> QED BY InitIInv, <1>1, PTL DEF Spec

\* The variables keep their types: among them, no queue is longer than its
\* bound, as a subscriber is dropped first.
THEOREM ViewTyping == Spec => []TypeOK
  <1>1. IInv => TypeOK
    BY TypedIsTypeOK DEF IInv
  <1> QED BY <1>1, ViewInvariant, PTL

\* Whatever scans, batches, subscriptions and departures overlap, the last
\* message of a follower is about the snapshot the next scan is compared with.
THEOREM NothingMissed == Spec => []NoGap
  <1>1. IInv => NoGap
    <2> SUFFICES ASSUME IInv, NEW c \in Client, Following(c), Latest(c) # NoContents
                 PROVE  Latest(c) = snap[on[c]]
      BY DEF NoGap
    <2>1. LastOf(c)
      BY DEF IInv, LastIsSnapshot
    <2> QED BY <2>1 DEF LastOf, Following, Latest, Subscribing
  <1> QED BY <1>1, ViewInvariant, PTL

\* A channel with a subscriber is the registered one and is being scanned,
\* unless somebody joined one under a leaver's feet.
THEOREM WatchedChannels == Spec => []Attended
  <1>1. IInv => Attended
    BY DEF IInv
  <1> QED BY <1>1, ViewInvariant, PTL

\* A page that has heard everything and is loading nothing shows no less than
\* what the next scan is compared with, unless a load was answered out of order,
\* the first fingerprint was newer than all loads, or a load failed and no later
\* one was called for.
THEOREM PageShowsWhatItHeard == Spec => []UpToDate
  <1>1. IInv => UpToDate
    <2> SUFFICES ASSUME IInv, NEW p \in Page,
                        Following(p), greeting[p] = NotRead, queue[p] = <<>>, told[p] # NoContents,
                        first[p] = None, load[p] = None, ~early[p], ~missed[p]
                 PROVE  shown[p] >= snap[on[p]]
      BY DEF UpToDate
    <2>1. told[p] = snap[on[p]]
      BY PageAssumption DEF IInv, LastIsSnapshot, LastOf, Following, Subscribing
    <2>2. told[p] \in Int /\ told[p] > NoContents
      BY PageAssumption, EventBounds
         DEF IInv, Typed, ClientsTyped, ServiceTyped, Known, Contents, NoContents
    <2>3. Loaded(p) /\ ~again[p]
      BY DEF IInv, PagesLoad
    <2>4. \E got \in {NoContents, shown[p]} : got >= told[p]
      BY <2>3, LoadFacts DEF Loaded
    <2> QED BY <2>1, <2>2, <2>4 DEF NoContents
  <1> QED BY <1>1, ViewInvariant, PTL
=============================================================================
