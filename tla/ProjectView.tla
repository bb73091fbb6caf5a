---------------------------- MODULE ProjectView ----------------------------
(***************************************************************************)
(* A page of the web client that shows a project: it loads the project when *)
(* it opens (frontend/src/router.tsx), follows the event stream and loads   *)
(* the project again on every change (frontend/src/hooks/useProjectEventsSSE *)
(* .ts).  Loads overlap with changes, with reconnections and each other, and *)
(* may fail.                                                                 *)
(***************************************************************************)
EXTENDS ProjectEvents

CONSTANT Page      \* the clients whose page is followed; the others only subscribe

ASSUME PageAssumption == Page \subseteq Client

VARIABLES
  shown,  \* what the page shows, NoContents before the first answer or after its failure
  first,  \* the load of StudioWorkspace: "none", "asked", or what the server read
  load,   \* the load of refreshProject, likewise; refreshingRef is load # "none"
  again,  \* needsRefreshRef
  early,  \* history: an answer replaced a newer one, or none was as new as the
          \* first fingerprint
  missed  \* history: a load has failed, and none is called for since or still to be asked

pages == <<shown, first, load, again, early, missed>>
vars == <<events, pages>>

None == [st |-> "none", got |-> NoContents]
Asked == [st |-> "asked", got |-> NoContents]
Answer(contents) == [st |-> "read", got |-> contents]

Init ==
  /\ EventsInit
  /\ shown = [p \in Page |-> NoContents]
  /\ first = [p \in Page |-> Asked]
  /\ load = [p \in Page |-> None]
  /\ again = [p \in Page |-> FALSE]
  /\ early = [p \in Page |-> FALSE]
  /\ missed = [p \in Page |-> FALSE]

\* refreshProject: one load at a time, one more if a change comes meanwhile.
Refresh(p) ==
  /\ IF load[p] = None THEN load' = [load EXCEPT ![p] = Asked] /\ UNCHANGED again
                       ELSE again' = [again EXCEPT ![p] = TRUE] /\ UNCHANGED load
  /\ missed' = [missed EXCEPT ![p] = FALSE]

\* No load of the page has read contents as new, nor is any still to read.
Outdated(p, contents) ==
  /\ Asked \notin {first[p], load[p]}
  /\ \A got \in {first[p].got, load[p].got, shown[p]} : got < contents

\* Mutant: after a reconnection the page waits for the next change.
OnSnapshotAsFirst(c) == Snapshot(c) /\ UNCHANGED pages

\* onSnapshot: the first fingerprint is taken for that of what the page shows.
OnSnapshot(c) ==
  /\ Snapshot(c)
  /\ IF c \notin Page THEN UNCHANGED pages
     ELSE LET fingerprint == greeting[c]
              refresh == told[c] # NoContents /\ told[c] # fingerprint
          IN  /\ IF refresh THEN Refresh(c) ELSE UNCHANGED <<load, again, missed>>
              /\ early' = [early EXCEPT ![c] = @ \/ (told[c] = NoContents /\ Outdated(c, fingerprint))]
              /\ UNCHANGED <<shown, first>>

OnChanges(c) ==
  /\ Take(c)
  /\ IF c \in Page THEN Refresh(c) /\ UNCHANGED <<shown, first, early>> ELSE UNCHANGED pages

\* GET /projects/{name}: the server reads the files ...
ServerReads(p) ==
  /\ \/ first[p] = Asked /\ first' = [first EXCEPT ![p] = Answer(files)] /\ UNCHANGED load
     \/ load[p] = Asked /\ load' = [load EXCEPT ![p] = Answer(files)] /\ UNCHANGED first
  /\ UNCHANGED <<events, shown, again, early, missed>>

\* ... and the answer replaces what is shown, of whatever age it is.
FirstShown(p) ==
  /\ first[p].st = "read"
  /\ shown' = [shown EXCEPT ![p] = first[p].got]
  /\ first' = [first EXCEPT ![p] = None]
  /\ early' = [early EXCEPT ![p] = @ \/ first[p].got < shown[p]]
  /\ UNCHANGED <<events, load, again, missed>>

\* Successful or not, a load is followed by the one that was called for meanwhile.
LoadEnds(p) ==
  /\ load' = [load EXCEPT ![p] = IF again[p] THEN Asked ELSE None]
  /\ again' = [again EXCEPT ![p] = FALSE]

LoadShown(p) ==
  /\ load[p].st = "read"
  /\ shown' = [shown EXCEPT ![p] = load[p].got]
  /\ LoadEnds(p)
  /\ early' = [early EXCEPT ![p] = @ \/ load[p].got < shown[p]]
  /\ UNCHANGED <<events, first, missed>>

\* A request, or its answer, fails.  Nothing tries again before the next change,
\* and the fingerprint that called for the load has been taken already.
Failure ==
  /\ failures < MaxFailures
  /\ failures' = failures + 1
  /\ UNCHANGED <<files, service, clients, made, joins, batches, crossed, early>>

\* The first load leaves the page empty, whatever it showed, ...
FirstFails(p) ==
  /\ first[p] # None
  /\ first' = [first EXCEPT ![p] = None]
  /\ shown' = [shown EXCEPT ![p] = NoContents]
  /\ Failure
  /\ missed' = [missed EXCEPT ![p] = ~again[p] /\ load[p] # Asked]
  /\ UNCHANGED <<load, again>>

\* Mutant: a failing load leaves the flags as they are and is the last one.
LoadFailsForGood(p) ==
  /\ load[p] # None
  /\ load' = [load EXCEPT ![p] = None]
  /\ Failure
  /\ missed' = [missed EXCEPT ![p] = ~again[p]]
  /\ UNCHANGED <<first, shown, again>>

\* ... one of refreshProject leaves it as it is.
LoadFails(p) ==
  /\ load[p] # None
  /\ LoadEnds(p)
  /\ Failure
  /\ missed' = [missed EXCEPT ![p] = ~again[p]]
  /\ UNCHANGED <<first, shown>>

Service ==
  \/ Write \/ ApplyBatch
  \/ \E k \in Channel : ReadFiles(k) \/ ApplyScan(k) \/ ScanFails(k) \/ WakeUp(k) \/ WatchEnds(k)
  \/ \E b \in rebuilds : RebuildDone(b) \/ RebuildFails(b)
  \/ \E c \in Client : Subscribe(c) \/ Subscribed(c) \/ GiveUp(c) \/ Disconnect(c) \/ Left(c)

Next ==
  \/ Service /\ UNCHANGED pages
  \/ \E c \in Client : OnSnapshot(c) \/ OnChanges(c)
  \/ \E p \in Page : ServerReads(p) \/ FirstShown(p) \/ LoadShown(p) \/ FirstFails(p) \/ LoadFails(p)

Spec == Init /\ [][Next]_vars

\* The event loop runs what is ready, threads and requests come to an end, the
\* poll interval passes.  Clients, writers and failures are not fair.
FairSpec ==
  /\ Spec
  /\ \A k \in Channel :
       WF_vars((ReadFiles(k) \/ ApplyScan(k) \/ WakeUp(k) \/ WatchEnds(k)) /\ UNCHANGED pages)
  /\ WF_vars((\E b \in rebuilds : RebuildDone(b)) /\ UNCHANGED pages)
  /\ \A c \in Client : WF_vars(Subscribed(c) /\ UNCHANGED pages)
  /\ \A c \in Client : WF_vars(OnSnapshot(c)) /\ WF_vars(OnChanges(c))
  /\ \A p \in Page : WF_vars(ServerReads(p) \/ FirstShown(p) \/ LoadShown(p))

-----------------------------------------------------------------------------
(* Properties.                                                             *)

TypeOK ==
  /\ files \in Contents
  /\ current \in {0} \cup Channel
  /\ subs \in [Channel -> SUBSET Client]
  /\ snap \in [Channel -> Seen]
  /\ ready \in [Channel -> BOOLEAN]
  /\ watch \in [Channel -> {"none", "reading", "waiting", "cut", "over"}]
  /\ read \in [Channel -> Contents \cup {NotRead}]
  /\ rebuilds \subseteq [batch : 1..MaxBatches, on : Channel, saw : Contents]
  /\ at \in [Client -> {"out", "joining", "freed", "in", "leaving", "popping"}]
  /\ on \in [Client -> {0} \cup Channel]
  /\ \A c \in Client : Len(queue[c]) \in 0..QueueSize /\ \A i \in DOMAIN queue[c] : queue[c][i] \in Contents
  /\ greeting \in [Client -> Seen \cup {NotRead}]
  /\ told \in [Client -> Seen]
  /\ crossed \in BOOLEAN
  /\ shown \in [Page -> Seen]
  /\ {first, load} \subseteq [Page -> [st : {"none", "asked", "read"}, got : Seen]]
  /\ {again, early, missed} \subseteq [Page -> BOOLEAN]

\* Connected and not dropped for a full queue.
Following(c) == at[c] = "in" /\ c \in subs[on[c]]

\* What a client hears last when it has emptied its queue.
Latest(c) ==
  IF queue[c] # <<>> THEN queue[c][Len(queue[c])]
  ELSE IF greeting[c] # NotRead THEN greeting[c] ELSE told[c]

\* Between the snapshot a client is given and the changes it finds in its queue
\* nothing is missing, whatever scans and batches overlap with its subscribing:
\* its last message is about what the next scan is compared with.  (A client
\* that was given no snapshot, as the first scan failed, is told at a change.)
NoGap ==
  \A c \in Client : Following(c) /\ Latest(c) # NoContents => Latest(c) = snap[on[c]]

\* A channel with a subscriber is the registered one and is being scanned, and
\* nobody who has gone is left among its subscribers, which would keep it scanned
\* for ever; unless somebody joined a channel while its last subscriber waited
\* for its task to end.
Attended ==
  ~crossed => \A k \in Channel : \A c \in subs[k] :
    /\ at[c] \in {"joining", "freed", "in"} /\ on[c] = k
    /\ k = current
    /\ watch[k] \in {"reading", "waiting"}

\* A page that has heard everything and has no load under way shows no less than
\* what the next scan is compared with: whatever it does not show yet will be told.
\* (Unless an older answer came after a newer one, the first fingerprint it heard
\* was newer than its loads, it was given no snapshot, or a load failed: then the
\* page may be behind until the next change calls for a load.)
UpToDate ==
  \A p \in Page :
    /\ Following(p) /\ greeting[p] = NotRead /\ queue[p] = <<>> /\ told[p] # NoContents
    /\ first[p] = None /\ load[p] = None /\ ~early[p] /\ ~missed[p]
    => shown[p] >= snap[on[p]]

\* A page does not stay behind the files: what it shows is up to date again and
\* again, if it is told of changes, under the same conditions: a failed load does
\* not stop the later ones.
Stale(p) ==
  /\ Following(p) /\ ~crossed /\ ~early[p] /\ ~missed[p]
  /\ told[p] # NoContents
  /\ shown[p] # files
CatchesUp == \A p \in Page : []<>~Stale(p)
=============================================================================
