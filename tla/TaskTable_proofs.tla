-------------------------- MODULE TaskTable_proofs --------------------------
(***************************************************************************)
(* Proofs about TaskTable, for any number of rows, keys, lanes and         *)
(* sessions.                                                               *)
(***************************************************************************)
EXTENDS TaskTable, TLAPS

(***************************************************************************)
(* The set the cascades visit.                                             *)
(***************************************************************************)

\* Every queued row that depends on t, or on a row the cascade of t visits, is
\* visited by that cascade (_cascade_failed_queued and _mark_cancelled recurse).
LEMMA BelowIsClosed ==
  ASSUME NEW t, NEW r \in Row, status[r] = "queued",
         dep[r] = t \/ dep[r] \in QueuedBelow(t)
  PROVE  r \in QueuedBelow(t)
  <1> SUFFICES ASSUME NEW S \in SUBSET Row, ClosedBelow(S, t) PROVE r \in S
    BY DEF QueuedBelow
  <1> QED BY DEF QueuedBelow, ClosedBelow

\* The cascade of t visits only queued rows, and only rows that depend on t or
\* on another row it visits.
LEMMA BelowIsReached ==
  ASSUME NEW t, NEW r \in QueuedBelow(t)
  PROVE  /\ r \in Row
         /\ status[r] = "queued"
         /\ dep[r] = t \/ dep[r] \in QueuedBelow(t)
  <1> DEFINE S == {x \in Row : status[x] = "queued" /\ (dep[x] = t \/ dep[x] \in QueuedBelow(t))}
  <1>1. S \subseteq QueuedBelow(t)
    BY BelowIsClosed
  <1>2. ClosedBelow(S, t)
    BY <1>1 DEF ClosedBelow
  <1>3. S \in SUBSET Row
    OBVIOUS
  <1>4. r \in S
    BY <1>2, <1>3 DEF QueuedBelow
  <1> QED BY <1>4

(***************************************************************************)
(* The inductive invariant.  The three safety invariants are inductive     *)
(* together with one fact about the claims under way: what a claim's       *)
(* SELECT saw of the dependency still holds when its UPDATE runs.          *)
(***************************************************************************)

PickedReady ==
  \A s \in Session : picked[s] # NoRow =>
    status[picked[s]] # "absent" /\ DependencyMet(picked[s])

IInv ==
  /\ TypeOK
  /\ OneActivePerKey
  /\ StartedAfterDependency
  /\ CascadeAttribution
  /\ PickedReady

\* Under the invariant no running row depends on an active one, so the cancel
\* cascade finds no running dependent to signal.
LEMMA NoRunningBelowRows ==
  ASSUME RowsTypeOK, StartedAfterDependency, NEW t \in Row, status[t] \in Active
  PROVE  RunningBelow(t) = {}
  <1> SUFFICES ASSUME NEW r \in Row, status[r] = "running",
                      dep[r] = t \/ dep[r] \in QueuedBelow(t)
               PROVE  FALSE
    BY DEF RunningBelow
  <1>1. DependencyMet(r)
    BY DEF StartedAfterDependency
  <1>2. dep[r] \in Row /\ status[dep[r]] \in Active
    BY BelowIsReached DEF Active
  <1> QED BY <1>1, <1>2 DEF DependencyMet, Active, Row, NoRow

(***************************************************************************)
(* Each transaction preserves what the invariant says of the rows, and     *)
(* moves every row it finds forward: a row that exists keeps its key and   *)
(* its dependency, and a row that is over stays as it is.                  *)
(***************************************************************************)

RowsInv == RowsTypeOK /\ OneActivePerKey /\ StartedAfterDependency /\ CascadeAttribution

Onward ==
  \A t \in Row : status[t] # "absent" =>
    /\ status'[t] # "absent"
    /\ dep'[t] = dep[t]
    /\ key'[t] = key[t]
    /\ status[t] \in Final => status'[t] = status[t]

LEMMA InsertSafe ==
  ASSUME RowsInv, NEW t \in Row, NEW k \in Key, NEW d \in Inserted \cup {NoRow}, Insert(t, k, d)
  PROVE  RowsInv' /\ Onward
  <1> USE DEF RowsInv, Insert, Active, Final, Status
  <1>1. RowsTypeOK'
    BY DEF RowsTypeOK, Inserted
  <1>2. OneActivePerKey'
    BY DEF RowsTypeOK, OneActivePerKey, ActiveWith
  <1>3. StartedAfterDependency'
    BY DEF RowsTypeOK, StartedAfterDependency, DependencyMet
  <1>4. CascadeAttribution'
    BY DEF RowsTypeOK, CascadeAttribution
  <1>5. Onward
    BY DEF RowsTypeOK, Onward
  <1> QED BY <1>1, <1>2, <1>3, <1>4, <1>5

\* A transaction that moves one row between statuses, an active row to any
\* status, a row that starts only with its dependency met, and attributes a
\* cancellation only as it asks for it.
LEMMA MoveSafe ==
  ASSUME RowsInv, NEW t \in Row, NEW st \in {"queued", "running", "cancelling", "succeeded"},
         status[t] \in {"queued", "running"},
         st \in {"running", "cancelling", "succeeded"} => DependencyMet(t),
         status' = [status EXCEPT ![t] = st],
         st # "cancelling" => cancelledBy' = cancelledBy,
         st = "cancelling" => cancelledBy' = [cancelledBy EXCEPT ![t] = "user"],
         attempt' \in [Row -> 1 .. MaxAttempts],
         UNCHANGED <<key, dep>>
  PROVE  RowsInv' /\ Onward
  <1> USE DEF RowsInv, Active, Final, Status
  <1>1. RowsTypeOK'
    BY DEF RowsTypeOK
  <1>2. OneActivePerKey'
    BY DEF RowsTypeOK, OneActivePerKey
  <1>3. StartedAfterDependency'
    BY DEF RowsTypeOK, StartedAfterDependency, DependencyMet
  <1>4. CascadeAttribution'
    BY DEF RowsTypeOK, CascadeAttribution
  <1>5. Onward
    BY DEF RowsTypeOK, Onward
  <1> QED BY <1>1, <1>2, <1>3, <1>4, <1>5

LEMMA MarkFailedSafe ==
  ASSUME RowsInv, NEW t \in Row, MarkFailed(t)
  PROVE  RowsInv' /\ Onward
  <1> USE DEF RowsInv, MarkFailed, Active, Final, Status
  <1>1. \A r \in QueuedBelow(t) : r \in Row /\ status[r] = "queued"
    BY BelowIsReached
  <1>2. RowsTypeOK'
    BY <1>1 DEF RowsTypeOK
  <1>3. OneActivePerKey'
    BY <1>1 DEF RowsTypeOK, OneActivePerKey
  <1>4. StartedAfterDependency'
    BY <1>1 DEF RowsTypeOK, StartedAfterDependency, DependencyMet
  <1>5. CascadeAttribution'
    BY <1>1 DEF RowsTypeOK, CascadeAttribution
  <1>6. Onward
    BY <1>1 DEF RowsTypeOK, Onward
  <1> QED BY <1>2, <1>3, <1>4, <1>5, <1>6

LEMMA MarkCancelledSafe ==
  ASSUME RowsInv, NEW t \in Row, MarkCancelled(t, "user")
  PROVE  RowsInv' /\ Onward
  <1> DEFINE D == {r \in Row : r = t \/ r \in QueuedBelow(t)}
  <1>1. \A r \in QueuedBelow(t) :
          r \in Row /\ status[r] = "queued" /\ (dep[r] = t \/ dep[r] \in QueuedBelow(t))
    BY BelowIsReached
  <1>2. RunningBelow(t) = {}
    BY NoRunningBelowRows DEF RowsInv, MarkCancelled
  <1>3. status' = [r \in Row |-> IF r \in D THEN "cancelled" ELSE status[r]]
    BY <1>2 DEF MarkCancelled
  <1>4. cancelledBy' = [r \in Row |->
          IF r = t THEN Attributed(r, "user")
          ELSE IF r \in D THEN Attributed(r, "cascade") ELSE cancelledBy[r]]
    BY <1>2 DEF MarkCancelled
  <1>5. \A r \in D : status[r] \in Active
    BY <1>1 DEF MarkCancelled, Active
  <1>6. \A r \in D : r # t => dep[r] \in D
    BY <1>1
  <1>7. UNCHANGED <<key, dep, attempt>>
    BY DEF MarkCancelled
  <1> HIDE DEF D
  <1> USE DEF RowsInv, Active, Final, Status
  <1>9. D \subseteq Row
    BY DEF D
  <1>10. RowsTypeOK'
    BY <1>3, <1>4, <1>5, <1>7, <1>9 DEF RowsTypeOK, Attributed
  <1>11. OneActivePerKey'
    BY <1>3, <1>5, <1>7, <1>9 DEF RowsTypeOK, OneActivePerKey
  <1>12. StartedAfterDependency'
    BY <1>3, <1>5, <1>7, <1>9 DEF RowsTypeOK, StartedAfterDependency, DependencyMet
  <1>13. CascadeAttribution'
    BY <1>3, <1>4, <1>5, <1>6, <1>7, <1>9 DEF RowsTypeOK, CascadeAttribution, Attributed, Row, NoRow
  <1>14. Onward
    BY <1>3, <1>5, <1>7, <1>9 DEF RowsTypeOK, Onward
  <1> QED BY <1>10, <1>11, <1>12, <1>13, <1>14

LEMMA CancelQueuedSafe ==
  ASSUME RowsInv, CancelQueued
  PROVE  RowsInv' /\ Onward
  <1> USE DEF RowsInv, CancelQueued, Active, Final, Status
  <1>1. RowsTypeOK'
    BY DEF RowsTypeOK
  <1>2. OneActivePerKey'
    BY DEF RowsTypeOK, OneActivePerKey
  <1>3. StartedAfterDependency'
    BY DEF RowsTypeOK, StartedAfterDependency, DependencyMet
  <1>4. CascadeAttribution'
    BY DEF RowsTypeOK, CascadeAttribution
  <1>5. Onward
    BY DEF RowsTypeOK, Onward
  <1> QED BY <1>1, <1>2, <1>3, <1>4, <1>5

LEMMA RequeueRunningSafe ==
  ASSUME RowsInv, NEW S \in SUBSET Row, RequeueRunning(S)
  PROVE  RowsInv' /\ Onward
  <1> USE DEF RowsInv, RequeueRunning, Active, Final, Status
  <1>1. RowsTypeOK'
    BY DEF RowsTypeOK
  <1>2. OneActivePerKey'
    BY DEF RowsTypeOK, OneActivePerKey
  <1>3. StartedAfterDependency'
    BY DEF RowsTypeOK, StartedAfterDependency, DependencyMet
  <1>4. CascadeAttribution'
    BY DEF RowsTypeOK, CascadeAttribution
  <1>5. Onward
    BY DEF RowsTypeOK, Onward
  <1> QED BY <1>1, <1>2, <1>3, <1>4, <1>5

LEMMA UnchangedSafe ==
  ASSUME RowsInv, UNCHANGED rows
  PROVE  RowsInv' /\ Onward
  BY DEF rows, RowsInv, RowsTypeOK, OneActivePerKey, StartedAfterDependency, DependencyMet,
         CascadeAttribution, Onward

\* One step of TaskTable, seen from the rows.
LEMMA StepSafe ==
  ASSUME IInv, [Next]_vars
  PROVE  RowsInv' /\ Onward
  <1> USE DEF Change
  <1>0. RowsInv
    BY DEF IInv, TypeOK, RowsInv
  <1>1. CASE \E k \in Key, d \in Inserted \cup {NoRow} : EnqueueInsert(k, d)
    BY <1>0, <1>1, InsertSafe DEF EnqueueInsert
  <1>2. CASE \E s \in Session : ClaimUpdate(s)
    <2>1. PICK s \in Session : ClaimUpdate(s)
      BY <1>2
    <2>2. CASE UNCHANGED rows
      BY <1>0, <2>2, UnchangedSafe
    <2>3. CASE MarkRunning(picked[s])
      <3>1. picked[s] \in Row /\ DependencyMet(picked[s])
        BY <2>1 DEF IInv, TypeOK, PickedReady, ClaimUpdate
      <3> QED BY <1>0, <2>3, <3>1, MoveSafe DEF MarkRunning, RowsInv, RowsTypeOK
    <2> QED BY <2>1, <2>2, <2>3 DEF ClaimUpdate
  <1>3. CASE \E s \in Session : CancelDispatch(s)
    <2>1. PICK s \in Session : CancelDispatch(s)
      BY <1>3
    <2> DEFINE t == seen[s].row
    <2>2. t \in Row
      BY <2>1 DEF IInv, TypeOK, CancelDispatch
    <2>3. \/ MarkCancelled(t, "user")
          \/ MarkCancelling(t, "user")
          \/ UNCHANGED rows
      BY <2>1 DEF CancelDispatch
    <2>4. CASE MarkCancelled(t, "user")
      BY <1>0, <2>2, <2>4, MarkCancelledSafe
    <2>5. CASE MarkCancelling(t, "user")
      <3>1. DependencyMet(t)
        BY <1>0, <2>2, <2>5 DEF MarkCancelling, RowsInv, StartedAfterDependency
      <3> QED BY <1>0, <2>2, <2>5, <3>1, MoveSafe DEF MarkCancelling, RowsInv, RowsTypeOK
    <2>6. CASE UNCHANGED rows
      BY <1>0, <2>6, UnchangedSafe
    <2> QED BY <2>3, <2>4, <2>5, <2>6
  <1>4. CASE \E t \in Row : Change(MarkSucceeded(t))
    <2>1. PICK t \in Row : MarkSucceeded(t)
      BY <1>4
    <2>2. DependencyMet(t)
      BY <1>0, <2>1 DEF MarkSucceeded, RowsInv, StartedAfterDependency
    <2> QED BY <1>0, <2>1, <2>2, MoveSafe DEF MarkSucceeded, RowsInv, RowsTypeOK
  <1>5. CASE \E t \in Row : Change(MarkFailed(t))
    BY <1>0, <1>5, MarkFailedSafe
  <1>6. CASE \E t \in Row : Change(RequeueAttempt(t))
    <2>1. PICK t \in Row : RequeueAttempt(t)
      BY <1>6
    <2>2. attempt' \in [Row -> 1 .. MaxAttempts]
      BY <1>0, <2>1, AttemptsAssumption DEF RequeueAttempt, AttemptLeft, RowsInv, RowsTypeOK
    <2> QED BY <1>0, <2>1, <2>2, MoveSafe DEF RequeueAttempt
  <1>7. CASE \E t \in Row : Change(RequeueUnstarted(t))
    BY <1>0, <1>7, MoveSafe DEF RequeueUnstarted, RowsInv, RowsTypeOK
  <1>8. CASE \E t \in Row : Change(MarkCancelled(t, "user"))
    BY <1>0, <1>8, MarkCancelledSafe
  <1>9. CASE \E S \in SUBSET Row : Change(RequeueRunning(S))
    BY <1>0, <1>9, RequeueRunningSafe
  <1>10. CASE Change(CancelQueued)
    BY <1>0, <1>10, CancelQueuedSafe
  <1>11. CASE UNCHANGED rows
    BY <1>0, <1>11, UnchangedSafe
  <1> QED
    BY <1>1, <1>2, <1>3, <1>4, <1>5, <1>6, <1>7, <1>8, <1>9, <1>10, <1>11
    DEF Next, vars, ClaimSelect, CancelLoad

LEMMA StepTyped ==
  ASSUME IInv, [Next]_vars
  PROVE  TypeOK'
  <1>1. RowsTypeOK'
    BY StepSafe DEF RowsInv
  <1>2. /\ picked' \in [Session -> Row \cup {NoRow}]
        /\ seen' \in [Session -> [row : Row \cup {NoRow}, status : Status]]
    <2> USE DEF IInv, TypeOK, RowsTypeOK, NotSeen, Status
    <2>1. CASE \E k \in Key, d \in Inserted \cup {NoRow} : EnqueueInsert(k, d)
      BY <2>1 DEF EnqueueInsert
    <2>2. CASE \E s \in Session, open \in SUBSET Lane : ClaimSelect(s, open)
      BY <2>2 DEF ClaimSelect, Claimable
    <2>3. CASE \E s \in Session : ClaimUpdate(s)
      BY <2>3 DEF ClaimUpdate
    <2>4. CASE \E s \in Session, t \in Row : CancelLoad(s, t)
      BY <2>4 DEF CancelLoad
    <2>5. CASE \E s \in Session : CancelDispatch(s)
      BY <2>5 DEF CancelDispatch
    <2>6. CASE UNCHANGED <<picked, seen>>
      BY <2>6
    <2> QED
      BY <2>1, <2>2, <2>3, <2>4, <2>5, <2>6 DEF Next, vars, Change
  <1> QED BY <1>1, <1>2 DEF TypeOK

\* A claim under way keeps what its SELECT saw: a row that exists and whose
\* dependency is met stays so, since a row that succeeded is final.
LEMMA StepPicked ==
  ASSUME IInv, [Next]_vars
  PROVE  PickedReady'
  <1> DEFINE Ready(t) == status[t] # "absent" /\ (dep[t] = NoRow \/ status[dep[t]] = "succeeded")
             ReadyNext(t) == status'[t] # "absent" /\ (dep'[t] = NoRow \/ status'[dep'[t]] = "succeeded")
  <1>1. TypeOK' /\ Onward
    BY StepSafe, StepTyped
  <1>2. \A t \in Row : Ready(t) => ReadyNext(t)
    BY <1>1 DEF IInv, TypeOK, RowsTypeOK, Onward, Final
  <1>3. \A s \in Session : picked[s] # NoRow => picked[s] \in Row /\ Ready(picked[s])
    BY DEF IInv, TypeOK, PickedReady, DependencyMet
  <1>4. SUFFICES ASSUME NEW x \in Session, picked'[x] # NoRow
                 PROVE  ReadyNext(picked'[x])
    BY DEF PickedReady, DependencyMet
  <1>5. CASE picked'[x] = picked[x]
    BY <1>2, <1>3, <1>4, <1>5
  <1>6. CASE \E s \in Session, open \in SUBSET Lane : ClaimSelect(s, open)
    <2>1. PICK s \in Session, open \in SUBSET Lane : ClaimSelect(s, open)
      BY <1>6
    <2>2. PICK t \in Claimable(open) : picked' = [picked EXCEPT ![s] = t]
      BY <2>1 DEF ClaimSelect
    <2>3. t \in Row /\ Ready(t)
      BY DEF Claimable, DependencyMet
    <2>4. picked'[x] = picked[x] \/ picked'[x] = t
      BY <2>2 DEF IInv, TypeOK
    <2> QED
      BY <1>2, <1>5, <2>3, <2>4
  <1>7. CASE \E s \in Session : ClaimUpdate(s)
    <2>1. picked'[x] = picked[x]
      BY <1>4, <1>7 DEF ClaimUpdate, IInv, TypeOK
    <2> QED BY <1>5, <2>1
  <1>8. CASE UNCHANGED picked
    BY <1>5, <1>8
  <1> QED
    BY <1>6, <1>7, <1>8
    DEF Next, vars, Change, EnqueueInsert, CancelLoad,
        CancelDispatch

(***************************************************************************)
(* Safety theorems.                                                        *)
(***************************************************************************)

\* IInv holds in every reachable state.
THEOREM Invariance == Spec => []IInv
  <1>1. Init => IInv
    BY AttemptsAssumption, KeyAssumption
    DEF Init, RowsInit, IInv, TypeOK, RowsTypeOK, OneActivePerKey, StartedAfterDependency,
        CascadeAttribution, PickedReady, NotSeen, Active, Status, Final, Dead
  <1>2. IInv /\ [Next]_vars => IInv'
    BY StepSafe, StepTyped, StepPicked DEF IInv, RowsInv
  <1> QED BY <1>1, <1>2, PTL DEF Spec

\* Every variable keeps its type, for any number of rows and sessions.
THEOREM Typing == Spec => []TypeOK
  <1>1. IInv => TypeOK
    BY DEF IInv
  <1> QED BY <1>1, Invariance, PTL

\* However many sessions enqueue, claim, retry and cancel, a dedupe key never
\* has two active rows.
THEOREM AtMostOneActive == Spec => []OneActivePerKey
  <1>1. IInv => OneActivePerKey
    BY DEF IInv
  <1> QED BY <1>1, Invariance, PTL

\* No row is ever started before the row it depends on has succeeded.
THEOREM DependencyFirst == Spec => []StartedAfterDependency
  <1>1. IInv => StartedAfterDependency
    BY DEF IInv
  <1> QED BY <1>1, Invariance, PTL

\* Cancellations are attributed to the user or to the cascade as they happened.
THEOREM Attribution == Spec => []CascadeAttribution
  <1>1. IInv => CascadeAttribution
    BY DEF IInv
  <1> QED BY <1>1, Invariance, PTL

\* No operation of the repository moves a row out of a terminal status.
THEOREM TerminalIsFinal == Spec => FinalIsFinal
  <1>1. IInv /\ [Next]_vars => [\A t \in Row : status[t] \in Final => status'[t] = status[t]]_vars
    <2> SUFFICES ASSUME IInv, [Next]_vars, NEW t \in Row, status[t] \in Final
                 PROVE  status'[t] = status[t]
      OBVIOUS
    <2>1. Onward
      BY StepSafe
    <2> QED BY <2>1 DEF Onward, Final
  <1> QED BY <1>1, Invariance, PTL DEF Spec, FinalIsFinal

\* A row asked to stop ends cancelled and nothing else: it never returns to the
\* queue and is never reported as succeeded or failed.
THEOREM CancellingEndsCancelled == Spec => CancellingOnlyCancels
  <1> DEFINE A == \A t \in Row : status[t] = "cancelling" => status'[t] \in {"cancelling", "cancelled"}
  <1>1. IInv /\ [Next]_vars => [A]_vars
    <2> SUFFICES ASSUME IInv, [Next]_vars, NEW t \in Row, status[t] = "cancelling"
                 PROVE  status'[t] \in {"cancelling", "cancelled"}
      OBVIOUS
    <2>1. \A r \in Row : t \notin QueuedBelow(r)
      BY BelowIsReached
    <2> USE DEF IInv, TypeOK, RowsTypeOK, Change
    <2>2. CASE \E k \in Key, d \in Inserted \cup {NoRow} : EnqueueInsert(k, d)
      BY <2>2 DEF EnqueueInsert, Insert
    <2>3. CASE \E s \in Session : ClaimUpdate(s)
      BY <2>3 DEF ClaimUpdate, MarkRunning, rows
    <2>4. CASE \E s \in Session : CancelDispatch(s)
      <3>1. PICK s \in Session : CancelDispatch(s)
        BY <2>4
      <3>2. seen[s].row \in Row
        BY <3>1 DEF CancelDispatch
      <3>3. \/ MarkCancelled(seen[s].row, "user")
            \/ MarkCancelling(seen[s].row, "user")
            \/ UNCHANGED rows
        BY <3>1 DEF CancelDispatch
      <3> QED BY <3>2, <3>3 DEF MarkCancelled, MarkCancelling, rows
    <2>5. CASE \E r \in Row : Change(MarkSucceeded(r))
      BY <2>5 DEF MarkSucceeded
    <2>6. CASE \E r \in Row : Change(MarkFailed(r))
      BY <2>1, <2>6 DEF MarkFailed
    <2>7. CASE \E r \in Row : Change(RequeueAttempt(r))
      BY <2>7 DEF RequeueAttempt
    <2>8. CASE \E r \in Row : Change(RequeueUnstarted(r))
      BY <2>8 DEF RequeueUnstarted
    <2>9. CASE \E r \in Row : Change(MarkCancelled(r, "user"))
      BY <2>9 DEF MarkCancelled
    <2>10. CASE \E S \in SUBSET Row : Change(RequeueRunning(S))
      BY <2>10 DEF RequeueRunning
    <2>11. CASE Change(CancelQueued)
      BY <2>11 DEF CancelQueued
    <2>12. CASE UNCHANGED rows
      BY <2>12 DEF rows
    <2> QED
      BY <2>2, <2>3, <2>4, <2>5, <2>6, <2>7, <2>8, <2>9, <2>10, <2>11, <2>12
      DEF Next, vars, ClaimSelect, CancelLoad
  <1> QED BY <1>1, Invariance, PTL DEF Spec, CancellingOnlyCancels

\* A row that fails or is cancelled leaves no dependent waiting for it.
THEOREM DeathCascades == Spec => DeathReachesAllBelow
  <1> DEFINE A == \A t, r \in Row :
                    status[t] \notin Dead /\ status'[t] \in Dead /\ dep'[r] = t => status'[r] # "queued"
  <1>1. IInv /\ [Next]_vars => [A]_vars
    <2> SUFFICES ASSUME IInv, [Next]_vars, NEW t \in Row, NEW r \in Row,
                        status[t] \notin Dead, status'[t] \in Dead, dep'[r] = t
                 PROVE  status'[r] # "queued"
      OBVIOUS
    <2> USE DEF IInv, TypeOK, RowsTypeOK, Change, Dead
    <2>1. ASSUME NEW x \in Row, MarkFailed(x)
          PROVE  status'[r] # "queued"
      BY <2>1, BelowIsClosed DEF MarkFailed
    <2>2. ASSUME NEW x \in Row, MarkCancelled(x, "user")
          PROVE  status'[r] # "queued"
      BY <2>2, BelowIsClosed DEF MarkCancelled
    <2>3. CASE \E s \in Session : CancelDispatch(s)
      <3>1. PICK s \in Session : CancelDispatch(s)
        BY <2>3
      <3>2. seen[s].row \in Row
        BY <3>1 DEF CancelDispatch
      <3>3. \/ MarkCancelled(seen[s].row, "user")
            \/ MarkCancelling(seen[s].row, "user")
            \/ UNCHANGED rows
        BY <3>1 DEF CancelDispatch
      <3> QED BY <2>2, <3>2, <3>3 DEF MarkCancelling, rows
    <2>4. CASE Change(CancelQueued)
      BY <2>4 DEF CancelQueued
    <2>5. CASE \E x \in Row : Change(MarkFailed(x)) \/ Change(MarkCancelled(x, "user"))
      BY <2>1, <2>2, <2>5
    <2>6. CASE \E k \in Key, d \in Inserted \cup {NoRow} : EnqueueInsert(k, d)
      BY <2>6 DEF EnqueueInsert, Insert
    <2>7. CASE \E s \in Session : ClaimUpdate(s)
      BY <2>7 DEF ClaimUpdate, MarkRunning, rows
    <2>8. CASE \E x \in Row : \/ Change(MarkSucceeded(x)) \/ Change(RequeueAttempt(x))
                              \/ Change(RequeueUnstarted(x))
      BY <2>8 DEF MarkSucceeded, RequeueAttempt, RequeueUnstarted
    <2>9. CASE \E S \in SUBSET Row : Change(RequeueRunning(S))
      BY <2>9 DEF RequeueRunning
    <2>10. CASE UNCHANGED rows
      BY <2>10 DEF rows
    <2> QED
      BY <2>3, <2>4, <2>5, <2>6, <2>7, <2>8, <2>9, <2>10
      DEF Next, vars, ClaimSelect, CancelLoad
  <1> QED BY <1>1, Invariance, PTL DEF Spec, DeathReachesAllBelow

(***************************************************************************)
(* Refinement.                                                             *)
(***************************************************************************)

\* A transaction that moves rows S from one status to another is a Move.
LEMMA MoveRefines ==
  ASSUME NEW S \in SUBSET Row, NEW from, NEW to,
         \A t \in S : status[t] = from,
         \A t \in Row : status'[t] = IF t \in S THEN to ELSE status[t],
         UNCHANGED <<key, dep>>
  PROVE  Lifecycle!Move(S, PhaseOf(from), PhaseOf(to))
  BY DEF Lifecycle!Move

\* A transaction that ends rows S, all active, is a Perish when no queued row
\* outside S depends on a row of S.
LEMMA PerishRefines ==
  ASSUME NEW S \in SUBSET Row, NEW to \in Dead, status \in [Row -> Status],
         \A t \in S : status[t] \in Active,
         \A r \in Row : status[r] = "queued" /\ dep[r] \in S => r \in S,
         \A t \in Row : status'[t] = IF t \in S THEN to ELSE status[t],
         UNCHANGED <<key, dep>>
  PROVE  Lifecycle!Perish(S) /\ S \in SUBSET Lifecycle!Alive
  <1>1. \A t \in Row : PhaseOf(status[t]) = "waiting" <=> status[t] = "queued"
    BY DEF PhaseOf, Dead
  <1>2. \A t \in S : PhaseOf(status[t]) \in Lifecycle!Live
    BY DEF PhaseOf, Active, Lifecycle!Live
  <1>3. [t \in Row |-> PhaseOf(status'[t])] =
          [t \in Row |-> IF t \in S THEN "dead" ELSE PhaseOf(status[t])]
    BY DEF PhaseOf, Dead
  <1> QED BY <1>1, <1>2, <1>3 DEF Lifecycle!Perish, Lifecycle!Alive

LEMMA InsertRefines ==
  ASSUME RowsTypeOK, NEW t \in Row, NEW k \in Key, NEW d \in Inserted \cup {NoRow}, Insert(t, k, d)
  PROVE  Lifecycle!Next
  <1>1. \A r \in Row : PhaseOf(status[r]) \in Lifecycle!Live => status[r] \in Active
    BY DEF PhaseOf, Lifecycle!Live, Active, Dead
  <1>2. PhaseOf(status[t]) = "absent" /\ PhaseOf("queued") = "waiting"
    BY DEF Insert, PhaseOf, Dead
  <1>3. [r \in Row |-> PhaseOf(status'[r])] =
          [[r \in Row |-> PhaseOf(status[r])] EXCEPT ![t] = "waiting"]
    BY <1>2 DEF Insert, RowsTypeOK
  <1>4. \A r \in Lifecycle!Alive : key[r] # k
    BY <1>1 DEF Insert, ActiveWith, Lifecycle!Alive
  <1>5. d \in Row \cup {NoRow}
    BY DEF Inserted
  <1>6. Lifecycle!Submit(t)
    BY <1>2, <1>3, <1>4, <1>5 DEF Insert, Lifecycle!Submit
  <1> QED BY <1>6 DEF Lifecycle!Next

\* Every row transaction of a TaskTable step is a step of TaskLifecycle.
LEMMA TransactionRefines ==
  ASSUME RowsInv, NEW t \in Row,
         \/ MarkSucceeded(t) \/ MarkFailed(t) \/ RequeueAttempt(t) \/ RequeueUnstarted(t)
         \/ MarkCancelling(t, "user") \/ MarkCancelled(t, "user")
         \/ MarkRunning(t) /\ DependencyMet(t)
  PROVE  Lifecycle!Next
  <1> USE DEF RowsInv, RowsTypeOK
  <1>0. /\ PhaseOf("queued") = "waiting" /\ PhaseOf("running") = "working"
        /\ PhaseOf("cancelling") = "stopping" /\ PhaseOf("succeeded") = "done"
    BY DEF PhaseOf, Dead
  <1>1. CASE MarkSucceeded(t)
    <2>1. Lifecycle!Move({t}, PhaseOf("running"), PhaseOf("succeeded"))
      BY <1>1, MoveRefines DEF MarkSucceeded
    <2> QED BY <1>0, <2>1 DEF Lifecycle!Finish, Lifecycle!Next
  <1>2. CASE RequeueAttempt(t) \/ RequeueUnstarted(t)
    <2>1. Lifecycle!Move({t}, PhaseOf("running"), PhaseOf("queued"))
      BY <1>2, MoveRefines DEF RequeueAttempt, RequeueUnstarted
    <2>2. {t} \in SUBSET Lifecycle!Working
      BY <1>0, <1>2 DEF RequeueAttempt, RequeueUnstarted, Lifecycle!Working
    <2> QED BY <1>0, <2>1, <2>2 DEF Lifecycle!PutBack, Lifecycle!Next
  <1>3. CASE MarkCancelling(t, "user")
    <2>1. Lifecycle!Move({t}, PhaseOf("running"), PhaseOf("cancelling"))
      BY <1>3, MoveRefines DEF MarkCancelling
    <2> QED BY <1>0, <2>1 DEF Lifecycle!AskToStop, Lifecycle!Next
  <1>4. CASE MarkRunning(t) /\ DependencyMet(t)
    <2>1. Lifecycle!Move({t}, PhaseOf("queued"), PhaseOf("running"))
      BY <1>4, MoveRefines DEF MarkRunning
    <2>2. dep[t] = NoRow \/ PhaseOf(status[dep[t]]) = "done"
      BY <1>0, <1>4 DEF DependencyMet
    <2>3. Lifecycle!Begin(t)
      BY <1>0, <2>1, <2>2 DEF Lifecycle!Begin
    <2> QED BY <2>3 DEF Lifecycle!Next
  <1>5. CASE MarkFailed(t) \/ MarkCancelled(t, "user")
    <2> DEFINE D == {r \in Row : r = t \/ r \in QueuedBelow(t)}
    <2>1. \A r \in D : status[r] \in Active
      BY <1>5, BelowIsReached DEF MarkFailed, MarkCancelled, Active
    <2>2. \A r \in Row : status[r] = "queued" /\ dep[r] \in D => r \in D
      BY BelowIsClosed
    <2>3. \E to \in Dead : \A r \in Row : status'[r] = IF r \in D THEN to ELSE status[r]
      <3>1. CASE MarkFailed(t)
        BY <3>1 DEF MarkFailed, Dead
      <3>2. CASE MarkCancelled(t, "user")
        <4>1. RunningBelow(t) = {}
          BY <3>2, NoRunningBelowRows DEF MarkCancelled
        <4> QED BY <3>2, <4>1 DEF MarkCancelled, Dead
      <3> QED BY <1>5, <3>1, <3>2
    <2>4. UNCHANGED <<key, dep>>
      BY <1>5 DEF MarkFailed, MarkCancelled
    <2>5. Lifecycle!Perish(D) /\ D \in SUBSET Lifecycle!Alive
      BY <2>1, <2>2, <2>3, <2>4, PerishRefines
    <2> QED BY <2>5 DEF Lifecycle!Next
  <1> QED BY <1>1, <1>2, <1>3, <1>4, <1>5

LEMMA StepRefines ==
  ASSUME IInv, [Next]_vars
  PROVE  [Lifecycle!Next]_(Lifecycle!vars)
  <1>0. RowsInv
    BY DEF IInv, TypeOK, RowsInv
  <1>1. CASE \E k \in Key, d \in Inserted \cup {NoRow} : EnqueueInsert(k, d)
    BY <1>0, <1>1, InsertRefines DEF EnqueueInsert, RowsInv
  <1>2. CASE \E s \in Session : ClaimUpdate(s)
    <2>1. PICK s \in Session : ClaimUpdate(s)
      BY <1>2
    <2>2. picked[s] \in Row /\ DependencyMet(picked[s])
      BY <2>1 DEF ClaimUpdate, IInv, TypeOK, PickedReady
    <2> QED BY <1>0, <2>1, <2>2, TransactionRefines DEF ClaimUpdate, rows, Lifecycle!vars
  <1>3. CASE \E s \in Session : CancelDispatch(s)
    <2>1. PICK s \in Session : CancelDispatch(s)
      BY <1>3
    <2>2. seen[s].row \in Row
      BY <2>1 DEF CancelDispatch, IInv, TypeOK
    <2>3. \/ MarkCancelled(seen[s].row, "user")
          \/ MarkCancelling(seen[s].row, "user")
          \/ UNCHANGED rows
      BY <2>1 DEF CancelDispatch
    <2> QED BY <1>0, <2>2, <2>3, TransactionRefines DEF rows, Lifecycle!vars
  <1>4. CASE \E t \in Row : \/ Change(MarkSucceeded(t)) \/ Change(MarkFailed(t))
                            \/ Change(RequeueAttempt(t)) \/ Change(RequeueUnstarted(t))
                            \/ Change(MarkCancelled(t, "user"))
    BY <1>0, <1>4, TransactionRefines DEF Change
  <1>5. CASE \E S \in SUBSET Row : Change(RequeueRunning(S))
    <2>1. PICK S \in SUBSET Row : RequeueRunning(S)
      BY <1>5 DEF Change
    <2> DEFINE R == {t \in S : status[t] = "running"}
    <2>2. Lifecycle!Move(R, PhaseOf("running"), PhaseOf("queued"))
      BY <1>0, <2>1, MoveRefines DEF RequeueRunning, RowsInv, RowsTypeOK
    <2>3. Lifecycle!PutBack(R) /\ R \in SUBSET Lifecycle!Working
      BY <2>2 DEF Lifecycle!PutBack, Lifecycle!Working, PhaseOf
    <2> QED BY <2>3 DEF Lifecycle!Next
  <1>6. CASE Change(CancelQueued)
    <2> DEFINE Q == {t \in Row : status[t] = "queued"}
    <2>1. Lifecycle!Perish(Q) /\ Q \in SUBSET Lifecycle!Alive
      BY <1>0, <1>6, PerishRefines DEF Change, CancelQueued, RowsInv, RowsTypeOK, Active, Dead
    <2> QED BY <2>1 DEF Lifecycle!Next
  <1>7. CASE UNCHANGED rows
    BY <1>7 DEF rows, Lifecycle!vars
  <1> QED
    BY <1>1, <1>2, <1>3, <1>4, <1>5, <1>6, <1>7
    DEF Next, vars, Change, ClaimSelect, CancelLoad

\* The repository implements what the queue promises its users.
THEOREM Refinement == Spec => LifecycleSpec
  <1>1. Init => Lifecycle!Init
    BY DEF Init, RowsInit, Lifecycle!Init, PhaseOf, Dead
  <1>2. IInv /\ [Next]_vars => [Lifecycle!Next]_(Lifecycle!vars)
    BY StepRefines
  <1> QED BY <1>1, <1>2, Invariance, PTL DEF Spec, LifecycleSpec, Lifecycle!Spec
=============================================================================
