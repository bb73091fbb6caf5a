------------------------ MODULE MediaExecution_proofs ------------------------
(***************************************************************************)
(* Proofs about MediaExecution, for any number of rows, attempts, crashes, *)
(* uploads and restores, and whatever calls raise and users do.            *)
(***************************************************************************)
EXTENDS MediaExecution, WellFoundedInduction, TLAPS

(***************************************************************************)
(* The numbers of the versions.                                            *)
(***************************************************************************)

LEMMA LeastExists ==
  ASSUME NEW T, T \subseteq Nat, T # {}
  PROVE  \E x \in T : \A y \in T : x <= y
  <1>1. PICK x \in T : \A y \in Nat : <<y, x>> \in OpToRel(<, Nat) => y \notin T
    <2>1. IsWellFoundedOn(OpToRel(<, Nat), Nat)
      BY NatLessThanWellFounded
    <2>2. ASSUME NEW R, IsWellFoundedOn(R, Nat)
          PROVE  \E x \in T : \A y \in T : ~(<<y, x>> \in R)
      BY <2>2, WFMin
    <2> QED BY <2>1, <2>2
  <1>2. \A y \in Nat : y < x => <<y, x>> \in OpToRel(<, Nat)
    BY DEF OpToRel
  <1>3. \A y \in T : ~(y < x)
    BY <1>1, <1>2
  <1> QED BY <1>3

\* The greatest number is the least bound.
LEMMA GreatestExists ==
  ASSUME NEW S, S \subseteq Nat, S # {}, NEW b \in Nat, \A n \in S : n <= b
  PROVE  \E x \in S : \A y \in S : y <= x
  <1> DEFINE T == {c \in Nat : \A n \in S : n <= c}
  <1>1. PICK c \in T : \A d \in T : c <= d
    <2>1. b \in T
      OBVIOUS
    <2>2. T \subseteq Nat
      OBVIOUS
    <2> HIDE DEF T
    <2> QED BY <2>1, <2>2, LeastExists
  <1>2. CASE c \in S
    BY <1>1, <1>2
  <1>3. CASE c \notin S
    <2>1. \A n \in S : n \in Nat /\ n <= c /\ n # c
      BY <1>1, <1>3
    <2>2. c # 0
      <3>1. PICK s \in S : TRUE
        OBVIOUS
      <3> QED BY <2>1, <3>1
    <2>3. c - 1 \in T
      BY <1>1, <2>1, <2>2
    <2> QED BY <1>1, <2>3
  <1> QED BY <1>2, <1>3


(***************************************************************************)
(* What the operations of the version manager do.                          *)
(***************************************************************************)

Numbered == \E b \in Nat : \A n \in DOMAIN versions : n <= b

\* The records: positive numbers, with a greatest one.
Records == DOMAIN versions \subseteq Nat \ {0} /\ current \in Nat /\ Numbered

LEMMA NextVersionFresh ==
  ASSUME Records
  PROVE  /\ NextVersion \in Nat \ {0}
         /\ \A n \in DOMAIN versions : n < NextVersion
  <1>1. CASE DOMAIN versions = {}
    BY <1>1 DEF NextVersion
  <1>2. CASE DOMAIN versions # {}
    <2>1. \E x \in DOMAIN versions : \A y \in DOMAIN versions : y <= x
      BY <1>2, GreatestExists DEF Records, Numbered
    <2> DEFINE g == CHOOSE x \in DOMAIN versions : \A y \in DOMAIN versions : y <= x
    <2>2. g \in DOMAIN versions /\ \A y \in DOMAIN versions : y <= g
      BY <2>1
    <2>3. NextVersion = 1 + g
      BY <1>2 DEF NextVersion
    <2> HIDE DEF g
    <2> QED BY <2>2, <2>3 DEF Records
  <1> QED BY <1>1, <1>2

\* A record is added under a new number, which becomes the current one.
LEMMA RecordAdds ==
  ASSUME Records, NEW content, Record(content)
  PROVE  /\ Records'
         /\ DOMAIN versions' = DOMAIN versions \cup {current'}
         /\ current' \in DOMAIN versions' \ DOMAIN versions
         /\ versions'[current'] = content
         /\ \A n \in DOMAIN versions : versions'[n] = versions[n]
  <1>1. current' \in Nat \ {0} /\ \A n \in DOMAIN versions : n < current'
    BY NextVersionFresh DEF Record
  <1>2. current' \notin DOMAIN versions
    BY <1>1 DEF Records
  <1>3. versions' = [n \in DOMAIN versions \cup {current'} |->
                       IF n = current' THEN content ELSE versions[n]]
    BY DEF Record
  <1>4. \A n \in DOMAIN versions' : n <= current'
    BY <1>1, <1>3 DEF Records
  <1> QED BY <1>1, <1>2, <1>3, <1>4 DEF Records, Numbered

(***************************************************************************)
(* The invariant.                                                          *)
(***************************************************************************)

Opening == Covered \cup {"erring"}  \* where the coroutine holds an unsettled call

WithJob == {"resuming", "submitted", "polling", "downloading", "downloaded", "settled", "registered"}

\* TypeOK in four parts, with the type of why.
LifeTyped ==
  /\ kind \in {"image", "video"}
  /\ started \in 0 .. MaxRows
  /\ status \in Active \cup Final \cup {"absent"}
  /\ attempt \in 1 .. MaxAttempts
  /\ at \in Covered \cup {"none", "prepare", "resuming", "erring", "failing", "settled", "registered", "cancelled"}
  /\ mode \in {"generate", "resume"}
  /\ uploading \in BOOLEAN /\ disturbed \in BOOLEAN

CallsTyped ==
  /\ calls \in Seq(CallRow)
  /\ call \in 0 .. Len(calls) /\ myCall \in 0 .. Len(calls)
  /\ why \in Seq({"nothing", "crash", "cancel", "unresumed"}) /\ Len(why) = Len(calls)

JobsTyped ==
  /\ jobs \in Seq({"running", "ready", "lost"})
  /\ job \in 0 .. Len(jobs) /\ myJob \in 0 .. Len(jobs) /\ result.job \in 0 .. Len(jobs)
  /\ writers \subseteq DOMAIN jobs

Content == DOMAIN jobs \cup {Absent, Torn, Uploaded}

MediaTyped ==
  /\ Records
  /\ file \in Content
  /\ \A n \in DOMAIN versions : versions[n] \in Content

Typed == LifeTyped /\ CallsTyped /\ JobsTyped /\ MediaTyped

\* What the coroutine's place tells of the row and of what the coroutine holds.
Placed ==
  /\ at = "none" => mode = "generate" /\ myCall = NoCall /\ myJob = NoJob
  /\ at # "none" => status \in {"running", "cancelling"}
  /\ at \in {"linked", "submitted"} => kind = "video"
  /\ job # NoJob => kind = "video"
  /\ at = "resuming" => mode = "resume"
  /\ at \in WithJob => myJob \in DOMAIN jobs

\* What a coroutine opened it has not settled before it settles it, ...
Held == mode = "generate" /\ at \in Opening => myCall \in Pending

\* ... and a pending call of nobody has an explanation, or the scan finds it.
Explained ==
  \A c \in Pending :
    \/ why[c] # "nothing"
    \/ myCall = c /\ at \in Opening \cup {"resuming"}
    \/ call = c /\ status = "running" /\ at = "none" /\ kind = "video" /\ job # NoJob

Ledger == Placed /\ Held /\ Explained

\* Between a download and the next one nobody but the coroutine writes the
\* file of an undisturbed row.
Undisturbed ==
  /\ status \in Active /\ ~disturbed => ~uploading
  /\ at \in {"downloaded", "settled"} /\ ~disturbed => file = myJob

Delivered == at = "registered" \/ status = "succeeded"

\* From its registration on, the version of the result is there and holds it, ...
ResultThere ==
  Delivered /\ ~disturbed =>
    result.version \in DOMAIN versions /\ versions[result.version] = result.job

\* ... and the file is the current version.
FileShown ==
  Delivered /\ ~disturbed /\ ~uploading =>
    current \in DOMAIN versions /\ file = versions[current]

Media == CurrentExists /\ Undisturbed /\ ResultThere /\ FileShown

IInv == Typed /\ Ledger /\ Media

(***************************************************************************)
(* Type correctness.                                                       *)
(***************************************************************************)

LEMMA TypedIsTypeOK == Typed => TypeOK
  <1> SUFFICES ASSUME Typed PROVE TypeOK
    OBVIOUS
  <1> USE DEF Typed
  <1>1. {call, myCall} \subseteq 0 .. Len(calls) /\ DOMAIN why = DOMAIN calls
    BY DEF CallsTyped
  <1>2. {job, myJob, result.job} \subseteq 0 .. Len(jobs)
    BY DEF JobsTyped
  <1>3. DOMAIN versions \subseteq Nat \ {0} /\ current \in Nat
    BY DEF MediaTyped, Records
  <1>4. {file} \cup {versions[n] : n \in DOMAIN versions}
          \subseteq DOMAIN jobs \cup {Absent, Torn, Uploaded}
    BY DEF MediaTyped, Content
  <1> QED BY <1>1, <1>2, <1>3, <1>4 DEF LifeTyped, CallsTyped, JobsTyped, TypeOK

LEMMA InitTyped == Init => Typed
  <1> SUFFICES ASSUME Init PROVE Typed
    OBVIOUS
  <1>1. LifeTyped
    <2>1. uploading \in BOOLEAN /\ disturbed \in BOOLEAN
      BY DEF Init
    <2>2. started \in 0 .. MaxRows /\ attempt \in 1 .. MaxAttempts
      BY MediaAssumption DEF Init
    <2> QED BY <2>1, <2>2 DEF Init, LifeTyped
  <1>2. CallsTyped
    BY DEF Init, CallsTyped, NoCall
  <1>3. JobsTyped
    BY DEF Init, JobsTyped, NoJob
  <1>4. MediaTyped
    <2>1. DOMAIN versions = {}
      BY DEF Init, MediaInit
    <2>2. \A n \in DOMAIN versions : n <= 0
      BY <2>1
    <2>3. 0 \in Nat /\ current \in Nat /\ file \in Content
      BY DEF Init, MediaInit, Content
    <2> QED BY <2>1, <2>2, <2>3 DEF MediaTyped, Records, Numbered
  <1> QED BY <1>1, <1>2, <1>3, <1>4 DEF Typed

LEMMA FinishTyped ==
  ASSUME calls \in Seq(CallRow), NEW c \in 0 .. Len(calls), NEW outcome \in Settled, NEW j \in Nat,
         \/ c \in DOMAIN calls /\ FinishCall(c, outcome, j)
         \/ FinalizePendingCall(c, outcome, j)
  PROVE  calls' \in Seq(CallRow) /\ Len(calls') = Len(calls)
  <1> DEFINE settled == [status |-> outcome, job |-> j]
  <1>1. settled \in CallRow
    BY DEF CallRow
  <1> HIDE DEF settled
  <1>2. CASE c \in DOMAIN calls /\ calls' = [calls EXCEPT ![c] = settled]
    BY <1>1, <1>2
  <1>3. CASE UNCHANGED calls
    BY <1>3
  <1>4. c \in DOMAIN calls \/ c = NoCall
    BY DEF NoCall
  <1> QED BY <1>2, <1>3, <1>4 DEF FinishCall, FinalizePendingCall, settled

LEMMA LifeStep ==
  ASSUME LifeTyped, [Next]_vars
  PROVE  LifeTyped'
  <1> USE DEF LifeTyped, Active, Final, Covered, row, coroutine
  <1>1. CASE Enqueue
    BY <1>1, MediaAssumption DEF Enqueue
  <1>2. CASE Claim
    BY <1>2 DEF Claim
  <1>3. CASE Open
    BY <1>3 DEF Open
  <1>4. CASE Link
    BY <1>4 DEF Link
  <1>5. CASE Submit
    BY <1>5 DEF Submit
  <1>6. CASE PersistJob
    BY <1>6 DEF PersistJob
  <1>7. CASE Download
    BY <1>7 DEF Download
  <1>8. CASE Settle
    BY <1>8 DEF Settle
  <1>9. CASE Register
    BY <1>9 DEF Register, NewVersion
  <1>10. CASE Succeed
    BY <1>10 DEF Succeed, End, Gone
  <1>11. CASE Retry
    BY <1>11, MediaAssumption DEF Retry, End, Gone
  <1>12. CASE Fail
    BY <1>12 DEF Fail, End, Gone
  <1>13. CASE Raise
    BY <1>13 DEF Raise, Because, Caught, Raising
  <1>14. CASE Report
    BY <1>14 DEF Report
  <1>15. CASE Crash
    BY <1>15 DEF Crash, Gone
  <1>16. CASE Recover
    BY <1>16 DEF Recover, End, Gone, Resumable, Because
  <1>17. CASE Cancel
    BY <1>17 DEF Cancel
  <1>18. CASE Cancelled
    BY <1>18 DEF Cancelled, End, Gone
  <1>19. CASE \E j \in DOMAIN jobs : Ends(j)
    BY <1>19 DEF Ends
  <1>20. CASE \E j \in DOMAIN jobs : Written(j)
    BY <1>20 DEF Written, Mine
  <1>21. CASE UploadFile
    BY <1>21 DEF UploadFile
  <1>22. CASE UploadVersion
    BY <1>22 DEF UploadVersion
  <1>23. CASE \E n \in DOMAIN versions : Restore(n)
    BY <1>23 DEF Restore, ByUser
  <1>24. CASE \E n \in DOMAIN versions : Delete(n)
    BY <1>24 DEF Delete, ByUser
  <1>25. CASE UNCHANGED vars
    BY <1>25 DEF vars
  <1>26. CASE ResumeJob
    BY <1>26 DEF ResumeJob
  <1> QED BY <1>1, <1>2, <1>3, <1>4, <1>5, <1>6, <1>7, <1>8, <1>9, <1>10, <1>11, <1>12, <1>13, <1>14, <1>15, <1>16, <1>17, <1>18, <1>19, <1>20, <1>21, <1>22, <1>23, <1>24, <1>25, <1>26 DEF Next

LEMMA CallsStep ==
  ASSUME Typed, Held, [Next]_vars
  PROVE  CallsTyped'
  <1> USE DEF Typed, CallsTyped, NoCall, NoJob, row, coroutine
  <1>1. CASE Enqueue
    BY <1>1 DEF Enqueue
  <1>2. CASE Claim
    BY <1>2 DEF Claim
  <1>3. CASE Open
    BY <1>3 DEF Open, StartCall, CallRow
  <1>4. CASE Link
    BY <1>4 DEF Link
  <1>5. CASE Submit
    BY <1>5 DEF Submit
  <1>6. CASE PersistJob
    BY <1>6 DEF PersistJob
  <1>7. CASE Download
    BY <1>7 DEF Download
  <1>8. CASE Settle
    BY <1>8, FinishTyped DEF Settle, Held, Opening, Covered, Settled, Pending, LifeTyped, JobsTyped
  <1>9. CASE Register
    BY <1>9 DEF Register
  <1>10. CASE Succeed
    BY <1>10 DEF Succeed, End, Gone
  <1>11. CASE Retry
    BY <1>11 DEF Retry, End, Gone
  <1>12. CASE Fail
    BY <1>12 DEF Fail, End, Gone
  <1>13. CASE Raise
    BY <1>13 DEF Raise, Because
  <1>14. CASE Report
    BY <1>14, FinishTyped DEF Report, Held, Opening, Covered, Settled, Pending, LifeTyped, JobsTyped
  <1>15. CASE Crash
    BY <1>15 DEF Crash, Gone, Because, Opened
  <1>16. CASE Recover
    BY <1>16 DEF Recover, End, Gone, Resumable, Because
  <1>17. CASE Cancel
    BY <1>17 DEF Cancel, Because
  <1>18. CASE Cancelled
    BY <1>18 DEF Cancelled, End, Gone
  <1>19. CASE \E j \in DOMAIN jobs : Ends(j)
    BY <1>19 DEF Ends
  <1>20. CASE \E j \in DOMAIN jobs : Written(j)
    BY <1>20 DEF Written
  <1>21. CASE UploadFile
    BY <1>21 DEF UploadFile
  <1>22. CASE UploadVersion
    BY <1>22 DEF UploadVersion
  <1>23. CASE \E n \in DOMAIN versions : Restore(n)
    BY <1>23 DEF Restore, ByUser
  <1>24. CASE \E n \in DOMAIN versions : Delete(n)
    BY <1>24 DEF Delete, ByUser
  <1>25. CASE UNCHANGED vars
    BY <1>25 DEF vars
  <1>26. CASE ResumeJob
    BY <1>26 DEF ResumeJob
  <1> QED BY <1>1, <1>2, <1>3, <1>4, <1>5, <1>6, <1>7, <1>8, <1>9, <1>10, <1>11, <1>12, <1>13, <1>14, <1>15, <1>16, <1>17, <1>18, <1>19, <1>20, <1>21, <1>22, <1>23, <1>24, <1>25, <1>26 DEF Next

LEMMA JobsStep ==
  ASSUME JobsTyped, Placed, [Next]_vars
  PROVE  JobsTyped'
  <1> USE DEF JobsTyped, NoJob, row, coroutine
  <1>1. CASE Enqueue
    BY <1>1 DEF Enqueue
  <1>2. CASE Claim
    BY <1>2 DEF Claim
  <1>3. CASE Open
    BY <1>3 DEF Open
  <1>4. CASE Link
    BY <1>4 DEF Link
  <1>5. CASE Submit
    BY <1>5 DEF Submit
  <1>6. CASE PersistJob
    BY <1>6 DEF PersistJob
  <1>7. CASE Download
    BY <1>7 DEF Download, Placed, WithJob
  <1>8. CASE Settle
    BY <1>8 DEF Settle
  <1>9. CASE Register
    BY <1>9 DEF Register
  <1>10. CASE Succeed
    BY <1>10 DEF Succeed, End, Gone
  <1>11. CASE Retry
    BY <1>11 DEF Retry, End, Gone
  <1>12. CASE Fail
    BY <1>12 DEF Fail, End, Gone
  <1>13. CASE Raise
    BY <1>13 DEF Raise, Because
  <1>14. CASE Report
    BY <1>14 DEF Report
  <1>15. CASE Crash
    BY <1>15 DEF Crash, Gone
  <1>16. CASE Recover
    BY <1>16 DEF Recover, End, Gone, Resumable, Because
  <1>17. CASE Cancel
    BY <1>17 DEF Cancel
  <1>18. CASE Cancelled
    BY <1>18 DEF Cancelled, End, Gone
  <1>19. CASE \E j \in DOMAIN jobs : Ends(j)
    BY <1>19 DEF Ends
  <1>20. CASE \E j \in DOMAIN jobs : Written(j)
    BY <1>20 DEF Written
  <1>21. CASE UploadFile
    BY <1>21 DEF UploadFile
  <1>22. CASE UploadVersion
    BY <1>22 DEF UploadVersion
  <1>23. CASE \E n \in DOMAIN versions : Restore(n)
    BY <1>23 DEF Restore, ByUser
  <1>24. CASE \E n \in DOMAIN versions : Delete(n)
    BY <1>24 DEF Delete, ByUser
  <1>25. CASE UNCHANGED vars
    BY <1>25 DEF vars
  <1>26. CASE ResumeJob
    BY <1>26 DEF ResumeJob
  <1> QED BY <1>1, <1>2, <1>3, <1>4, <1>5, <1>6, <1>7, <1>8, <1>9, <1>10, <1>11, <1>12, <1>13, <1>14, <1>15, <1>16, <1>17, <1>18, <1>19, <1>20, <1>21, <1>22, <1>23, <1>24, <1>25, <1>26 DEF Next

\* What a step may do to the media.
MediaMoves ==
  \/ UNCHANGED <<versions, current>> /\ file' \in {file, Torn, Uploaded} \cup writers
  \/ Record(file) /\ file' \in {file, Uploaded}
  \/ \E n \in DOMAIN versions : Restored(n) \/ Deleted(n)

LEMMA StepMoves ==
  ASSUME [Next]_vars
  PROVE  MediaMoves
  <1> USE DEF MediaMoves, media
  <1>1. CASE Enqueue
    BY <1>1 DEF Enqueue
  <1>2. CASE Claim
    BY <1>2 DEF Claim
  <1>3. CASE Open
    BY <1>3 DEF Open, EnsureCurrentTracked, AddVersion
  <1>4. CASE Link
    BY <1>4 DEF Link
  <1>5. CASE Submit
    BY <1>5 DEF Submit
  <1>6. CASE PersistJob
    BY <1>6 DEF PersistJob
  <1>7. CASE Download
    BY <1>7 DEF Download
  <1>8. CASE Settle
    BY <1>8 DEF Settle
  <1>9. CASE Register
    BY <1>9 DEF Register, NewVersion, AddVersion
  <1>10. CASE Succeed
    BY <1>10 DEF Succeed
  <1>11. CASE Retry
    BY <1>11 DEF Retry
  <1>12. CASE Fail
    BY <1>12 DEF Fail
  <1>13. CASE Raise
    BY <1>13 DEF Raise, Because
  <1>14. CASE Report
    BY <1>14 DEF Report
  <1>15. CASE Crash
    BY <1>15 DEF Crash
  <1>16. CASE Recover
    BY <1>16 DEF Recover, Resumable, Because
  <1>17. CASE Cancel
    BY <1>17 DEF Cancel
  <1>18. CASE Cancelled
    BY <1>18 DEF Cancelled
  <1>19. CASE \E j \in DOMAIN jobs : Ends(j)
    BY <1>19 DEF Ends
  <1>20. CASE \E j \in DOMAIN jobs : Written(j)
    BY <1>20 DEF Written
  <1>21. CASE UploadFile
    BY <1>21 DEF UploadFile
  <1>22. CASE UploadVersion
    BY <1>22 DEF UploadVersion, AddVersion
  <1>23. CASE \E n \in DOMAIN versions : Restore(n)
    BY <1>23 DEF Restore, ByUser, Restored
  <1>24. CASE \E n \in DOMAIN versions : Delete(n)
    BY <1>24 DEF Delete, ByUser, Deleted
  <1>25. CASE UNCHANGED vars
    BY <1>25 DEF vars
  <1>26. CASE ResumeJob
    BY <1>26 DEF ResumeJob
  <1> QED BY <1>1, <1>2, <1>3, <1>4, <1>5, <1>6, <1>7, <1>8, <1>9, <1>10, <1>11, <1>12, <1>13, <1>14, <1>15, <1>16, <1>17, <1>18, <1>19, <1>20, <1>21, <1>22, <1>23, <1>24, <1>25, <1>26 DEF Next

LEMMA JobsStay ==
  ASSUME JobsTyped, [Next]_vars
  PROVE  DOMAIN jobs \subseteq DOMAIN jobs'
  <1> USE DEF JobsTyped, row, coroutine
  <1>1. CASE Enqueue
    BY <1>1 DEF Enqueue
  <1>2. CASE Claim
    BY <1>2 DEF Claim
  <1>3. CASE Open
    BY <1>3 DEF Open
  <1>4. CASE Link
    BY <1>4 DEF Link
  <1>5. CASE Submit
    BY <1>5 DEF Submit
  <1>6. CASE PersistJob
    BY <1>6 DEF PersistJob
  <1>7. CASE Download
    BY <1>7 DEF Download
  <1>8. CASE Settle
    BY <1>8 DEF Settle
  <1>9. CASE Register
    BY <1>9 DEF Register
  <1>10. CASE Succeed
    BY <1>10 DEF Succeed, End, Gone
  <1>11. CASE Retry
    BY <1>11 DEF Retry, End, Gone
  <1>12. CASE Fail
    BY <1>12 DEF Fail, End, Gone
  <1>13. CASE Raise
    BY <1>13 DEF Raise, Because
  <1>14. CASE Report
    BY <1>14 DEF Report
  <1>15. CASE Crash
    BY <1>15 DEF Crash, Gone
  <1>16. CASE Recover
    BY <1>16 DEF Recover, End, Gone, Resumable, Because
  <1>17. CASE Cancel
    BY <1>17 DEF Cancel
  <1>18. CASE Cancelled
    BY <1>18 DEF Cancelled, End, Gone
  <1>19. CASE \E j \in DOMAIN jobs : Ends(j)
    BY <1>19 DEF Ends
  <1>20. CASE \E j \in DOMAIN jobs : Written(j)
    BY <1>20 DEF Written
  <1>21. CASE UploadFile
    BY <1>21 DEF UploadFile
  <1>22. CASE UploadVersion
    BY <1>22 DEF UploadVersion
  <1>23. CASE \E n \in DOMAIN versions : Restore(n)
    BY <1>23 DEF Restore, ByUser
  <1>24. CASE \E n \in DOMAIN versions : Delete(n)
    BY <1>24 DEF Delete, ByUser
  <1>25. CASE UNCHANGED vars
    BY <1>25 DEF vars
  <1>26. CASE ResumeJob
    BY <1>26 DEF ResumeJob
  <1> QED BY <1>1, <1>2, <1>3, <1>4, <1>5, <1>6, <1>7, <1>8, <1>9, <1>10, <1>11, <1>12, <1>13, <1>14, <1>15, <1>16, <1>17, <1>18, <1>19, <1>20, <1>21, <1>22, <1>23, <1>24, <1>25, <1>26 DEF Next

LEMMA MovesTyped ==
  ASSUME MediaTyped, writers \subseteq DOMAIN jobs, DOMAIN jobs \subseteq DOMAIN jobs', MediaMoves
  PROVE  MediaTyped'
  <1>1. Content \subseteq Content'
    BY DEF Content
  <1>2. file \in Content /\ \A n \in DOMAIN versions : versions[n] \in Content
    BY DEF MediaTyped
  <1>3. Records
    BY DEF MediaTyped
  <1>4. CASE UNCHANGED <<versions, current>> /\ file' \in {file, Torn, Uploaded} \cup writers
    <2>1. Records'
      BY <1>3, <1>4 DEF Records, Numbered
    <2>2. file' \in Content
      BY <1>2, <1>4 DEF Content
    <2> QED BY <1>1, <1>2, <1>4, <2>1, <2>2 DEF MediaTyped
  <1>5. CASE Record(file) /\ file' \in {file, Uploaded}
    <2>1. file' \in Content
      BY <1>2, <1>5 DEF Content
    <2> QED BY <1>1, <1>2, <1>3, <1>5, <2>1, RecordAdds DEF MediaTyped
  <1>6. ASSUME NEW n \in DOMAIN versions, Restored(n) PROVE MediaTyped'
    BY <1>1, <1>2, <1>3, <1>6 DEF Restored, MediaTyped, Records, Numbered
  <1>7. ASSUME NEW n \in DOMAIN versions, Deleted(n) PROVE MediaTyped'
    BY <1>1, <1>2, <1>3, <1>7 DEF Deleted, MediaTyped, Records, Numbered
  <1> QED BY <1>4, <1>5, <1>6, <1>7 DEF MediaMoves

LEMMA TypedStep ==
  ASSUME Typed, Placed, Held, [Next]_vars
  PROVE  Typed'
  <1>1. LifeTyped' /\ CallsTyped' /\ JobsTyped'
    BY LifeStep, CallsStep, JobsStep DEF Typed
  <1>2. MediaTyped'
    BY StepMoves, JobsStay, MovesTyped DEF Typed, JobsTyped
  <1> QED BY <1>1, <1>2 DEF Typed

(***************************************************************************)
(* The ledger.                                                             *)
(***************************************************************************)

LEMMA PlacedStep ==
  ASSUME JobsTyped, Placed, [Next]_vars
  PROVE  Placed'
  <1> USE DEF JobsTyped, Placed, WithJob, NoJob, row, coroutine
  <1>1. CASE Enqueue
    BY <1>1 DEF Enqueue
  <1>2. CASE Claim
    BY <1>2 DEF Claim
  <1>3. CASE Open
    BY <1>3 DEF Open
  <1>4. CASE Link
    BY <1>4 DEF Link
  <1>5. CASE Submit
    BY <1>5 DEF Submit
  <1>6. CASE PersistJob
    BY <1>6 DEF PersistJob
  <1>7. CASE Download
    BY <1>7 DEF Download
  <1>8. CASE Settle
    BY <1>8 DEF Settle
  <1>9. CASE Register
    BY <1>9 DEF Register
  <1>10. CASE Succeed
    BY <1>10 DEF Succeed, End, Gone
  <1>11. CASE Retry
    BY <1>11 DEF Retry, End, Gone
  <1>12. CASE Fail
    BY <1>12 DEF Fail, End, Gone
  <1>13. CASE Raise
    BY <1>13 DEF Raise, Because, Caught, Raising, JobLost, Covered
  <1>14. CASE Report
    BY <1>14 DEF Report
  <1>15. CASE Crash
    BY <1>15 DEF Crash, Gone
  <1>16. CASE Recover
    BY <1>16 DEF Recover, End, Gone, Resumable, Because
  <1>17. CASE Cancel
    BY <1>17 DEF Cancel
  <1>18. CASE Cancelled
    BY <1>18 DEF Cancelled, End, Gone
  <1>19. CASE \E j \in DOMAIN jobs : Ends(j)
    BY <1>19 DEF Ends
  <1>20. CASE \E j \in DOMAIN jobs : Written(j)
    BY <1>20 DEF Written, Mine
  <1>21. CASE UploadFile
    BY <1>21 DEF UploadFile
  <1>22. CASE UploadVersion
    BY <1>22 DEF UploadVersion
  <1>23. CASE \E n \in DOMAIN versions : Restore(n)
    BY <1>23 DEF Restore, ByUser
  <1>24. CASE \E n \in DOMAIN versions : Delete(n)
    BY <1>24 DEF Delete, ByUser
  <1>25. CASE UNCHANGED vars
    BY <1>25 DEF vars
  <1>26. CASE ResumeJob
    BY <1>26 DEF ResumeJob
  <1> QED BY <1>1, <1>2, <1>3, <1>4, <1>5, <1>6, <1>7, <1>8, <1>9, <1>10, <1>11, <1>12, <1>13, <1>14, <1>15, <1>16, <1>17, <1>18, <1>19, <1>20, <1>21, <1>22, <1>23, <1>24, <1>25, <1>26 DEF Next

\* A call stays pending while neither the coroutine nor a resume settles it.
LEMMA HeldStep ==
  ASSUME LifeTyped, CallsTyped, Placed, Held, [Next]_vars
  PROVE  Held'
  <1> USE DEF LifeTyped, CallsTyped, Held, Opening, Covered, Pending, row, coroutine
  <1>1. CASE Enqueue
    BY <1>1 DEF Enqueue
  <1>2. CASE Claim
    BY <1>2 DEF Claim
  <1>3. CASE Open
    BY <1>3 DEF Open, StartCall
  <1>4. CASE Link
    BY <1>4 DEF Link
  <1>5. CASE Submit
    BY <1>5 DEF Submit
  <1>6. CASE PersistJob
    BY <1>6 DEF PersistJob
  <1>7. CASE Download
    BY <1>7 DEF Download
  <1>8. CASE Settle
    BY <1>8 DEF Settle, FinishCall, FinalizePendingCall
  <1>9. CASE Register
    BY <1>9 DEF Register
  <1>10. CASE Succeed
    BY <1>10 DEF Succeed, End, Gone
  <1>11. CASE Retry
    BY <1>11 DEF Retry, End, Gone
  <1>12. CASE Fail
    BY <1>12 DEF Fail, End, Gone
  <1>13. CASE Raise
    BY <1>13 DEF Raise, Because, Caught, Raising, JobLost, Covered
  <1>14. CASE Report
    BY <1>14 DEF Report, FinishCall, FinalizePendingCall
  <1>15. CASE Crash
    BY <1>15 DEF Crash, Gone
  <1>16. CASE Recover
    BY <1>16 DEF Recover, End, Gone, Resumable, Because
  <1>17. CASE Cancel
    BY <1>17 DEF Cancel
  <1>18. CASE Cancelled
    BY <1>18 DEF Cancelled, End, Gone
  <1>19. CASE \E j \in DOMAIN jobs : Ends(j)
    BY <1>19 DEF Ends
  <1>20. CASE \E j \in DOMAIN jobs : Written(j)
    BY <1>20 DEF Written, Mine
  <1>21. CASE UploadFile
    BY <1>21 DEF UploadFile
  <1>22. CASE UploadVersion
    BY <1>22 DEF UploadVersion
  <1>23. CASE \E n \in DOMAIN versions : Restore(n)
    BY <1>23 DEF Restore, ByUser
  <1>24. CASE \E n \in DOMAIN versions : Delete(n)
    BY <1>24 DEF Delete, ByUser
  <1>25. CASE UNCHANGED vars
    BY <1>25 DEF vars
  <1>26. CASE ResumeJob
    BY <1>26 DEF ResumeJob, Placed
  <1> QED BY <1>1, <1>2, <1>3, <1>4, <1>5, <1>6, <1>7, <1>8, <1>9, <1>10, <1>11, <1>12, <1>13, <1>14, <1>15, <1>16, <1>17, <1>18, <1>19, <1>20, <1>21, <1>22, <1>23, <1>24, <1>25, <1>26 DEF Next

LEMMA ExplainedStep ==
  ASSUME LifeTyped, CallsTyped, Placed, Explained, [Next]_vars
  PROVE  Explained'
  <1> USE DEF CallsTyped, Placed, Explained, Opening, Covered, Pending, NoCall, NoJob, row, coroutine
  <1>1. CASE Enqueue
    BY <1>1 DEF Enqueue, Final
  <1>2. CASE Claim
    BY <1>2 DEF Claim
  <1>3. CASE Open
    BY <1>3 DEF Open, StartCall
  <1>4. CASE Link
    BY <1>4 DEF Link
  <1>5. CASE Submit
    BY <1>5 DEF Submit
  <1>6. CASE PersistJob
    BY <1>6 DEF PersistJob
  <1>7. CASE Download
    BY <1>7 DEF Download
  <1>8. CASE Settle
    BY <1>8 DEF Settle, FinishCall, FinalizePendingCall
  <1>9. CASE Register
    BY <1>9 DEF Register
  <1>10. CASE Succeed
    BY <1>10 DEF Succeed, End, Gone
  <1>11. CASE Retry
    BY <1>11 DEF Retry, End, Gone
  <1>12. CASE Fail
    BY <1>12 DEF Fail, End, Gone
  <1>13. CASE Raise
    BY <1>13 DEF Raise, Because, Caught, Raising, JobLost
  <1>14. CASE Report
    BY <1>14 DEF Report, FinishCall, FinalizePendingCall
  <1>15. CASE Crash
    BY <1>15 DEF Crash, Gone, Because, Opened
  <1>16. CASE Recover
    BY <1>16 DEF Recover, End, Gone, Resumable, Because
  <1>17. CASE Cancel
    BY <1>17 DEF Cancel, Because, Opened
  <1>18. CASE Cancelled
    BY <1>18 DEF Cancelled, End, Gone
  <1>19. CASE \E j \in DOMAIN jobs : Ends(j)
    BY <1>19 DEF Ends
  <1>20. CASE \E j \in DOMAIN jobs : Written(j)
    BY <1>20 DEF Written, Mine
  <1>21. CASE UploadFile
    BY <1>21 DEF UploadFile
  <1>22. CASE UploadVersion
    BY <1>22 DEF UploadVersion
  <1>23. CASE \E n \in DOMAIN versions : Restore(n)
    BY <1>23 DEF Restore, ByUser
  <1>24. CASE \E n \in DOMAIN versions : Delete(n)
    BY <1>24 DEF Delete, ByUser
  <1>25. CASE UNCHANGED vars
    BY <1>25 DEF vars
  <1>26. CASE ResumeJob
    BY <1>26 DEF ResumeJob
  <1> QED BY <1>1, <1>2, <1>3, <1>4, <1>5, <1>6, <1>7, <1>8, <1>9, <1>10, <1>11, <1>12, <1>13, <1>14, <1>15, <1>16, <1>17, <1>18, <1>19, <1>20, <1>21, <1>22, <1>23, <1>24, <1>25, <1>26 DEF Next

LEMMA SettledStep ==
  ASSUME CallsTyped, Held, [Next]_vars
  PROVE  \A c \in DOMAIN calls \ Pending : calls'[c] = calls[c]
  <1> USE DEF CallsTyped, Held, Opening, Covered, Pending, row, coroutine
  <1>1. CASE Enqueue
    BY <1>1 DEF Enqueue
  <1>2. CASE Claim
    BY <1>2 DEF Claim
  <1>3. CASE Open
    BY <1>3 DEF Open, StartCall
  <1>4. CASE Link
    BY <1>4 DEF Link
  <1>5. CASE Submit
    BY <1>5 DEF Submit
  <1>6. CASE PersistJob
    BY <1>6 DEF PersistJob
  <1>7. CASE Download
    BY <1>7 DEF Download
  <1>8. CASE Settle
    BY <1>8 DEF Settle, FinishCall, FinalizePendingCall
  <1>9. CASE Register
    BY <1>9 DEF Register
  <1>10. CASE Succeed
    BY <1>10 DEF Succeed
  <1>11. CASE Retry
    BY <1>11 DEF Retry, End, Gone
  <1>12. CASE Fail
    BY <1>12 DEF Fail
  <1>13. CASE Raise
    BY <1>13 DEF Raise, Because
  <1>14. CASE Report
    BY <1>14 DEF Report, FinishCall, FinalizePendingCall
  <1>15. CASE Crash
    BY <1>15 DEF Crash
  <1>16. CASE Recover
    BY <1>16 DEF Recover, Resumable, Because
  <1>17. CASE Cancel
    BY <1>17 DEF Cancel
  <1>18. CASE Cancelled
    BY <1>18 DEF Cancelled
  <1>19. CASE \E j \in DOMAIN jobs : Ends(j)
    BY <1>19 DEF Ends
  <1>20. CASE \E j \in DOMAIN jobs : Written(j)
    BY <1>20 DEF Written
  <1>21. CASE UploadFile
    BY <1>21 DEF UploadFile
  <1>22. CASE UploadVersion
    BY <1>22 DEF UploadVersion
  <1>23. CASE \E n \in DOMAIN versions : Restore(n)
    BY <1>23 DEF Restore, ByUser
  <1>24. CASE \E n \in DOMAIN versions : Delete(n)
    BY <1>24 DEF Delete, ByUser
  <1>25. CASE UNCHANGED vars
    BY <1>25 DEF vars
  <1>26. CASE ResumeJob
    BY <1>26 DEF ResumeJob
  <1> QED BY <1>1, <1>2, <1>3, <1>4, <1>5, <1>6, <1>7, <1>8, <1>9, <1>10, <1>11, <1>12, <1>13, <1>14, <1>15, <1>16, <1>17, <1>18, <1>19, <1>20, <1>21, <1>22, <1>23, <1>24, <1>25, <1>26 DEF Next

(***************************************************************************)
(* The media.                                                              *)
(***************************************************************************)

LEMMA CurrentMoves ==
  ASSUME Records, CurrentExists, MediaMoves
  PROVE  CurrentExists'
  <1>1. CASE Record(file)
    BY <1>1, RecordAdds DEF CurrentExists
  <1>2. ASSUME NEW n \in DOMAIN versions, Restored(n) PROVE CurrentExists'
    BY <1>2 DEF Restored, CurrentExists
  <1>3. ASSUME NEW n \in DOMAIN versions, Deleted(n) PROVE CurrentExists'
    BY <1>3 DEF Deleted, CurrentExists
  <1>4. CASE UNCHANGED <<versions, current>>
    BY <1>4 DEF CurrentExists
  <1> QED BY <1>1, <1>2, <1>3, <1>4 DEF MediaMoves

LEMMA UndisturbedStep ==
  ASSUME LifeTyped, Placed, Undisturbed, [Next]_vars
  PROVE  Undisturbed'
  <1> USE DEF LifeTyped, Placed, Undisturbed, Active, Final, media, row, coroutine
  <1>1. CASE Enqueue
    BY <1>1 DEF Enqueue
  <1>2. CASE Claim
    BY <1>2 DEF Claim
  <1>3. CASE Open
    BY <1>3 DEF Open, EnsureCurrentTracked, AddVersion, Record
  <1>4. CASE Link
    BY <1>4 DEF Link
  <1>5. CASE Submit
    BY <1>5 DEF Submit
  <1>6. CASE PersistJob
    BY <1>6 DEF PersistJob
  <1>7. CASE Download
    BY <1>7 DEF Download
  <1>8. CASE Settle
    BY <1>8 DEF Settle
  <1>9. CASE Register
    BY <1>9 DEF Register, NewVersion, AddVersion
  <1>10. CASE Succeed
    BY <1>10 DEF Succeed, End, Gone
  <1>11. CASE Retry
    BY <1>11 DEF Retry, End, Gone
  <1>12. CASE Fail
    BY <1>12 DEF Fail, End, Gone
  <1>13. CASE Raise
    BY <1>13 DEF Raise, Because, Caught, Covered
  <1>14. CASE Report
    BY <1>14 DEF Report
  <1>15. CASE Crash
    BY <1>15 DEF Crash, Gone
  <1>16. CASE Recover
    BY <1>16 DEF Recover, End, Gone, Resumable, Because
  <1>17. CASE Cancel
    BY <1>17 DEF Cancel
  <1>18. CASE Cancelled
    BY <1>18 DEF Cancelled, End, Gone
  <1>19. CASE \E j \in DOMAIN jobs : Ends(j)
    BY <1>19 DEF Ends
  <1>20. CASE \E j \in DOMAIN jobs : Written(j)
    <2> PICK j \in DOMAIN jobs : Written(j)
      BY <1>20
    <2>1. CASE Mine(j)
      BY <2>1 DEF Written, Mine
    <2>2. CASE ~Mine(j)
      <3>1. disturbed'
        BY <2>2 DEF Written
      <3> QED BY <3>1, <2>2 DEF Written, Mine
    <2> QED BY <2>1, <2>2
  <1>21. CASE UploadFile
    BY <1>21 DEF UploadFile
  <1>22. CASE UploadVersion
    BY <1>22 DEF UploadVersion, AddVersion
  <1>23. CASE \E n \in DOMAIN versions : Restore(n)
    BY <1>23 DEF Restore, ByUser, Restored
  <1>24. CASE \E n \in DOMAIN versions : Delete(n)
    BY <1>24 DEF Delete, ByUser, Deleted
  <1>25. CASE UNCHANGED vars
    BY <1>25 DEF vars
  <1>26. CASE ResumeJob
    BY <1>26 DEF ResumeJob
  <1> QED BY <1>1, <1>2, <1>3, <1>4, <1>5, <1>6, <1>7, <1>8, <1>9, <1>10, <1>11, <1>12, <1>13, <1>14, <1>15, <1>16, <1>17, <1>18, <1>19, <1>20, <1>21, <1>22, <1>23, <1>24, <1>25, <1>26 DEF Next

LEMMA ResultStep ==
  ASSUME LifeTyped, Records, Placed, Undisturbed, ResultThere, [Next]_vars
  PROVE  ResultThere'
  <1> USE DEF ResultThere, Delivered, Placed, Active, media, row, coroutine
  <1>1. CASE Enqueue
    BY <1>1 DEF Enqueue
  <1>2. CASE Claim
    BY <1>2 DEF Claim
  <1>3. CASE Open
    BY <1>3, RecordAdds DEF Open, EnsureCurrentTracked, AddVersion
  <1>4. CASE Link
    BY <1>4 DEF Link
  <1>5. CASE Submit
    BY <1>5 DEF Submit
  <1>6. CASE PersistJob
    BY <1>6 DEF PersistJob
  <1>7. CASE Download
    BY <1>7 DEF Download
  <1>8. CASE Settle
    BY <1>8 DEF Settle
  <1>9. CASE Register
    BY <1>9, RecordAdds DEF Register, NewVersion, AddVersion, Undisturbed
  <1>10. CASE Succeed
    BY <1>10 DEF Succeed, End, Gone
  <1>11. CASE Retry
    BY <1>11 DEF Retry, End, Gone
  <1>12. CASE Fail
    BY <1>12 DEF Fail, End, Gone
  <1>13. CASE Raise
    BY <1>13 DEF Raise, Because, Caught, Covered
  <1>14. CASE Report
    BY <1>14 DEF Report
  <1>15. CASE Crash
    BY <1>15 DEF Crash, Gone
  <1>16. CASE Recover
    BY <1>16 DEF Recover, End, Gone, Resumable, Because
  <1>17. CASE Cancel
    BY <1>17 DEF Cancel
  <1>18. CASE Cancelled
    BY <1>18 DEF Cancelled, End, Gone
  <1>19. CASE \E j \in DOMAIN jobs : Ends(j)
    BY <1>19 DEF Ends
  <1>20. CASE \E j \in DOMAIN jobs : Written(j)
    BY <1>20 DEF Written, Mine
  <1>21. CASE UploadFile
    BY <1>21, RecordAdds DEF UploadFile
  <1>22. CASE UploadVersion
    BY <1>22, RecordAdds DEF UploadVersion, AddVersion
  <1>23. CASE \E n \in DOMAIN versions : Restore(n)
    BY <1>23 DEF Restore, ByUser, Restored
  <1>24. CASE \E n \in DOMAIN versions : Delete(n)
    BY <1>24 DEF Delete, ByUser, Deleted
  <1>25. CASE UNCHANGED vars
    BY <1>25 DEF vars
  <1>26. CASE ResumeJob
    BY <1>26 DEF ResumeJob
  <1> QED BY <1>1, <1>2, <1>3, <1>4, <1>5, <1>6, <1>7, <1>8, <1>9, <1>10, <1>11, <1>12, <1>13, <1>14, <1>15, <1>16, <1>17, <1>18, <1>19, <1>20, <1>21, <1>22, <1>23, <1>24, <1>25, <1>26 DEF Next

LEMMA FileStep ==
  ASSUME LifeTyped, Records, Placed, Undisturbed, FileShown, [Next]_vars
  PROVE  FileShown'
  <1> USE DEF FileShown, Delivered, Placed, Active, media, row, coroutine
  <1>1. CASE Enqueue
    BY <1>1 DEF Enqueue
  <1>2. CASE Claim
    BY <1>2 DEF Claim
  <1>3. CASE Open
    BY <1>3, RecordAdds DEF Open, EnsureCurrentTracked, AddVersion
  <1>4. CASE Link
    BY <1>4 DEF Link
  <1>5. CASE Submit
    BY <1>5 DEF Submit
  <1>6. CASE PersistJob
    BY <1>6 DEF PersistJob
  <1>7. CASE Download
    BY <1>7 DEF Download
  <1>8. CASE Settle
    BY <1>8 DEF Settle
  <1>9. CASE Register
    BY <1>9, RecordAdds DEF Register, NewVersion, AddVersion, Undisturbed
  <1>10. CASE Succeed
    BY <1>10 DEF Succeed, End, Gone
  <1>11. CASE Retry
    BY <1>11 DEF Retry, End, Gone
  <1>12. CASE Fail
    BY <1>12 DEF Fail, End, Gone
  <1>13. CASE Raise
    BY <1>13 DEF Raise, Because, Caught, Covered
  <1>14. CASE Report
    BY <1>14 DEF Report
  <1>15. CASE Crash
    BY <1>15 DEF Crash, Gone
  <1>16. CASE Recover
    BY <1>16 DEF Recover, End, Gone, Resumable, Because
  <1>17. CASE Cancel
    BY <1>17 DEF Cancel
  <1>18. CASE Cancelled
    BY <1>18 DEF Cancelled, End, Gone
  <1>19. CASE \E j \in DOMAIN jobs : Ends(j)
    BY <1>19 DEF Ends
  <1>20. CASE \E j \in DOMAIN jobs : Written(j)
    BY <1>20 DEF Written, Mine
  <1>21. CASE UploadFile
    BY <1>21, RecordAdds DEF UploadFile
  <1>22. CASE UploadVersion
    BY <1>22, RecordAdds DEF UploadVersion, AddVersion
  <1>23. CASE \E n \in DOMAIN versions : Restore(n)
    BY <1>23 DEF Restore, ByUser, Restored
  <1>24. CASE \E n \in DOMAIN versions : Delete(n)
    <2> PICK n \in DOMAIN versions : Delete(n)
      BY <1>24
    <2>1. versions' = [m \in DOMAIN versions \ {n} |-> versions[m]] /\ n # current
      BY DEF Delete, Deleted
    <2>2. UNCHANGED <<file, current, status, at, uploading>>
      BY DEF Delete, Deleted, ByUser
    <2>3. disturbed => disturbed'
      BY DEF Delete, ByUser
    <2> QED BY <2>1, <2>2, <2>3
  <1>25. CASE UNCHANGED vars
    BY <1>25 DEF vars
  <1>26. CASE ResumeJob
    BY <1>26 DEF ResumeJob
  <1> QED BY <1>1, <1>2, <1>3, <1>4, <1>5, <1>6, <1>7, <1>8, <1>9, <1>10, <1>11, <1>12, <1>13, <1>14, <1>15, <1>16, <1>17, <1>18, <1>19, <1>20, <1>21, <1>22, <1>23, <1>24, <1>25, <1>26 DEF Next

(***************************************************************************)
(* The theorems.                                                           *)
(***************************************************************************)

LEMMA InitIInv == Init => IInv
  <1> SUFFICES ASSUME Init PROVE IInv
    OBVIOUS
  <1>1. Ledger
    BY DEF Init, Ledger, Placed, Held, Explained, Opening, Covered, WithJob, Pending, NoJob
  <1>2. Media
    BY DEF Init, MediaInit, Media, CurrentExists, Undisturbed, ResultThere, FileShown, Delivered
  <1> QED BY <1>1, <1>2, InitTyped DEF IInv

LEMMA StepIInv ==
  ASSUME IInv, [Next]_vars
  PROVE  IInv'
  <1> USE DEF IInv, Typed, Ledger, Media
  <1>1. Typed'
    BY TypedStep
  <1>2. Ledger'
    BY PlacedStep, HeldStep, ExplainedStep
  <1>3. CurrentExists'
    BY StepMoves, CurrentMoves DEF MediaTyped
  <1>4. Undisturbed' /\ ResultThere' /\ FileShown'
    BY UndisturbedStep, ResultStep, FileStep DEF MediaTyped
  <1> QED BY <1>1, <1>2, <1>3, <1>4

LEMMA MediaInvariant == Spec => []IInv
  <1>1. IInv /\ [Next]_vars => IInv'
    BY StepIInv
  <1> QED BY InitIInv, <1>1, PTL DEF Spec

\* The variables keep their types: among them, a coroutine's call and job and
\* the row's stored ones are calls of the ledger and jobs of the provider.
THEOREM MediaTyping == Spec => []TypeOK
  <1>1. IInv => TypeOK
    BY TypedIsTypeOK DEF IInv
  <1> QED BY <1>1, MediaInvariant, PTL

\* A call of the ledger is left pending only by a cancel, by a crash before the
\* row knew its job, or by a row that fails after a crash without its provider
\* having been asked again, wherever the executor's calls raise.
THEOREM NoCallForgotten == Spec => []PendingExplained
  <1>1. IInv => PendingExplained
    BY DEF IInv, Ledger, Explained, PendingExplained, Opening
  <1> QED BY <1>1, MediaInvariant, PTL

\* A settled call is never settled again, by the unguarded UPDATE of
\* finish_call or by a resume after any crash.
THEOREM SettledOnce == Spec => SettledIsFinal
  <1>1. IInv /\ [Next]_vars => [\A c \in DOMAIN calls \ Pending : calls'[c] = calls[c]]_calls
    BY SettledStep DEF IInv, Typed, Ledger
  <1> QED BY <1>1, MediaInvariant, PTL DEF Spec, SettledIsFinal

\* The version named by the result of an undisturbed succeeded row is what the
\* provider returned for that row.
THEOREM ResultIsOfTheJob == Spec => []ResultKept
  <1>1. IInv => ResultKept
    BY DEF IInv, Media, ResultThere, ResultKept, Delivered
  <1> QED BY <1>1, MediaInvariant, PTL

\* After an undisturbed success the file is the current version.
THEOREM FileFollowsVersion == Spec => []FileIsCurrent
  <1>1. IInv => FileIsCurrent
    BY DEF IInv, Media, FileShown, FileIsCurrent, Delivered
  <1> QED BY <1>1, MediaInvariant, PTL

\* current_version is the number of a version, whatever tasks and users do.
THEOREM CurrentIsAVersion == Spec => []CurrentExists
  <1>1. IInv => CurrentExists
    BY DEF IInv, Media
  <1> QED BY <1>1, MediaInvariant, PTL
=============================================================================
