---------------------------- MODULE MediaExecution ----------------------------
(***************************************************************************)
(* The execution of the tasks of one resource, one after the other: the    *)
(* coroutine of MediaGenerator between the claim of a row and its final    *)
(* status, the ledger row it opens and settles, the provider's job it      *)
(* submits or resumes, the file it downloads and the version it registers. *)
(* The provider is external: a job becomes ready, fails or expires.        *)
(* Writing the downloaded file happens in a thread, which a cancel of the  *)
(* coroutine does not stop.  Beside it users restore, delete and upload    *)
(* versions.  The row's own life (claims, leases, cascades) is the subject *)
(* of GenerationWorker and short here.  A failing transaction of the       *)
(* ledger or of the row's status is left out.                              *)
(***************************************************************************)
EXTENDS UsageLedger, VersionManager

CONSTANTS
  MaxRows,     \* bound: tasks of the resource
  MaxAttempts, \* payload.retry_budget of a task
  MaxSetbacks, \* bound: crashes, retries, uploads and restores together
  Faults,      \* "raise": a call of the executor raises; "unresumable": the job's
               \* provider cannot resume it, or has no lane for videos now
  Users        \* what users do beside it: "cancel", "restore", "delete", "upload"

ASSUME MediaAssumption ==
  /\ MaxRows \in Nat /\ MaxAttempts \in Nat \ {0} /\ MaxSetbacks \in Nat

VARIABLES
  kind,      \* the media type of the resource's tasks
  started,   \* how many rows there have been
  status, attempt,
  job,       \* Task.provider_job_id of the row
  call,      \* payload.api_call_id of the row
  at,        \* where the row's coroutine is
  mode,      \* generate or resume
  myCall, myJob, \* its call_id and job id
  result,    \* what the row's result names: [version, job]
  jobs,      \* provider: job -> what became of it
  writers,   \* the jobs whose result a thread is writing to output_path
  uploading, \* an upload has written output_path and not yet its version
  setbacks,
  why,       \* history: call -> what parted it from the coroutine to settle it
  disturbed  \* history: somebody else wrote the resource's media during this row

row == <<started, status, attempt, job, call, result>>
coroutine == <<at, mode, myCall, myJob>>
vars == <<kind, row, coroutine, calls, jobs, writers, media, uploading, setbacks, why, disturbed>>

Final == {"succeeded", "failed", "cancelled"}
Active == {"queued", "running", "cancelling"}

\* The places covered by the try of generate_image_async and generate_video_async.
Covered == {"started", "linked", "submitted", "polling", "downloading", "downloaded"}

TypeOK ==
  /\ kind \in {"image", "video"}
  /\ started \in 0 .. MaxRows
  /\ status \in Active \cup Final \cup {"absent"}
  /\ attempt \in 1 .. MaxAttempts
  /\ calls \in Seq(CallRow)
  /\ at \in Covered \cup {"none", "prepare", "resuming", "erring", "failing", "settled", "registered", "cancelled"}
  /\ mode \in {"generate", "resume"}
  /\ {call, myCall} \subseteq 0 .. Len(calls)
  /\ jobs \in Seq({"running", "ready", "lost"})
  /\ {job, myJob, result.job} \subseteq 0 .. Len(jobs)
  /\ writers \subseteq DOMAIN jobs
  /\ DOMAIN versions \subseteq Nat \ {0} /\ current \in Nat
  /\ {file} \cup {versions[n] : n \in DOMAIN versions}
       \subseteq DOMAIN jobs \cup {Absent, Torn, Uploaded}
  /\ uploading \in BOOLEAN /\ disturbed \in BOOLEAN
  /\ DOMAIN why = DOMAIN calls

Init ==
  /\ kind \in {"image", "video"}
  /\ started = 0 /\ status = "absent" /\ attempt = 1 /\ job = NoJob /\ call = NoCall
  /\ at = "none" /\ mode = "generate" /\ myCall = NoCall /\ myJob = NoJob
  /\ result = [version |-> 0, job |-> NoJob]
  /\ calls = <<>> /\ jobs = <<>> /\ writers = {} /\ why = <<>>
  /\ MediaInit
  /\ uploading = FALSE /\ setbacks = 0 /\ disturbed = FALSE

Setback == setbacks < MaxSetbacks /\ setbacks' = setbacks + 1

\* No coroutine: what it knew is lost with it.
Gone == at' = "none" /\ mode' = "generate" /\ myCall' = NoCall /\ myJob' = NoJob

-----------------------------------------------------------------------------
(* The row's life around the executor.                                     *)

Enqueue ==
  /\ status \in Final \cup {"absent"} /\ at = "none" /\ started < MaxRows
  /\ started' = started + 1
  /\ status' = "queued" /\ attempt' = 1 /\ job' = NoJob /\ call' = NoCall
  /\ result' = [version |-> 0, job |-> NoJob]
  /\ disturbed' = uploading
  /\ UNCHANGED <<kind, coroutine, calls, jobs, writers, media, uploading, setbacks, why>>

Claim ==
  /\ status = "queued" /\ at = "none"
  /\ status' = "running"
  /\ at' = "prepare" /\ mode' = "generate" /\ myCall' = NoCall /\ myJob' = NoJob
  /\ UNCHANGED <<kind, started, attempt, job, call, result>>
  /\ UNCHANGED <<calls, jobs, writers, media, uploading, setbacks, why, disturbed>>

\* The write of the coroutine at its end; 0 rows means that the row is cancelling.
End(outcome) ==
  /\ status' = IF status = "running" THEN outcome ELSE "cancelled"
  /\ Gone

Succeed ==
  /\ at = "registered"
  /\ End("succeeded")
  /\ UNCHANGED <<kind, started, attempt, job, call, result>>
  /\ UNCHANGED <<calls, jobs, writers, media, uploading, setbacks, why, disturbed>>

\* The payload written back is the one of the claim, which names no call;
\* provider_job_id stays.  A resume is not retried.
Retry ==
  /\ at = "failing" /\ mode = "generate" /\ attempt < MaxAttempts /\ Setback
  /\ End("queued")
  /\ IF status = "running" THEN attempt' = attempt + 1 /\ call' = NoCall
                           ELSE UNCHANGED <<attempt, call>>
  /\ UNCHANGED <<kind, started, job, result>>
  /\ UNCHANGED <<calls, jobs, writers, media, uploading, why, disturbed>>

Fail ==
  /\ at = "failing"
  /\ End("failed")
  /\ UNCHANGED <<kind, started, attempt, job, call, result>>
  /\ UNCHANGED <<calls, jobs, writers, media, uploading, setbacks, why, disturbed>>

Because(c, reason) ==
  why' = IF c # NoCall /\ why[c] = "nothing" THEN [why EXCEPT ![c] = reason] ELSE why

Resumable == status = "running" /\ kind = "video" /\ job # NoJob

\* The orphan scan of a started worker.  An image or a row without a job fails;
\* so does one that its provider cannot resume, and nobody settles its call.
Recover ==
  /\ at = "none" /\ status \in {"running", "cancelling"}
  /\ \/ /\ Resumable
        /\ at' = "resuming" /\ mode' = "resume" /\ myCall' = call /\ myJob' = job
        /\ UNCHANGED <<status, why>>
     \/ /\ Resumable => "unresumable" \in Faults
        /\ End("failed")
        /\ IF Resumable THEN Because(call, "unresumed") ELSE UNCHANGED why
  /\ UNCHANGED <<kind, started, attempt, job, call, result>>
  /\ UNCHANGED <<calls, jobs, writers, media, uploading, setbacks, disturbed>>

-----------------------------------------------------------------------------
(* generate_image_async and generate_video_async.                          *)

\* The old file gets a version if it has none, then the call is opened.
Open ==
  /\ at = "prepare"
  /\ EnsureCurrentTracked
  /\ StartCall
  /\ why' = Append(why, "nothing")
  /\ myCall' = Len(calls')
  /\ at' = "started"
  /\ UNCHANGED <<kind, row, mode, myJob, jobs, writers, uploading, setbacks, disturbed>>

\* persist_api_call_id, of videos only.
Link ==
  /\ at = "started" /\ kind = "video"
  /\ call' = myCall
  /\ at' = "linked"
  /\ UNCHANGED <<kind, started, status, attempt, job, result, mode, myCall, myJob>>
  /\ UNCHANGED <<calls, jobs, writers, media, uploading, setbacks, why, disturbed>>

Submit ==
  /\ at = IF kind = "video" THEN "linked" ELSE "started"
  /\ jobs' = Append(jobs, "running")
  /\ myJob' = Len(jobs')
  /\ at' = IF kind = "video" THEN "submitted" ELSE "polling"
  /\ UNCHANGED <<kind, row, mode, myCall, calls, writers, media, uploading, setbacks, why, disturbed>>

PersistJob ==
  /\ at = "submitted"
  /\ job' = myJob
  /\ at' = "polling"
  /\ UNCHANGED <<kind, started, status, attempt, call, result, mode, myCall, myJob>>
  /\ UNCHANGED <<calls, jobs, writers, media, uploading, setbacks, why, disturbed>>

\* resume_video_async asks the provider, once the project and the generator are
\* loaded and the request is made; its try begins here.
ResumeJob ==
  /\ at = "resuming"
  /\ at' = "polling"
  /\ UNCHANGED <<kind, row, mode, myCall, myJob>>
  /\ UNCHANGED <<calls, jobs, writers, media, uploading, setbacks, why, disturbed>>

\* The provider ends a job, and lets a ready one expire; nobody asks for any
\* but these two.
Ends(j) ==
  /\ j \in {job, myJob}
  /\ \/ jobs[j] = "running" /\ jobs' = [jobs EXCEPT ![j] = "ready"]
     \/ jobs[j] # "lost" /\ jobs' = [jobs EXCEPT ![j] = "lost"]
  /\ UNCHANGED <<kind, row, coroutine, calls, writers, media, uploading, setbacks, why, disturbed>>

\* The thread opens the file, which truncates it.
Download ==
  /\ at = "polling" /\ jobs[myJob] = "ready"
  /\ at' = "downloading"
  /\ writers' = writers \cup {myJob}
  /\ file' = Torn
  /\ UNCHANGED <<kind, row, mode, myCall, myJob, calls, jobs, versions, current, uploading>>
  /\ UNCHANGED <<setbacks, why, disturbed>>

Mine(j) == at = "downloading" /\ j = myJob

Written(j) ==
  /\ j \in writers
  /\ writers' = writers \ {j}
  /\ file' = j
  /\ at' = IF Mine(j) THEN "downloaded" ELSE at
  /\ disturbed' = (disturbed \/ ~Mine(j))
  /\ UNCHANGED <<kind, row, mode, myCall, myJob, calls, jobs, versions, current, uploading>>
  /\ UNCHANGED <<setbacks, why>>

Settle ==
  /\ at = "downloaded"
  /\ IF mode = "generate" THEN FinishCall(myCall, "success", myJob)
                          ELSE FinalizePendingCall(myCall, "success", myJob)
  /\ at' = "settled"
  /\ UNCHANGED <<kind, row, mode, myCall, myJob, jobs, writers, media, uploading>>
  /\ UNCHANGED <<setbacks, why, disturbed>>

\* Mutant: a resume keeps the version there is.
NewVersionUnlessResumed == IF mode = "resume" THEN EnsureCurrentTracked ELSE AddVersion

\* A resume, too, adds a version.
NewVersion == AddVersion

Register ==
  /\ at = "settled"
  /\ NewVersion
  /\ result' = [version |-> current', job |-> myJob]
  /\ at' = "registered"
  /\ UNCHANGED <<kind, started, status, attempt, job, call, mode, myCall, myJob>>
  /\ UNCHANGED <<calls, jobs, writers, uploading, setbacks, why, disturbed>>

-----------------------------------------------------------------------------
(* Exceptions.                                                             *)

Raising ==
  {"prepare", "resuming", "started", "linked", "submitted", "polling", "downloading", "settled", "registered"}

\* A poll that learns it raises.
JobLost == at = "polling" /\ jobs[myJob] = "lost"

\* Mutant: persist_api_call_id outside the try.
CaughtButLink == IF at \in Covered \ {"started"} THEN "erring" ELSE "failing"

\* An exception in the try is first reported to the ledger; one before it, as
\* that of a resume which has not yet asked the provider, never is.
Caught == IF at \in Covered THEN "erring" ELSE "failing"

Raise ==
  /\ \/ "raise" \in Faults /\ at \in Raising
     \/ JobLost
  /\ at' = Caught
  /\ IF at = "resuming" THEN Because(myCall, "unresumed") ELSE UNCHANGED why
  /\ writers' = IF at = "downloading" THEN writers \ {myJob} ELSE writers
  /\ UNCHANGED <<kind, row, mode, myCall, myJob, calls, jobs, media, uploading, setbacks, disturbed>>

Report ==
  /\ at = "erring"
  /\ IF mode = "generate" THEN FinishCall(myCall, "failed", NoJob)
                          ELSE FinalizePendingCall(myCall, "failed", NoJob)
  /\ at' = "failing"
  /\ UNCHANGED <<kind, row, mode, myCall, myJob, jobs, writers, media, uploading>>
  /\ UNCHANGED <<setbacks, why, disturbed>>

Opened == IF at \in Covered \cup {"resuming", "erring"} THEN myCall ELSE NoCall

\* The process ends: its coroutine and threads are gone.  The call of a
\* running video whose job was stored is not lost: the scan finds both.
Crash ==
  /\ Setback
  /\ Gone /\ writers' = {}
  /\ IF status = "running" /\ call = myCall /\ job = myJob /\ job # NoJob
     THEN UNCHANGED why ELSE Because(Opened, "crash")
  /\ uploading' = FALSE /\ disturbed' = (disturbed \/ uploading)
  /\ UNCHANGED <<kind, row, calls, jobs, media>>

\* GenerationQueue.cancel_task of a running row: the signal strikes wherever
\* the executor awaits, or there is none (the desktop bridge, an orphan).
Cancel ==
  /\ "cancel" \in Users /\ status = "running" /\ at \notin {"failing", "cancelled"}
  /\ status' = "cancelling"
  /\ \/ at # "none" /\ at' = "cancelled" /\ Because(Opened, "cancel")
     \/ at # "none" /\ UNCHANGED <<at, why>>
     \/ at = "none" /\ UNCHANGED at /\ Because(call, "cancel")
  /\ UNCHANGED <<kind, started, attempt, job, call, result, mode, myCall, myJob>>
  /\ UNCHANGED <<calls, jobs, writers, media, uploading, setbacks, disturbed>>

\* CancelledError is no Exception: only the row is written.
Cancelled ==
  /\ at = "cancelled"
  /\ End("cancelled")
  /\ UNCHANGED <<kind, started, attempt, job, call, result>>
  /\ UNCHANGED <<calls, jobs, writers, media, uploading, setbacks, why, disturbed>>

-----------------------------------------------------------------------------
(* Users.                                                                  *)

\* Restore and delete are one locked operation each.
ByUser(lasting) ==
  /\ disturbed' = (disturbed \/ status \in Active \/ lasting)
  /\ UNCHANGED <<kind, row, coroutine, calls, jobs, writers, uploading, why>>

Restore(n) ==
  /\ "restore" \in Users /\ Setback
  /\ Restored(n)
  /\ ByUser(FALSE)

Delete(n) ==
  /\ "delete" \in Users  \* the number of the newest version is used again
  /\ Deleted(n) /\ UNCHANGED setbacks
  /\ ByUser(n = result.version)

\* upload_external_media_version holds no lock between the file and its version.
UploadFile ==
  /\ "upload" \in Users /\ ~uploading /\ Setback
  /\ IF file # Absent /\ current = 0 THEN Record(file) ELSE UNCHANGED <<versions, current>>
  /\ file' = Uploaded
  /\ uploading' = TRUE
  /\ disturbed' = (disturbed \/ status \in Active)
  /\ UNCHANGED <<kind, row, coroutine, calls, jobs, writers, why>>

UploadVersion ==
  /\ uploading
  /\ AddVersion
  /\ uploading' = FALSE
  /\ disturbed' = (disturbed \/ status \in Active)
  /\ UNCHANGED <<kind, row, coroutine, calls, jobs, writers, setbacks, why>>

-----------------------------------------------------------------------------
Next ==
  \/ Enqueue \/ Claim \/ Open \/ Link \/ Submit \/ PersistJob \/ ResumeJob \/ Download \/ Settle \/ Register
  \/ Succeed \/ Retry \/ Fail \/ Raise \/ Report
  \/ Crash \/ Recover \/ Cancel \/ Cancelled
  \/ \E j \in DOMAIN jobs : Ends(j) \/ Written(j)
  \/ UploadFile \/ UploadVersion
  \/ \E n \in DOMAIN versions : Restore(n) \/ Delete(n)

Spec == Init /\ [][Next]_vars

-----------------------------------------------------------------------------
(* Properties.                                                             *)

\* A call is left pending only by a cancel, by a crash before the row knew its
\* job, or by a row that fails after a crash without the provider having been
\* asked again ("unresumed"): every exception of a coroutine that has opened
\* its call, or asked for its job again, is reported to the ledger, by whichever
\* step it is raised, and a resume that is not cancelled settles the call.
PendingExplained ==
  \A c \in Pending :
    \/ why[c] # "nothing"
    \/ myCall = c /\ at \in Covered \cup {"resuming", "erring"}
    \/ call = c /\ status \in {"running", "cancelling"} /\ at = "none"

\* No transaction of the ledger changes a settled call: neither the unguarded
\* UPDATE of finish_call nor a resume after a crash between the settlement and
\* the row's final status.
SettledIsFinal ==
  [][\A c \in DOMAIN calls \ Pending : calls'[c] = calls[c]]_calls

\* The version a succeeded row names in its result holds what the provider's
\* job of that row returned, through crashes, resumes, retries and deletions,
\* if nobody else wrote the media while the row was active.
ResultKept ==
  status = "succeeded" /\ ~disturbed /\ result.version \in DOMAIN versions =>
    versions[result.version] = result.job

\* When a row has succeeded undisturbed and nobody writes, the file that
\* everybody reads is the current version.
FileIsCurrent ==
  status = "succeeded" /\ ~disturbed /\ writers = {} /\ ~uploading =>
    current \in DOMAIN versions /\ file = versions[current]

\* The number in current_version is that of a version, whatever users restore,
\* delete or upload while tasks register theirs.
CurrentExists == DOMAIN versions = {} \/ current \in DOMAIN versions
=============================================================================
