---------------------------- MODULE ProjectFiles ----------------------------
(***************************************************************************)
(* The files of a project (lib/project_manager.py): project.json, which     *)
(* names the script of each episode, and the scripts, written by threads of *)
(* several processes.  A file is replaced atomically; a read-modify-write    *)
(* is kept together by a lock file per script and one for project.json, and *)
(* an operation on a script ends by copying its title into project.json.    *)
(*                                                                         *)
(* Of one episode, project.json has the script file and the title; a script *)
(* that is `numbered` says that it is of this episode, an old one may not.  *)
(* Edits of anything else are counted, so that a lost one shows.            *)
(***************************************************************************)
EXTENDS Naturals, FiniteSets

CONSTANTS Thread,      \* threads that serve requests, tools and tasks
          Scanner,     \* the threads of project event channels
          Processes,   \* sets of threads that live and die together
          Scripts,     \* the number of script files
          Titles,      \* the number of titles
          MaxOps,      \* bound: operations ever begun
          MaxFaults,   \* bound: crashes of a process, and scripts that a scan cannot read
          Nobody

ASSUME FilesAssumption ==
  /\ {Scripts, Titles} \subseteq Nat \ {0}
  /\ {MaxOps, MaxFaults} \subseteq Nat
  /\ Thread \cap Scanner = {} /\ Nobody \notin Thread \cup Scanner
  /\ Processes \subseteq SUBSET (Thread \cup Scanner)

VARIABLES
  index,       \* project.json: the episode's script and title, edits of the rest
  script,      \* the scripts: title, edits, numbered
  projectLock, \* .project.json.lock
  scriptLock,  \* the lock file of each script
  job,         \* what each thread is doing
  due,         \* history: edits of each script since it was last replaced
  dueProject,  \* history: edits of project.json
  ops, faults  \* counters of the bounds

history == <<due, dueProject>>
vars == <<index, script, projectLock, scriptLock, job, history, ops, faults>>

File == 1..Scripts        \* in the order of sorted(glob("*.json"))
Title == 1..Titles
Actor == Thread \cup Scanner

\* The operations: locked_script, save_script, update_project with a change of
\* the episode or of anything else, and locked_episode_script.
Op == {"edit", "save", "patch", "update", "episode"}

Idle == [op |-> "none", pc |-> "idle", file |-> 1, title |-> 1, edits |-> 0,
         seen |-> [file |-> 1, title |-> 1, edits |-> 0]]

Init ==
  /\ index = [file |-> 1, title |-> 1, edits |-> 0]
  /\ \E known \in SUBSET File :
       script = [f \in File |-> [title |-> 1, edits |-> 0, numbered |-> f \in known]]
  /\ projectLock = Nobody
  /\ scriptLock = [f \in File |-> Nobody]
  /\ job = [t \in Actor |-> Idle]
  /\ due = [f \in File |-> 0] /\ dueProject = 0
  /\ ops = 0 /\ faults = 0

At(t, op, pc) == job[t].op \in op /\ job[t].pc = pc
Goto(t, pc) == job' = [job EXCEPT ![t].pc = pc]
Finish(t) == job' = [job EXCEPT ![t] = Idle]

\* What a thread has read of a script, of project.json.
ReadScript(j, f) == [j EXCEPT !.title = script[f].title, !.edits = script[f].edits]
ReadProject(j) == [j EXCEPT !.seen = index]

Begin(t) ==
  /\ job[t] = Idle
  /\ ops < MaxOps
  /\ ops' = ops + 1
  /\ \E op \in Op, f \in File, title \in Title :
       job' = [job EXCEPT ![t] =
                [Idle EXCEPT !.op = op,
                             !.file = IF op \in {"edit", "save", "patch"} THEN f ELSE 1,
                             !.title = IF op \in {"save", "patch"} THEN title ELSE 1,
                             !.pc = IF op \in {"edit", "save"} THEN "script_lock"
                                     ELSE IF op = "episode" THEN "candidate"
                                     ELSE "project_lock"]]
  /\ UNCHANGED <<index, script, projectLock, scriptLock, history, faults>>

-----------------------------------------------------------------------------
(* Locks.                                                                  *)

\* Mutant: a script has a lock file under each of its names.
ScriptLockFreeByAlias(f) == TRUE

\* A lock file is named after the script's real path, so that a script has one.
ScriptLockFree(f) == scriptLock[f] = Nobody

\* Mutant: the lock is on project.json itself, and a write's os.replace leaves
\* the waiting thread with the lock of a file that is gone.
ProjectLockFreeOfOldFile == TRUE

\* It is not the data file, which every write replaces.
ProjectLockFree == projectLock = Nobody

\* locked_episode_script asks project.json for the script before it locks it.
\* load_project takes the lock to read.
FindCandidate(t) ==
  /\ At(t, {"episode"}, "candidate")
  /\ ProjectLockFree
  /\ job' = [job EXCEPT ![t].file = index.file, ![t].pc = "script_lock"]
  /\ UNCHANGED <<index, script, projectLock, scriptLock, history, ops, faults>>

\* save_script needs no contents but its own.
TakeScriptLock(t) ==
  /\ At(t, {"edit", "save", "episode"}, "script_lock")
  /\ ScriptLockFree(job[t].file)
  /\ scriptLock' = [scriptLock EXCEPT ![job[t].file] = t]
  /\ job' = [job EXCEPT ![t] =
              IF @.op = "edit" THEN [ReadScript(@, @.file) EXCEPT !.pc = "writing"]
              ELSE IF @.op = "save" THEN [@ EXCEPT !.pc = "writing"]
              ELSE [@ EXCEPT !.pc = "project_lock"]]
  /\ UNCHANGED <<index, script, projectLock, history, ops, faults>>

\* load_script holds the lock while it reads, and no longer.
LoadScript(t) ==
  /\ At(t, {"scan"}, "script_lock")
  /\ ScriptLockFree(job[t].file)
  /\ job' = [job EXCEPT ![t] = [ReadScript(@, @.file) EXCEPT !.pc = "project_lock"]]
  /\ UNCHANGED <<index, script, projectLock, scriptLock, history, ops, faults>>

WithoutScriptLock(t) == [f \in File |-> IF scriptLock[f] = t THEN Nobody ELSE scriptLock[f]]

\* Mutant: the binding is not looked at again.
ReboundUnseen(t) == FALSE

\* The binding is looked at again under both locks.
Rebound(t) == index.file # job[t].file

TakeProjectLock(t) ==
  /\ job[t].pc = "project_lock"
  /\ ProjectLockFree
  /\ IF job[t].op = "episode" /\ Rebound(t)
     THEN /\ scriptLock' = WithoutScriptLock(t)        \* EpisodeScriptReboundError
          /\ Finish(t)
          /\ UNCHANGED projectLock
     ELSE /\ projectLock' = t
          /\ job' = [job EXCEPT ![t] =
                      IF @.op = "episode"
                      THEN [ReadProject(ReadScript(@, @.file)) EXCEPT !.pc = "writing"]
                      ELSE [ReadProject(@) EXCEPT !.pc = "project"]]
          /\ UNCHANGED scriptLock
  /\ UNCHANGED <<index, script, history, ops, faults>>

\* The caller's change raises, or what would be written is found to be worse
\* than what is there: nothing is written and the locks are released.
Refuse(t) ==
  /\ job[t].pc \in {"writing", "project"} /\ job[t].op # "scan"
  /\ job[t].pc = "project" => job[t].op \in {"patch", "update"}
  /\ scriptLock' = WithoutScriptLock(t)
  /\ projectLock' = IF projectLock = t THEN Nobody ELSE projectLock
  /\ Finish(t)
  /\ UNCHANGED <<index, script, history, ops, faults>>

-----------------------------------------------------------------------------
(* Writes.                                                                 *)

\* What goes to disk: an edit goes back into what was read, a saved script (the
\* generator's, which says its episode) replaces what there is.
Written(j) ==
  IF j.op = "save"
  THEN [title |-> j.title, edits |-> 0, numbered |-> TRUE]
  ELSE [script[j.file] EXCEPT !.title = j.title, !.edits = j.edits + 1]

\* Mutant: locked_episode_script does not say sync_project=False.
AfterWritingSyncing(j) == IF j.op = "episode" \/ Written(j).numbered THEN "project_lock" ELSE "idle"

\* _write_script_unlocked goes on to project.json if the script says its episode;
\* locked_episode_script, which has the project's lock, always does.
AfterWriting(j) ==
  IF j.op = "episode" THEN "project"
  ELSE IF Written(j).numbered THEN "project_lock" ELSE "idle"

WriteScript(t) ==
  /\ job[t].pc = "writing"
  /\ LET j == job[t]
     IN  /\ script' = [script EXCEPT ![j.file] = Written(j)]
         /\ due' = [due EXCEPT ![j.file] = IF j.op = "save" THEN 0 ELSE @ + 1]
         /\ IF AfterWriting(j) = "idle"
            THEN Finish(t) /\ scriptLock' = WithoutScriptLock(t)
            ELSE Goto(t, AfterWriting(j)) /\ UNCHANGED scriptLock
  /\ UNCHANGED <<index, projectLock, dueProject, ops, faults>>

\* What the caller's function, or _apply_episode_sync, makes of project.json.
Updated(j) ==
  IF j.op = "update" THEN [j.seen EXCEPT !.edits = @ + 1]
  ELSE IF j.op = "episode" /\ ~script[j.file].numbered THEN j.seen
  ELSE [j.seen EXCEPT !.file = j.file, !.title = j.title]

\* The scan goes on with what it now expects of project.json.
WriteProject(t) ==
  /\ job[t].pc = "project"
  /\ index' = Updated(job[t])
  /\ dueProject' = IF job[t].op = "update" THEN dueProject + 1 ELSE dueProject
  /\ projectLock' = Nobody
  /\ scriptLock' = WithoutScriptLock(t)
  /\ IF job[t].op = "scan"
     THEN job' = [job EXCEPT ![t].pc = "next", ![t].seen = Updated(job[t])]
     ELSE Finish(t)
  /\ UNCHANGED <<script, due, ops, faults>>

-----------------------------------------------------------------------------
(* The scan of a project event channel (_ensure_script_index_synced): it    *)
(* goes through the scripts and writes into project.json the title and file *)
(* of each that project.json, as it was at the start, says otherwise of.    *)

ScanStarts(s) ==
  /\ job[s] = Idle
  /\ ProjectLockFree
  /\ job' = [job EXCEPT ![s] = [ReadProject(Idle) EXCEPT !.op = "scan", !.pc = "look"]]
  /\ UNCHANGED <<index, script, projectLock, scriptLock, history, ops, faults>>

\* Mutant: the scan compares the file only.
ListedByFile(j, f) == j.seen.file = f

\* A script that does not say its episode is passed over.
Listed(j, f) == j.seen.file = f /\ j.seen.title = script[f].title
NothingToSync(j, f) == ~script[f].numbered \/ Listed(j, f)

ScanLooks(s) ==
  /\ At(s, {"scan"}, "look")
  /\ ScriptLockFree(job[s].file)
  /\ LET f == job[s].file
     IN  Goto(s, IF NothingToSync(job[s], f) THEN "next" ELSE "script_lock")
  /\ UNCHANGED <<index, script, projectLock, scriptLock, history, ops, faults>>

\* A script that cannot be read now, by the scan or by its sync, is passed over
\* until the next scan.
ScanSkips(s) ==
  /\ At(s, {"scan"}, "look") \/ At(s, {"scan"}, "script_lock")
  /\ ScriptLockFree(job[s].file)
  /\ faults < MaxFaults /\ faults' = faults + 1
  /\ Goto(s, "next")
  /\ UNCHANGED <<index, script, projectLock, scriptLock, history, ops>>

ScanNext(s) ==
  /\ At(s, {"scan"}, "next")
  /\ IF job[s].file = Scripts
     THEN Finish(s)
     ELSE job' = [job EXCEPT ![s].file = @ + 1, ![s].pc = "look"]
  /\ UNCHANGED <<index, script, projectLock, scriptLock, history, ops, faults>>

-----------------------------------------------------------------------------

\* A process dies: its threads are gone and the system releases their locks.
Crash(p) ==
  /\ faults < MaxFaults
  /\ faults' = faults + 1
  /\ job' = [t \in Actor |-> IF t \in p THEN Idle ELSE job[t]]
  /\ projectLock' = IF projectLock \in p THEN Nobody ELSE projectLock
  /\ scriptLock' = [f \in File |-> IF scriptLock[f] \in p THEN Nobody ELSE scriptLock[f]]
  /\ UNCHANGED <<index, script, history, ops>>

Work(t) ==
  \/ FindCandidate(t) \/ TakeScriptLock(t) \/ LoadScript(t) \/ TakeProjectLock(t)
  \/ WriteScript(t) \/ WriteProject(t)

Scan(s) == ScanStarts(s) \/ ScanLooks(s) \/ ScanNext(s)

Next ==
  \/ \E t \in Thread : Begin(t) \/ Refuse(t)
  \/ \E t \in Actor : Work(t)
  \/ \E s \in Scanner : Scan(s) \/ ScanSkips(s)
  \/ \E p \in Processes : Crash(p)

Spec == Init /\ [][Next]_vars

\* A thread that waits for a lock gets it if it is free again and again.  The
\* scan repeats as long as somebody follows the project.
FairSpec ==
  /\ Spec
  /\ \A t \in Actor : SF_vars(Work(t))
  /\ \A s \in Scanner : SF_vars(Scan(s))

-----------------------------------------------------------------------------
(* Properties.                                                             *)

\* The variables have their types; a thread that writes has the locks it needs.
TypeOK ==
  LET Index == [file : File, title : Title, edits : Nat]
  IN  /\ index \in Index
      /\ script \in [File -> [title : Title, edits : Nat, numbered : BOOLEAN]]
      /\ projectLock \in Actor \cup {Nobody}
      /\ scriptLock \in [File -> Actor \cup {Nobody}]
      /\ job \in [Actor -> [op : Op \cup {"none", "scan"},
                            pc : {"idle", "candidate", "script_lock", "project_lock",
                                  "writing", "project", "look", "next"},
                            file : File, title : Title, edits : Nat, seen : Index]]
      /\ due \in [File -> Nat] /\ dueProject \in Nat
      /\ ops \in 0..MaxOps /\ faults \in 0..MaxFaults
      /\ \A t \in Actor :
           /\ job[t].pc = "writing" => scriptLock[job[t].file] = t
           /\ job[t].pc = "project" => projectLock = t

\* No read-modify-write is lost: a script has every edit made since it was last
\* replaced, project.json has all of its own.  update_project and locked_script
\* ("lost-update") in all their interleavings, with repairs by scans between.
NoLostUpdate ==
  /\ \A f \in File : script[f].edits = due[f]
  /\ index.edits = dueProject

\* locked_episode_script never writes a script that its episode has been taken
\* away from, whatever PATCHed the binding after it was looked up.
WrittenWhereBound ==
  [][\A t \in Thread :
       At(t, {"episode"}, "writing") /\ script' # script /\ job'[t] # job[t]
         => index.file = job[t].file]_vars

\* "Script written and metadata synced are a single transaction": the title an
\* operation copies into project.json is the script's at that moment, not one
\* that another operation has replaced.
SyncIsCurrent ==
  [][\A t \in Thread :
       At(t, {"edit", "save", "episode"}, "project") /\ job'[t] # job[t] /\ index' # index
         => index'.title = script[job[t].file].title]_vars

\* Every operation and every scan ends, in whatever order they meet at the
\* locks and whoever dies with one: no deadlock of two, and none of one with itself.
OpsEnd == \A t \in Actor : []<>(job[t] = Idle)

\* While a channel scans, project.json comes to show the title of the script it
\* names, whatever crash came between a script's write and its sync, whatever script
\* a scan could not read, and though its sync works on a script it has not locked.
Heals == <>(\E f \in File : script[f].numbered) => <>[](index.title = script[index.file].title)
=============================================================================
