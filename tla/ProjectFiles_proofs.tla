------------------------ MODULE ProjectFiles_proofs ------------------------
(***************************************************************************)
(* Proofs about ProjectFiles, for any number of threads, processes, scripts *)
(* and titles.                                                              *)
(***************************************************************************)
EXTENDS ProjectFiles, TLAPS

(***************************************************************************)
(* The inductive invariant: what a thread holds at each place, and that what *)
(* it has read under a lock it holds is still so.                           *)
(***************************************************************************)

Index == [file : File, title : Title, edits : Nat]
Contents == [title : Title, edits : Nat, numbered : BOOLEAN]
Job == [op : Op \cup {"none", "scan"},
        pc : {"idle", "candidate", "script_lock", "project_lock",
              "writing", "project", "look", "next"},
        file : File, title : Title, edits : Nat, seen : Index]

Types ==
  /\ index \in Index
  /\ script \in [File -> Contents]
  /\ projectLock \in Actor \cup {Nobody}
  /\ scriptLock \in [File -> Actor \cup {Nobody}]
  /\ job \in [Actor -> Job]
  /\ due \in [File -> Nat] /\ dueProject \in Nat
  /\ ops \in 0..MaxOps /\ faults \in 0..MaxFaults

Writer == {"edit", "save", "episode"}

\* locked_episode_script from its second lock on.
Both(j) == j.op = "episode" /\ j.pc = "writing"

\* The operations that come to a place.
Placed(j) ==
  /\ j.op \in Writer => j.pc \in {"candidate", "script_lock", "writing", "project_lock", "project"}
  /\ j.op \in {"patch", "update"} => j.pc \in {"project_lock", "project"}
  /\ j.op = "scan" => j.pc # "writing"
  /\ j.op = "none" => j.pc = "idle"

Holds(t, j) ==
  /\ j.op \in Writer /\ j.pc \in {"writing", "project_lock", "project"} => scriptLock[j.file] = t
  /\ j.pc = "project" \/ Both(j) => projectLock = t

Current(j) ==
  /\ j.op \in {"edit", "episode"} /\ j.pc = "writing"
       => j.edits = script[j.file].edits /\ j.title = script[j.file].title
  /\ j.pc = "project" \/ Both(j) => j.seen = index
  /\ Both(j) => index.file = j.file
  /\ j.op \in {"edit", "save"} /\ j.pc \in {"project_lock", "project"}
       => j.title = script[j.file].title
  /\ j.op = "episode" /\ j.pc = "project" => j.title = script[j.file].title

Sound(t) == Placed(job[t]) /\ Holds(t, job[t]) /\ Current(job[t])

IInv == Types /\ (\A t \in Actor : Sound(t)) /\ NoLostUpdate

(***************************************************************************)
(* What an action leaves alone.                                            *)
(***************************************************************************)

\* A thread whose job and locks are as they were, and what the locks guard, is as
\* sound as it was.
LEMMA StaysSound ==
  ASSUME Types, NEW u \in Actor, Sound(u),
         job'[u] = job[u],
         projectLock = u => projectLock' = u /\ index' = index,
         \A f \in File : scriptLock[f] = u => scriptLock'[f] = u /\ script'[f] = script[f]
  PROVE  Sound(u)'
  <1> job[u].file \in File
    BY DEF Types, Job
  <1>1. Placed(job[u])'
    BY DEF Sound, Placed
  <1>2. Holds(u, job[u])'
    BY DEF Sound, Holds, Both
  <1>3. Current(job[u])'
    BY DEF Sound, Holds, Current, Both, Writer
  <1> QED BY <1>1, <1>2, <1>3 DEF Sound

LEMMA IdleSound ==
  ASSUME NEW u \in Actor, job'[u] = Idle
  PROVE  Sound(u)'
  BY DEF Sound, Placed, Holds, Current, Both, Idle, Writer

\* Where nothing is held, nothing read is relied on.
LEMMA FreeSound ==
  ASSUME NEW u \in Actor, Placed(job[u])',
         job'[u].pc \notin {"writing", "project"},
         job'[u].op \in Writer => job'[u].pc # "project_lock"
  PROVE  Sound(u)'
  BY DEF Sound, Holds, Current, Both, Writer

LEMMA IdleTyped == Idle \in Job /\ 1 \in File /\ 1 \in Title
  BY FilesAssumption DEF Idle, Job, Index, File, Title

(***************************************************************************)
(* One lemma per action.                                                   *)
(***************************************************************************)

LEMMA BeginKeeps == ASSUME IInv, NEW t \in Thread, Begin(t) PROVE IInv'
  <1> t \in Actor
    BY DEF Actor
  <1> PICK op \in Op, f \in File, title \in Title :
        job' = [job EXCEPT ![t] =
                [Idle EXCEPT !.op = op,
                             !.file = IF op \in {"edit", "save", "patch"} THEN f ELSE 1,
                             !.title = IF op \in {"save", "patch"} THEN title ELSE 1,
                             !.pc = IF op \in {"edit", "save"} THEN "script_lock"
                                     ELSE IF op = "episode" THEN "candidate"
                                     ELSE "project_lock"]]
    BY DEF Begin
  <1> DEFINE j == [Idle EXCEPT !.op = op,
                             !.file = IF op \in {"edit", "save", "patch"} THEN f ELSE 1,
                             !.title = IF op \in {"save", "patch"} THEN title ELSE 1,
                             !.pc = IF op \in {"edit", "save"} THEN "script_lock"
                                     ELSE IF op = "episode" THEN "candidate"
                                     ELSE "project_lock"]
  <1>1. j \in Job
    BY IdleTyped DEF Idle, Job, Index, Op
  <1>2. Types'
    BY <1>1, FilesAssumption DEF IInv, Types, Begin, history
  <1>3. job'[t] = j
    BY DEF IInv, Types
  <1>4. /\ j.op = op
        /\ op \in {"edit", "save"} => j.pc = "script_lock"
        /\ op = "episode" => j.pc = "candidate"
        /\ op \in {"patch", "update"} => j.pc = "project_lock"
    BY DEF Idle
  <1>5. Sound(t)'
    <2> HIDE DEF j
    <2>1. Placed(job[t])'
      BY <1>3, <1>4 DEF Placed, Writer, Op
    <2> QED BY <2>1, <1>3, <1>4, FreeSound DEF Op, Writer
  <1>6. ASSUME NEW u \in Actor, u # t PROVE Sound(u)'
    BY <1>6, StaysSound DEF IInv, Begin, Types
  <1>7. NoLostUpdate'
    BY DEF IInv, NoLostUpdate, Begin, history
  <1> QED BY <1>2, <1>5, <1>6, <1>7 DEF IInv

LEMMA FindCandidateKeeps == ASSUME IInv, NEW t \in Actor, FindCandidate(t) PROVE IInv'
  <1>1. /\ job[t] \in Job /\ index.file \in File
        /\ job'[t] = [job[t] EXCEPT !.file = index.file, !.pc = "script_lock"]
    BY DEF IInv, Types, FindCandidate, Index
  <1>2. Types'
    BY <1>1 DEF IInv, Types, FindCandidate, Job, Index, history
  <1>3. /\ job'[t].op = "episode" /\ job'[t].pc = "script_lock"
    BY <1>1 DEF FindCandidate, At, Job
  <1>4. Sound(t)'
    BY <1>3, FreeSound DEF Placed, Writer
  <1>5. ASSUME NEW u \in Actor, u # t PROVE Sound(u)'
    BY <1>5, StaysSound DEF IInv, FindCandidate, Types
  <1>6. NoLostUpdate'
    BY DEF IInv, NoLostUpdate, FindCandidate, history
  <1> QED BY <1>2, <1>4, <1>5, <1>6 DEF IInv

LEMMA TakeScriptLockKeeps == ASSUME IInv, NEW t \in Actor, TakeScriptLock(t) PROVE IInv'
  <1> DEFINE f == job[t].file
  <1>1. job[t] \in Job /\ f \in File /\ script[f] \in Contents
    BY DEF IInv, Types, Job
  <1>2. /\ scriptLock[f] = Nobody
        /\ scriptLock'[f] = t
        /\ \A g \in File : g # f => scriptLock'[g] = scriptLock[g]
        /\ scriptLock' \in [File -> Actor \cup {Nobody}]
    BY <1>1 DEF IInv, Types, TakeScriptLock, ScriptLockFree
  <1>3. /\ job[t].op \in Writer
        /\ job'[t].op = job[t].op /\ job'[t].file = f
        /\ job[t].op = "edit" => /\ job'[t].pc = "writing"
                                 /\ job'[t].title = script[f].title
                                 /\ job'[t].edits = script[f].edits
        /\ job[t].op = "save" => job'[t].pc = "writing"
        /\ job[t].op = "episode" => job'[t].pc = "project_lock"
        /\ job'[t] \in Job
    BY <1>1 DEF IInv, Types, TakeScriptLock, At, Writer, ReadScript, Job, Contents
  <1>4. Types'
    BY <1>2, <1>3 DEF IInv, Types, TakeScriptLock, history
  <1>5. Sound(t)'
    <2>1. UNCHANGED script
      BY DEF TakeScriptLock
    <2> QED BY <2>1, <1>2, <1>3 DEF Sound, Placed, Holds, Current, Both, Writer
  <1>6. ASSUME NEW u \in Actor, u # t PROVE Sound(u)'
    <2>1. u # Nobody
      BY FilesAssumption DEF Actor
    <2> QED BY <2>1, <1>2, <1>6, StaysSound DEF IInv, TakeScriptLock, Types
  <1>7. NoLostUpdate'
    BY DEF IInv, NoLostUpdate, TakeScriptLock, history
  <1> QED BY <1>4, <1>5, <1>6, <1>7 DEF IInv

LEMMA LoadScriptKeeps == ASSUME IInv, NEW t \in Actor, LoadScript(t) PROVE IInv'
  <1>1. job[t] \in Job /\ script[job[t].file] \in Contents
    BY DEF IInv, Types, Job
  <1>2. job'[t] \in Job /\ job'[t].op = "scan" /\ job'[t].pc = "project_lock"
    BY <1>1 DEF IInv, Types, LoadScript, At, ReadScript, Job, Contents
  <1>3. Types'
    BY <1>2 DEF IInv, Types, LoadScript, history
  <1>4. Sound(t)'
    BY <1>2, FreeSound DEF Placed, Writer
  <1>5. ASSUME NEW u \in Actor, u # t PROVE Sound(u)'
    BY <1>5, StaysSound DEF IInv, LoadScript, Types
  <1>6. NoLostUpdate'
    BY DEF IInv, NoLostUpdate, LoadScript, history
  <1> QED BY <1>3, <1>4, <1>5, <1>6 DEF IInv

\* What is released.
LEMMA ReleaseTyped ==
  ASSUME Types, NEW t \in Actor
  PROVE  /\ WithoutScriptLock(t) \in [File -> Actor \cup {Nobody}]
         /\ \A u \in Actor, f \in File : u # t /\ scriptLock[f] = u => WithoutScriptLock(t)[f] = u
  BY DEF Types, WithoutScriptLock

LEMMA TakeProjectLockKeeps == ASSUME IInv, NEW t \in Actor, TakeProjectLock(t) PROVE IInv'
  <1> DEFINE f == job[t].file
  <1>1. /\ job[t] \in Job /\ f \in File /\ script[f] \in Contents /\ index \in Index
        /\ t # Nobody /\ Types
    BY FilesAssumption DEF IInv, Types, Job, Actor
  <1>2. NoLostUpdate'
    BY DEF IInv, NoLostUpdate, TakeProjectLock, history
  <1>3. CASE job[t].op = "episode" /\ Rebound(t)
    <2>1. /\ job' = [job EXCEPT ![t] = Idle]
          /\ scriptLock' = WithoutScriptLock(t)
          /\ UNCHANGED <<projectLock, index, script, due, dueProject, ops, faults>>
      BY <1>3 DEF TakeProjectLock, Finish, history
    <2>2. Types'
      BY <1>1, <2>1, IdleTyped, ReleaseTyped DEF Types
    <2>3. Sound(t)'
      BY <2>1, IdleSound DEF IInv, Types
    <2>4. ASSUME NEW u \in Actor, u # t PROVE Sound(u)'
      BY <1>1, <2>1, <2>4, ReleaseTyped, StaysSound DEF IInv, Types
    <2> QED BY <1>2, <2>2, <2>3, <2>4 DEF IInv
  <1>4. CASE ~(job[t].op = "episode" /\ Rebound(t))
    <2>1. /\ projectLock = Nobody /\ projectLock' = t /\ job[t].pc = "project_lock"
          /\ UNCHANGED <<scriptLock, index, script, due, dueProject, ops, faults>>
      BY <1>4 DEF TakeProjectLock, ProjectLockFree, history
    <2>2. /\ job'[t].op = job[t].op /\ job'[t].file = f /\ job'[t].seen = index
          /\ job[t].op = "episode" => /\ job'[t].pc = "writing"
                                      /\ job'[t].title = script[f].title
                                      /\ job'[t].edits = script[f].edits
          /\ job[t].op # "episode" => job'[t].pc = "project" /\ job'[t].title = job[t].title
          /\ job' \in [Actor -> Job]
      <3> DEFINE j == [job[t] EXCEPT !.title = script[f].title, !.edits = script[f].edits,
                                     !.seen = index, !.pc = "writing"]
                 k == [job[t] EXCEPT !.seen = index, !.pc = "project"]
      <3>1. job'[t] = IF job[t].op = "episode" THEN j ELSE k
        BY <1>1, <1>4 DEF TakeProjectLock, Types, ReadProject, ReadScript
      <3>2. /\ j \in Job /\ j.op = job[t].op /\ j.file = f /\ j.seen = index
            /\ j.pc = "writing" /\ j.title = script[f].title /\ j.edits = script[f].edits
        BY <1>1 DEF Job, Contents
      <3>3. /\ k \in Job /\ k.op = job[t].op /\ k.file = f /\ k.seen = index
            /\ k.pc = "project" /\ k.title = job[t].title
        BY <1>1 DEF Job
      <3>4. job' \in [Actor -> Job]
        <4> HIDE DEF j, k
        <4>1. job'[t] \in Job
          BY <3>1, <3>2, <3>3
        <4>2. \E x : job' = [job EXCEPT ![t] = x]
          BY <1>4 DEF TakeProjectLock
        <4> QED BY <1>1, <4>1, <4>2 DEF Types
      <3> HIDE DEF j, k
      <3> QED BY <3>1, <3>2, <3>3, <3>4
    <2>3. Types'
      BY <1>1, <2>1, <2>2 DEF Types
    <2>4. Sound(t)'
      <3>1. Sound(t)
        BY DEF IInv
      <3>2. job[t].op = "episode" => index.file = f
        BY <1>4 DEF Rebound
      <3>3. Placed(job[t])'
        BY <2>1, <2>2, <3>1 DEF Sound, Placed, Writer
      <3>4. Holds(t, job[t])'
        BY <2>1, <2>2, <3>1 DEF Sound, Holds, Writer
      <3>5. Current(job[t])'
        BY <2>1, <2>2, <3>1, <3>2 DEF Sound, Current, Both, Placed, Writer
      <3> QED BY <3>3, <3>4, <3>5 DEF Sound
    <2>5. ASSUME NEW u \in Actor, u # t PROVE Sound(u)'
      <3>1. u # Nobody /\ job'[u] = job[u]
        BY <2>5, FilesAssumption DEF Actor, TakeProjectLock, Finish, IInv, Types
      <3> QED BY <2>1, <3>1, StaysSound DEF IInv
    <2> QED BY <1>2, <2>3, <2>4, <2>5 DEF IInv
  <1> QED BY <1>3, <1>4

LEMMA RefuseKeeps == ASSUME IInv, NEW t \in Thread, Refuse(t) PROVE IInv'
  <1>1. t \in Actor /\ t # Nobody /\ Types
    BY FilesAssumption DEF Actor, IInv
  <1>2. /\ job' = [job EXCEPT ![t] = Idle]
        /\ scriptLock' = WithoutScriptLock(t)
        /\ projectLock' = IF projectLock = t THEN Nobody ELSE projectLock
        /\ UNCHANGED <<index, script, due, dueProject, ops, faults>>
    BY DEF Refuse, Finish, history
  <1>3. Types'
    BY <1>1, <1>2, IdleTyped, ReleaseTyped DEF Types
  <1>4. Sound(t)'
    BY <1>1, <1>2, IdleSound DEF Types
  <1>5. ASSUME NEW u \in Actor, u # t PROVE Sound(u)'
    BY <1>1, <1>2, <1>5, ReleaseTyped, StaysSound DEF IInv, Types
  <1>6. NoLostUpdate'
    BY <1>2 DEF IInv, NoLostUpdate
  <1> QED BY <1>3, <1>4, <1>5, <1>6 DEF IInv

LEMMA ContentsTyped ==
  ASSUME NEW title \in Title, NEW n \in Nat, NEW numbered \in BOOLEAN
  PROVE  [title |-> title, edits |-> n, numbered |-> numbered] \in Contents
  BY DEF Contents

LEMMA EditTyped ==
  ASSUME NEW c \in Contents, NEW title \in Title, NEW n \in Nat
  PROVE  [c EXCEPT !.title = title, !.edits = n] \in Contents
  BY DEF Contents

LEMMA WriteScriptKeeps == ASSUME IInv, NEW t \in Actor, WriteScript(t) PROVE IInv'
  <1> DEFINE j == job[t]
             f == j.file
  <1>1. /\ j \in Job /\ f \in File /\ script[f] \in Contents /\ due[f] \in Nat
        /\ t # Nobody /\ Types /\ Sound(t) /\ j.pc = "writing"
    BY FilesAssumption DEF IInv, Types, Job, Actor, WriteScript
  <1>2. /\ j.op \in Writer /\ scriptLock[f] = t
        /\ j.op = "episode" => projectLock = t /\ j.seen = index /\ index.file = f
        /\ j.op # "save" => j.edits = script[f].edits /\ j.title = script[f].title
    BY <1>1 DEF Sound, Placed, Holds, Current, Both, Writer, Op, Job
  <1>3. /\ script' = [script EXCEPT ![f] = Written(j)]
        /\ due' = [due EXCEPT ![f] = IF j.op = "save" THEN 0 ELSE @ + 1]
        /\ UNCHANGED <<index, projectLock, dueProject, ops, faults>>
    BY DEF WriteScript
  <1>4. /\ Written(j) \in Contents
        /\ Written(j).title = j.title
        /\ j.op = "save" => Written(j).edits = 0
        /\ j.op # "save" => Written(j).edits = script[f].edits + 1
    <2>1. CASE j.op = "save"
      BY <1>1, <2>1 DEF Written, Contents, Job
    <2>2. CASE j.op # "save"
      <3>1. Written(j) = [script[f] EXCEPT !.title = j.title, !.edits = j.edits + 1]
        BY <2>2 DEF Written
      <3>2. j.title \in Title /\ j.edits \in Nat
        BY <1>1 DEF Job
      <3> HIDE DEF j, f
      <3>3. Written(j) \in Contents
        <4>1. j.edits + 1 \in Nat
          BY <3>2
        <4>2. script[f] \in Contents
          BY <1>1
        <4>3. [script[f] EXCEPT !.title = j.title, !.edits = j.edits + 1] \in Contents
          BY <3>2, <4>1, <4>2, EditTyped, Zenon
        <4> QED BY <3>1, <4>3
      <3>4. Written(j).title = j.title /\ Written(j).edits = j.edits + 1
        BY <1>1, <3>1 DEF Contents
      <3> QED BY <1>2, <2>2, <3>3, <3>4
    <2> QED BY <2>1, <2>2
  <1>5. /\ job'[t] \in {Idle, [j EXCEPT !.pc = "project"], [j EXCEPT !.pc = "project_lock"]}
        /\ \E x \in Job : job' = [job EXCEPT ![t] = x]
        /\ scriptLock' \in {scriptLock, WithoutScriptLock(t)}
        /\ job'[t] # Idle => scriptLock' = scriptLock
        /\ job'[t] # Idle /\ j.op = "episode" => job'[t].pc = "project"
        /\ job'[t] # Idle /\ j.op # "episode" => job'[t].pc = "project_lock"
    <2>1. CASE j.op = "episode"
      <3>1. job' = [job EXCEPT ![t].pc = "project"] /\ scriptLock' = scriptLock
        BY <2>1 DEF WriteScript, AfterWriting, Goto
      <3>2. job' = [job EXCEPT ![t] = [j EXCEPT !.pc = "project"]]
        BY <1>1, <3>1 DEF Types
      <3>3. [j EXCEPT !.pc = "project"] \in Job /\ [j EXCEPT !.pc = "project"].pc = "project"
        BY <1>1 DEF Job
      <3>4. job'[t] = [j EXCEPT !.pc = "project"]
        BY <1>1, <3>2 DEF Types
      <3> QED BY <2>1, <3>1, <3>2, <3>3, <3>4
    <2>2. CASE j.op # "episode" /\ Written(j).numbered
      <3>1. job' = [job EXCEPT ![t].pc = "project_lock"] /\ scriptLock' = scriptLock
        BY <2>2 DEF WriteScript, AfterWriting, Goto
      <3>2. job' = [job EXCEPT ![t] = [j EXCEPT !.pc = "project_lock"]]
        BY <1>1, <3>1 DEF Types
      <3>3. /\ [j EXCEPT !.pc = "project_lock"] \in Job
            /\ [j EXCEPT !.pc = "project_lock"].pc = "project_lock"
        BY <1>1 DEF Job
      <3>4. job'[t] = [j EXCEPT !.pc = "project_lock"]
        BY <1>1, <3>2 DEF Types
      <3> QED BY <2>2, <3>1, <3>2, <3>3, <3>4
    <2>3. CASE j.op # "episode" /\ ~Written(j).numbered
      <3>1. job' = [job EXCEPT ![t] = Idle] /\ scriptLock' = WithoutScriptLock(t)
        BY <2>3 DEF WriteScript, AfterWriting, Finish
      <3>2. job'[t] = Idle
        BY <1>1, <3>1 DEF Types
      <3> QED BY <3>1, <3>2, IdleTyped
    <2> QED BY <2>1, <2>2, <2>3
  <1>6. Types'
    BY <1>1, <1>3, <1>4, <1>5, ReleaseTyped DEF Types
  <1>7. Sound(t)'
    <2>1. CASE job'[t] = Idle
      BY <2>1, IdleSound
    <2>2. CASE job'[t] # Idle
      <3>1. job'[t].op = j.op /\ job'[t].file = f /\ job'[t].title = j.title /\ job'[t].seen = j.seen
        BY <1>1, <1>5, <2>2 DEF Job
      <3>2. script'[f].title = j.title
        BY <1>1, <1>3, <1>4 DEF Types
      <3>3. Placed(job[t])'
        BY <1>2, <1>5, <2>2, <3>1 DEF Placed, Writer
      <3>4. Holds(t, job[t])'
        BY <1>2, <1>3, <1>5, <2>2, <3>1 DEF Holds, Both, Writer
      <3>5. Current(job[t])'
        BY <1>2, <1>3, <1>5, <2>2, <3>1, <3>2 DEF Current, Both, Writer
      <3> QED BY <3>3, <3>4, <3>5 DEF Sound
    <2> QED BY <2>1, <2>2
  <1>8. ASSUME NEW u \in Actor, u # t PROVE Sound(u)'
    BY <1>1, <1>2, <1>3, <1>5, <1>8, ReleaseTyped, StaysSound DEF IInv, Types
  <1>9. NoLostUpdate'
    <2>1. script[f].edits = due[f] /\ index.edits = dueProject
      BY <1>1 DEF IInv, NoLostUpdate
    <2>2. \A g \in File : g # f => script'[g] = script[g] /\ due'[g] = due[g]
      BY <1>1, <1>3 DEF Types
    <2>3. script'[f].edits = due'[f]
      BY <1>1, <1>3, <1>4, <2>1 DEF Types
    <2> QED BY <1>3, <2>1, <2>2, <2>3 DEF IInv, NoLostUpdate
  <1> QED BY <1>6, <1>7, <1>8, <1>9 DEF IInv

LEMMA UpdatedTyped ==
  ASSUME Types, NEW t \in Actor
  PROVE  /\ Updated(job[t]) \in Index
         /\ job[t].op = "update" => Updated(job[t]).edits = job[t].seen.edits + 1
         /\ job[t].op # "update" => Updated(job[t]).edits = job[t].seen.edits
  <1>1. job[t].seen \in Index /\ job[t].file \in File /\ job[t].title \in Title
    BY DEF Types, Job
  <1>2. CASE job[t].op = "update"
    <2>1. Updated(job[t]) = [job[t].seen EXCEPT !.edits = @ + 1]
      BY <1>2 DEF Updated
    <2> QED BY <1>1, <1>2, <2>1 DEF Index
  <1>3. CASE job[t].op # "update"
    <2>1. Updated(job[t]) \in {job[t].seen,
                               [job[t].seen EXCEPT !.file = job[t].file, !.title = job[t].title]}
      BY <1>3 DEF Updated
    <2> QED BY <1>1, <1>3, <2>1 DEF Index
  <1> QED BY <1>2, <1>3

LEMMA WriteProjectKeeps == ASSUME IInv, NEW t \in Actor, WriteProject(t) PROVE IInv'
  <1> DEFINE j == job[t]
  <1>1. /\ j \in Job /\ t # Nobody /\ Types /\ Sound(t) /\ j.pc = "project"
        /\ Updated(j) \in Index
    BY FilesAssumption, UpdatedTyped DEF IInv, Types, Actor, WriteProject
  <1>2. projectLock = t /\ j.seen = index
    BY <1>1 DEF Sound, Holds, Current
  <1>3. /\ index' = Updated(j)
        /\ dueProject' = IF j.op = "update" THEN dueProject + 1 ELSE dueProject
        /\ projectLock' = Nobody
        /\ scriptLock' = WithoutScriptLock(t)
        /\ UNCHANGED <<script, due, ops, faults>>
    BY DEF WriteProject
  <1>4. /\ \E x \in Job : job' = [job EXCEPT ![t] = x]
        /\ Sound(t)'
    <2>1. CASE j.op = "scan"
      <3> DEFINE x == [j EXCEPT !.pc = "next", !.seen = Updated(j)]
      <3>1. job' = [job EXCEPT ![t] = x]
        BY <1>1, <2>1 DEF WriteProject, Types
      <3>2. x \in Job /\ x.op = "scan" /\ x.pc = "next"
        BY <1>1, <2>1 DEF Job
      <3>3. job'[t] = x
        BY <1>1, <3>1 DEF Types
      <3> HIDE DEF x
      <3>4. Sound(t)'
        BY <3>2, <3>3, FreeSound DEF Placed, Writer
      <3> QED BY <3>1, <3>2, <3>4
    <2>2. CASE j.op # "scan"
      <3>1. job' = [job EXCEPT ![t] = Idle]
        BY <2>2 DEF WriteProject, Finish
      <3>2. job'[t] = Idle
        BY <1>1, <3>1 DEF Types
      <3> QED BY <3>1, <3>2, IdleTyped, IdleSound
    <2> QED BY <2>1, <2>2
  <1>5. Types'
    BY <1>1, <1>3, <1>4, ReleaseTyped DEF Types
  <1>6. ASSUME NEW u \in Actor, u # t PROVE Sound(u)'
    BY <1>1, <1>2, <1>3, <1>4, <1>6, ReleaseTyped, StaysSound DEF IInv, Types
  <1>7. NoLostUpdate'
    BY <1>1, <1>2, <1>3, UpdatedTyped DEF IInv, NoLostUpdate
  <1> QED BY <1>4, <1>5, <1>6, <1>7 DEF IInv

LEMMA ScanStartsKeeps == ASSUME IInv, NEW t \in Actor, ScanStarts(t) PROVE IInv'
  <1> DEFINE x == [Idle EXCEPT !.seen = index, !.op = "scan", !.pc = "look"]
  <1>1. x \in Job /\ x.op = "scan" /\ x.pc = "look"
    BY IdleTyped DEF IInv, Types, Idle, Job, Index
  <1>2. job' = [job EXCEPT ![t] = x]
    BY DEF ScanStarts, ReadProject
  <1>3. Types'
    BY <1>1, <1>2 DEF IInv, Types, ScanStarts, history
  <1>4. Sound(t)'
    <2>1. job'[t] = x
      BY <1>1, <1>2 DEF IInv, Types
    <2> HIDE DEF x
    <2> QED BY <1>1, <2>1, FreeSound, IdleSound DEF Placed, Writer
  <1>5. ASSUME NEW u \in Actor, u # t PROVE Sound(u)'
    <2> HIDE DEF x
    <2> QED BY <1>2, <1>5, StaysSound DEF IInv, ScanStarts, Types
  <1>6. NoLostUpdate'
    BY DEF IInv, NoLostUpdate, ScanStarts, history
  <1> QED BY <1>3, <1>4, <1>5, <1>6 DEF IInv

LEMMA ScanLooksKeeps == ASSUME IInv, NEW t \in Actor, ScanLooks(t) PROVE IInv'
  <1> PICK pc \in {"next", "script_lock"} : job' = [job EXCEPT ![t].pc = pc]
    BY DEF ScanLooks, Goto
  <1> DEFINE x == [job[t] EXCEPT !.pc = pc]
  <1>1. x \in Job /\ x.op = "scan" /\ x.pc \in {"next", "script_lock"}
    BY DEF IInv, Types, Job, ScanLooks, At
  <1>2. job' = [job EXCEPT ![t] = x]
    BY DEF IInv, Types
  <1>3. Types'
    BY <1>1, <1>2 DEF IInv, Types, ScanLooks, history
  <1>4. Sound(t)'
    <2>1. job'[t] = x
      BY <1>1, <1>2 DEF IInv, Types
    <2> HIDE DEF x
    <2> QED BY <1>1, <2>1, FreeSound, IdleSound DEF Placed, Writer
  <1>5. ASSUME NEW u \in Actor, u # t PROVE Sound(u)'
    <2> HIDE DEF x
    <2> QED BY <1>2, <1>5, StaysSound DEF IInv, ScanLooks, Types
  <1>6. NoLostUpdate'
    BY DEF IInv, NoLostUpdate, ScanLooks, history
  <1> QED BY <1>3, <1>4, <1>5, <1>6 DEF IInv

LEMMA ScanSkipsKeeps == ASSUME IInv, NEW t \in Actor, ScanSkips(t) PROVE IInv'
  <1> DEFINE x == [job[t] EXCEPT !.pc = "next"]
  <1>1. x \in Job /\ x.op = "scan" /\ x.pc = "next"
    BY DEF IInv, Types, Job, ScanSkips, At
  <1>2. job' = [job EXCEPT ![t] = x] /\ faults' \in 0..MaxFaults
    BY FilesAssumption DEF IInv, Types, ScanSkips, Goto
  <1>3. Types'
    BY <1>1, <1>2 DEF IInv, Types, ScanSkips, history
  <1>4. Sound(t)'
    <2>1. job'[t] = x
      BY <1>1, <1>2 DEF IInv, Types
    <2> HIDE DEF x
    <2> QED BY <1>1, <2>1, FreeSound, IdleSound DEF Placed, Writer
  <1>5. ASSUME NEW u \in Actor, u # t PROVE Sound(u)'
    <2> HIDE DEF x
    <2> QED BY <1>2, <1>5, StaysSound DEF IInv, ScanSkips, Types
  <1>6. NoLostUpdate'
    BY DEF IInv, NoLostUpdate, ScanSkips, history
  <1> QED BY <1>3, <1>4, <1>5, <1>6 DEF IInv

LEMMA ScanNextKeeps == ASSUME IInv, NEW t \in Actor, ScanNext(t) PROVE IInv'
  <1>1. PICK x \in Job :
          /\ job' = [job EXCEPT ![t] = x]
          /\ x = Idle \/ (x.op = "scan" /\ x.pc = "look")
    <2>1. CASE job[t].file = Scripts
      <3>1. job' = [job EXCEPT ![t] = Idle]
        BY <2>1 DEF ScanNext, Finish
      <3> QED BY <3>1, IdleTyped, Zenon
    <2>2. CASE job[t].file # Scripts
      <3> DEFINE x == [job[t] EXCEPT !.file = @ + 1, !.pc = "look"]
      <3>1. job[t] \in Job /\ job[t].file + 1 \in File /\ job[t].op = "scan"
        BY <2>2, FilesAssumption DEF IInv, Types, Job, File, ScanNext, At
      <3>2. job' = [job EXCEPT ![t] = x]
        BY <2>2 DEF IInv, Types, ScanNext
      <3>3. x \in Job /\ x.op = "scan" /\ x.pc = "look"
        BY <3>1 DEF Job
      <3> HIDE DEF x
      <3> QED BY <3>2, <3>3
    <2> QED BY <2>1, <2>2
  <1>2. Types'
    BY <1>1 DEF IInv, Types, ScanNext, history
  <1>3. Sound(t)'
    <2>1. job'[t] = x
      BY <1>1 DEF IInv, Types
    <2> QED BY <1>1, <2>1, FreeSound, IdleSound DEF Placed, Writer
  <1>4. ASSUME NEW u \in Actor, u # t PROVE Sound(u)'
    BY <1>1, <1>4, StaysSound DEF IInv, ScanNext, Types
  <1>5. NoLostUpdate'
    BY DEF IInv, NoLostUpdate, ScanNext, history
  <1> QED BY <1>2, <1>3, <1>4, <1>5 DEF IInv

LEMMA CrashKeeps == ASSUME IInv, NEW p \in Processes, Crash(p) PROVE IInv'
  <1>1. /\ job' = [u \in Actor |-> IF u \in p THEN Idle ELSE job[u]]
        /\ projectLock' = IF projectLock \in p THEN Nobody ELSE projectLock
        /\ scriptLock' = [f \in File |-> IF scriptLock[f] \in p THEN Nobody ELSE scriptLock[f]]
        /\ UNCHANGED <<index, script, due, dueProject, ops>>
        /\ faults' \in 0..MaxFaults
    BY FilesAssumption DEF Crash, history, IInv, Types
  <1>2. Types'
    BY <1>1, IdleTyped DEF IInv, Types
  <1>3. ASSUME NEW u \in Actor PROVE Sound(u)'
    <2>1. CASE u \in p
      BY <1>1, <2>1, IdleSound
    <2>2. CASE u \notin p
      BY <1>1, <2>2, StaysSound DEF IInv, Types
    <2> QED BY <2>1, <2>2
  <1>4. NoLostUpdate'
    BY <1>1 DEF IInv, NoLostUpdate
  <1> QED BY <1>2, <1>3, <1>4 DEF IInv

(***************************************************************************)
(* The theorems.                                                           *)
(***************************************************************************)

LEMMA InitSound == Init => IInv
  <1> SUFFICES ASSUME Init PROVE IInv
    OBVIOUS
  <1>1. PICK known \in SUBSET File :
          script = [f \in File |-> [title |-> 1, edits |-> 0, numbered |-> f \in known]]
    BY DEF Init
  <1>2. script \in [File -> Contents] /\ \A f \in File : script[f].edits = 0
    <2>1. ASSUME NEW f \in File
          PROVE  [title |-> 1, edits |-> 0, numbered |-> f \in known] \in Contents
      <3> DEFINE b == f \in known
      <3>1. b \in BOOLEAN /\ 0 \in Nat
        OBVIOUS
      <3> HIDE DEF b
      <3>2. [title |-> 1, edits |-> 0, numbered |-> b] \in Contents
        BY <3>1, IdleTyped, ContentsTyped
      <3> QED BY <3>2 DEF b
    <2> QED BY <1>1, <2>1
  <1>3. Types
    BY <1>2, IdleTyped, FilesAssumption DEF Init, Types, Index
  <1>4. ASSUME NEW t \in Actor PROVE Sound(t)
    BY <1>4 DEF Init, Sound, Placed, Holds, Current, Both, Idle, Writer
  <1>5. NoLostUpdate
    BY <1>2 DEF Init, NoLostUpdate
  <1> QED BY <1>3, <1>4, <1>5 DEF IInv

LEMMA StepKeeps == IInv /\ [Next]_vars => IInv'
  <1> SUFFICES ASSUME IInv, [Next]_vars PROVE IInv'
    OBVIOUS
  <1>1. ASSUME NEW t \in Thread, Begin(t) \/ Refuse(t) PROVE IInv'
    BY <1>1, BeginKeeps, RefuseKeeps
  <1>2. ASSUME NEW t \in Actor, Work(t) PROVE IInv'
    BY <1>2, FindCandidateKeeps, TakeScriptLockKeeps, LoadScriptKeeps, TakeProjectLockKeeps,
       WriteScriptKeeps, WriteProjectKeeps DEF Work
  <1>3. ASSUME NEW t \in Scanner, Scan(t) \/ ScanSkips(t) PROVE IInv'
    <2> t \in Actor
      BY DEF Actor
    <2> QED BY <1>3, ScanStartsKeeps, ScanLooksKeeps, ScanSkipsKeeps, ScanNextKeeps DEF Scan
  <1>4. ASSUME NEW p \in Processes, Crash(p) PROVE IInv'
    BY <1>4, CrashKeeps
  <1>5. CASE UNCHANGED vars
    BY <1>5 DEF vars, history, IInv, Types, Sound, Placed, Holds, Current, Both, NoLostUpdate
  <1> QED BY <1>1, <1>2, <1>3, <1>4, <1>5 DEF Next

LEMMA Invariance == Spec => []IInv
  BY InitSound, StepKeeps, PTL DEF Spec

\* Typing: every variable keeps its type, and a thread that is about to write has
\* the lock file of what it writes, in spite of crashes.
THEOREM FilesTyping == Spec => []TypeOK
  <1>1. IInv => TypeOK
    <2> SUFFICES ASSUME IInv PROVE TypeOK
      OBVIOUS
    <2>1. Types
      BY DEF IInv
    <2>2. ASSUME NEW t \in Actor
          PROVE  /\ job[t].pc = "writing" => scriptLock[job[t].file] = t
                 /\ job[t].pc = "project" => projectLock = t
      BY DEF IInv, Types, Job, Op, Sound, Placed, Holds, Writer
    <2> QED BY <2>1, <2>2, Zenon DEF Types, Index, Contents, Job, TypeOK
  <1> QED BY <1>1, Invariance, PTL

\* No read-modify-write of locked_script or update_project is lost, whatever
\* threads, scans, saves and crashes come between its read and its write.
THEOREM NothingLost == Spec => []NoLostUpdate
  <1>1. IInv => NoLostUpdate
    BY DEF IInv
  <1> QED BY <1>1, Invariance, PTL

\* Only WriteProject changes project.json.
LEMMA ProjectWriter ==
  ASSUME [Next]_vars, index' # index
  PROVE  \E u \in Actor : WriteProject(u)
  BY DEF Next, vars, history, Begin, Refuse, Work, FindCandidate, TakeScriptLock, LoadScript,
         TakeProjectLock, WriteScript, Scan, ScanStarts, ScanLooks, ScanSkips, ScanNext, Crash

\* locked_episode_script writes only the script that project.json binds its
\* episode to at that moment.
THEOREM EditsWhereBound == Spec => WrittenWhereBound
  <1> DEFINE A == \A t \in Thread :
                    At(t, {"episode"}, "writing") /\ script' # script /\ job'[t] # job[t]
                      => index.file = job[t].file
  <1>1. IInv /\ [Next]_vars => [A]_vars
    <2> SUFFICES ASSUME IInv, NEW t \in Thread, At(t, {"episode"}, "writing")
                 PROVE  index.file = job[t].file
      OBVIOUS
    <2> QED BY DEF Actor, IInv, Sound, Current, Both, At
  <1> QED BY <1>1, Invariance, PTL DEF Spec, WrittenWhereBound

\* What an operation on a script copies into project.json is the title the script
\* has at that moment: the two writes are one transaction.
THEOREM SyncCurrent == Spec => SyncIsCurrent
  <1> DEFINE A == \A t \in Thread :
                    At(t, {"edit", "save", "episode"}, "project") /\ job'[t] # job[t] /\ index' # index
                      => index'.title = script[job[t].file].title
  <1>1. IInv /\ [Next]_vars => [A]_vars
    <2> SUFFICES ASSUME IInv, [Next]_vars, NEW t \in Thread,
                        At(t, {"edit", "save", "episode"}, "project"),
                        job'[t] # job[t], index' # index
                 PROVE  index'.title = script[job[t].file].title
      OBVIOUS
    <2> t \in Actor
      BY DEF Actor
    <2>1. PICK u \in Actor : WriteProject(u)
      BY ProjectWriter
    <2>2. u = t
      BY <2>1 DEF WriteProject, Finish, IInv, Types
    <2>3. index' = Updated(job[t]) /\ job[t].op # "scan"
      BY <2>1, <2>2 DEF WriteProject, At
    <2>4. Current(job[t]) /\ job[t].op \in {"edit", "save", "episode"} /\ job[t].pc = "project"
      BY DEF IInv, Sound, At
    <2>5. job[t].title = script[job[t].file].title /\ job[t].seen = index
      BY <2>4 DEF Current
    <2>6. index \in Index
      BY DEF IInv, Types
    <2>7. index' = [index EXCEPT !.file = job[t].file, !.title = job[t].title]
      BY <2>3, <2>4, <2>5 DEF Updated
    <2> QED BY <2>5, <2>6, <2>7 DEF Index
  <1> QED BY <1>1, Invariance, PTL DEF Spec, SyncIsCurrent

=============================================================================
