---------------------------- MODULE VersionManager ----------------------------
(***************************************************************************)
(* The media of one resource: the file everybody reads (output_path) and   *)
(* its record in versions.json.  A version keeps a copy of the file, named *)
(* after its number and the time, so the copy is what the number stands    *)
(* for.  Every operation holds the lock of versions.json, one per process: *)
(* each is one step here, where the users' requests and the worker share a *)
(* process (not so on the desktop).                                        *)
(***************************************************************************)
EXTENDS Integers

Absent == 0    \* the content of a file that does not exist
Torn == -1     \* the content of a file being written
Uploaded == -2 \* the content of a file a user uploaded

VARIABLES
  file,      \* the content of output_path
  versions,  \* version number -> content of its copy
  current    \* current_version

media == <<file, versions, current>>

MediaInit == file = Absent /\ versions = <<>> /\ current = 0

\* Greater than every number in use, after deletions too.
NextVersion ==
  IF DOMAIN versions = {} THEN 1
  ELSE 1 + CHOOSE n \in DOMAIN versions : \A m \in DOMAIN versions : m <= n

\* add_version of what output_path holds, content.
Record(content) ==
  /\ versions' = [n \in DOMAIN versions \cup {NextVersion} |->
                     IF n = NextVersion THEN content ELSE versions[n]]
  /\ current' = NextVersion

AddVersion == Record(file) /\ UNCHANGED file

EnsureCurrentTracked ==
  IF file = Absent \/ current > 0 THEN UNCHANGED media ELSE AddVersion

\* Mutant: only the record is changed.
RestoredRecord(n) ==
  /\ n \in DOMAIN versions
  /\ current' = n /\ UNCHANGED <<file, versions>>

Restored(n) ==
  /\ n \in DOMAIN versions
  /\ file' = versions[n] /\ current' = n /\ UNCHANGED versions

\* Mutant: the current version can be deleted.
DeletedEvenCurrent(n) ==
  /\ n \in DOMAIN versions /\ DOMAIN versions # {n}
  /\ versions' = [m \in DOMAIN versions \ {n} |-> versions[m]]
  /\ UNCHANGED <<file, current>>

\* Neither the current version nor the last one.
Deleted(n) ==
  /\ n \in DOMAIN versions \ {current} /\ DOMAIN versions # {n}
  /\ versions' = [m \in DOMAIN versions \ {n} |-> versions[m]]
  /\ UNCHANGED <<file, current>>
=============================================================================
