------------------------------ MODULE FmtApply -----------------------------
(***************************************************************************)
(* src/src/driver.rs: how `ybm check --apply` rewrites the entry file and   *)
(* its sibling modules.  apply_fmt formats the texts the front end read     *)
(* earlier, stages one temporary file per changed file, and commit_formats  *)
(* swaps the files in by renames, rolls the swapped ones back when a rename *)
(* fails, and removes the backups at the end.                               *)
(*                                                                         *)
(* One action is one system call.  Any of them may fail, the process may    *)
(* be killed between any two, and an editor may save a file meanwhile.      *)
(***************************************************************************)
EXTENDS Naturals, FiniteSets

CONSTANTS
  N,           \* number of files of the program; file 1 is the entry
  MaxFaults,   \* bound on failing system calls
  MaxEdits     \* bound on saves by an editor

ASSUME Parameters == N \in Nat /\ MaxFaults \in Nat /\ MaxEdits \in Nat

Files == 1 .. N

VARIABLES
  changed,     \* the files whose formatted text differs from the text read
  symlink,     \* the files that are symbolic links
  path,        \* text at the file's own name, "none" where the name is free
  temp,        \* text at <name>.fmt-<pid>-<index>
  backup,      \* text at <name>.backup-<pid>-<index>
  phase,       \* the system call to make next, or how the run ended
  at,          \* the file being staged or committed
  todo,        \* the files the current clean-up loop still has to visit
  rest,        \* the files to clean up after the rollback
  ok,          \* commit_formats' result so far
  faults,      \* system calls that failed
  edits        \* saves by an editor

disk    == <<path, temp, backup>>
inputs  == <<changed, symlink>>
cursors == <<at, todo, rest, ok>>
vars    == <<changed, symlink, path, temp, backup, phase, at, todo, rest, ok, faults, edits>>

Texts == {"none", "original", "formatted", "edited"}
Ended == phase \in {"success", "failure", "killed"}

First(S) == CHOOSE x \in S : \A y \in S : x <= y
Last(S)  == CHOOSE x \in S : \A y \in S : x >= y

(* Temporary and backup names may be taken, by what a killed run with the   *)
(* same process id left behind.                                            *)
Init ==
  /\ changed \in SUBSET Files
  /\ symlink \in SUBSET Files
  /\ path = [f \in Files |-> "original"]
  /\ temp \in [Files -> {"none", "foreign"}]
  /\ backup \in [Files -> {"none", "foreign"}]
  /\ phase = "stage"
  /\ at = 1
  /\ todo = {}
  /\ rest = {}
  /\ ok = TRUE
  /\ faults = 0
  /\ edits = 0

Goes == UNCHANGED faults
Fails == faults < MaxFaults /\ faults' = faults + 1

----------------------------------------------------------------------------
(* apply_fmt's staging loop.                                               *)

(* A file already in canonical form is left alone.                         *)
StageSkip ==
  /\ phase = "stage"
  /\ at \in Files \ changed
  /\ at' = at + 1
  /\ UNCHANGED <<inputs, disk, phase, todo, rest, ok, faults, edits>>

(* Staging gives up: the temporaries staged so far are removed.            *)
GiveUpStaging ==
  /\ phase' = "unstage"
  /\ todo' = {f \in changed : f < at}

(* The file is probed: a symbolic link, or a backup name that is taken,      *)
(* refuses the whole run.  A probe of the backup name that itself fails      *)
(* reads as a free name.                                                   *)
StageProbe ==
  /\ phase = "stage"
  /\ at \in changed
  /\ \/ /\ at \notin symlink
        /\ \/ backup[at] = "none" /\ Goes
           \/ backup[at] # "none" /\ Fails
        /\ phase' = "create"
        /\ UNCHANGED todo
     \/ /\ \/ (at \in symlink \/ backup[at] # "none") /\ Goes
           \/ Fails
        /\ GiveUpStaging
  /\ UNCHANGED <<inputs, disk, at, rest, ok, edits>>

(* create_new: fails on a name that is taken.                              *)
StageCreate ==
  /\ phase = "create"
  /\ \/ /\ temp[at] = "none"
        /\ Goes
        /\ temp' = [temp EXCEPT ![at] = "partial"]
        /\ phase' = "write"
     \/ /\ (temp[at] # "none" /\ Goes) \/ Fails
        /\ phase' = "discard"
        /\ UNCHANGED temp
  /\ UNCHANGED <<inputs, path, backup, cursors, edits>>

StageWriteInPlace ==            \* mutant: the text is written to the file itself
  /\ phase = "write"
  /\ \/ /\ Goes
        /\ temp' = [temp EXCEPT ![at] = "formatted"]
        /\ at' = at + 1
        /\ phase' = "stage"
        /\ UNCHANGED path
     \/ /\ Fails
        /\ path' = [path EXCEPT ![at] = "partial"]
        /\ phase' = "discard"
        /\ UNCHANGED <<temp, at>>
  /\ UNCHANGED <<inputs, backup, todo, rest, ok, edits>>

(* Permissions, text and sync: only a complete temporary is kept.           *)
StageWrite ==
  /\ phase = "write"
  /\ \/ /\ Goes
        /\ temp' = [temp EXCEPT ![at] = "formatted"]
        /\ at' = at + 1
        /\ phase' = "stage"
     \/ /\ Fails
        /\ phase' = "discard"
        /\ UNCHANGED <<temp, at>>
  /\ UNCHANGED <<inputs, path, backup, todo, rest, ok, edits>>

(* stage_format removes its temporary, or whatever has that name, and fails. *)
StageDiscard ==
  /\ phase = "discard"
  /\ \/ Goes /\ temp' = [temp EXCEPT ![at] = "none"]
     \/ Fails /\ UNCHANGED temp
  /\ GiveUpStaging
  /\ UNCHANGED <<inputs, path, backup, at, rest, ok, edits>>

Unstage ==
  /\ phase = "unstage"
  /\ todo # {}
  /\ \/ Goes /\ temp' = [temp EXCEPT ![First(todo)] = "none"]
     \/ Fails /\ UNCHANGED temp
  /\ todo' = todo \ {First(todo)}
  /\ UNCHANGED <<inputs, path, backup, phase, at, rest, ok, edits>>

StagingOver ==
  /\ phase = "stage"
  /\ at \notin Files
  /\ phase' = "commit"
  /\ at' = 1
  /\ UNCHANGED <<inputs, disk, todo, rest, ok, faults, edits>>

----------------------------------------------------------------------------
(* commit_formats: path to backup, temporary to path, file by file.          *)

CommitSkip ==
  /\ phase = "commit"
  /\ at \in Files \ changed
  /\ at' = at + 1
  /\ UNCHANGED <<inputs, disk, phase, todo, rest, ok, faults, edits>>

RollBackNothing(first) ==       \* mutant: the files already swapped stay
  /\ phase' = "rollback"
  /\ todo' = {}
  /\ rest' = {f \in changed : f >= first}

(* The files before `at` are rolled back, the temporaries from `first` on     *)
(* removed.                                                                *)
RollBack(first) ==
  /\ phase' = "rollback"
  /\ todo' = {f \in changed : f < at}
  /\ rest' = {f \in changed : f >= first}

MoveAway ==
  /\ phase = "commit"
  /\ at \in changed
  /\ \/ /\ Goes
        /\ backup' = [backup EXCEPT ![at] = path[at]]
        /\ path' = [path EXCEPT ![at] = "none"]
        /\ phase' = "install"
        /\ UNCHANGED <<todo, rest>>
     \/ /\ Fails
        /\ RollBack(at)
        /\ UNCHANGED <<path, backup>>
  /\ UNCHANGED <<inputs, temp, at, ok, edits>>

InstallDropsBackup ==           \* mutant: each backup goes before the next swap
  /\ phase = "install"
  /\ \/ /\ Goes
        /\ path' = [path EXCEPT ![at] = temp[at]]
        /\ temp' = [temp EXCEPT ![at] = "none"]
        /\ backup' = [backup EXCEPT ![at] = "none"]
        /\ at' = at + 1
        /\ phase' = "commit"
     \/ /\ Fails
        /\ phase' = "restore"
        /\ UNCHANGED <<path, temp, backup, at>>
  /\ UNCHANGED <<inputs, todo, rest, ok, edits>>

Install ==
  /\ phase = "install"
  /\ \/ /\ Goes
        /\ path' = [path EXCEPT ![at] = temp[at]]
        /\ temp' = [temp EXCEPT ![at] = "none"]
        /\ at' = at + 1
        /\ phase' = "commit"
     \/ /\ Fails
        /\ phase' = "restore"
        /\ UNCHANGED <<path, temp, at>>
  /\ UNCHANGED <<inputs, backup, todo, rest, ok, edits>>

RestoreForgotten ==             \* mutant: the backup is not renamed back
  /\ phase = "restore"
  /\ phase' = "drop"
  /\ Goes
  /\ UNCHANGED <<inputs, disk, cursors, edits>>

(* The temporary did not go in: put the file back where it was.             *)
Restore ==
  /\ phase = "restore"
  /\ \/ /\ Goes
        /\ path' = [path EXCEPT ![at] = backup[at]]
        /\ backup' = [backup EXCEPT ![at] = "none"]
     \/ /\ Fails
        /\ UNCHANGED <<path, backup>>
  /\ phase' = "drop"
  /\ UNCHANGED <<inputs, temp, cursors, edits>>

DropTemp ==
  /\ phase = "drop"
  /\ \/ Goes /\ temp' = [temp EXCEPT ![at] = "none"]
     \/ Fails /\ UNCHANGED temp
  /\ RollBack(at + 1)
  /\ UNCHANGED <<inputs, path, backup, at, ok, edits>>

(* rollback_formats, last file first: remove the formatted file and rename   *)
(* the backup over it; a failure is reported and the loop goes on.          *)
RollbackRemove ==
  /\ phase = "rollback"
  /\ todo # {}
  /\ \/ /\ Goes
        /\ path' = [path EXCEPT ![Last(todo)] = "none"]
        /\ phase' = "rename"
        /\ UNCHANGED todo
     \/ /\ Fails
        /\ todo' = todo \ {Last(todo)}
        /\ UNCHANGED <<path, phase>>
  /\ UNCHANGED <<inputs, temp, backup, at, rest, ok, edits>>

RollbackRename ==
  /\ phase = "rename"
  /\ \/ /\ Goes
        /\ path' = [path EXCEPT ![Last(todo)] = backup[Last(todo)]]
        /\ backup' = [backup EXCEPT ![Last(todo)] = "none"]
     \/ /\ Fails
        /\ UNCHANGED <<path, backup>>
  /\ todo' = todo \ {Last(todo)}
  /\ phase' = "rollback"
  /\ UNCHANGED <<inputs, temp, at, rest, ok, edits>>

(* cleanup_staged_formats.                                                 *)
CleanUp ==
  /\ phase = "rollback"
  /\ todo = {}
  /\ phase' = "unstage"
  /\ todo' = rest
  /\ UNCHANGED <<inputs, disk, at, rest, ok, faults, edits>>

(* Every file is in place: the backups go, and one that stays fails the run. *)
CommitOver ==
  /\ phase = "commit"
  /\ at \notin Files
  /\ phase' = "unlink"
  /\ todo' = changed
  /\ UNCHANGED <<inputs, disk, at, rest, ok, faults, edits>>

UnlinkReportsNothing ==         \* mutant: a backup that stays is not reported
  /\ phase = "unlink"
  /\ todo # {}
  /\ \/ Goes /\ backup' = [backup EXCEPT ![First(todo)] = "none"]
     \/ Fails /\ UNCHANGED backup
  /\ todo' = todo \ {First(todo)}
  /\ UNCHANGED <<inputs, path, temp, phase, at, rest, ok, edits>>

UnlinkBackup ==
  /\ phase = "unlink"
  /\ todo # {}
  /\ \/ Goes /\ backup' = [backup EXCEPT ![First(todo)] = "none"] /\ UNCHANGED ok
     \/ Fails /\ ok' = FALSE /\ UNCHANGED backup
  /\ todo' = todo \ {First(todo)}
  /\ UNCHANGED <<inputs, path, temp, phase, at, rest, edits>>

End ==
  /\ phase \in {"unstage", "unlink"}
  /\ todo = {}
  /\ phase' = IF phase = "unlink" /\ ok THEN "success" ELSE "failure"
  /\ UNCHANGED <<inputs, disk, cursors, faults, edits>>

----------------------------------------------------------------------------
(* The environment.                                                        *)

Kill ==
  /\ ~Ended
  /\ phase' = "killed"
  /\ UNCHANGED <<inputs, disk, cursors, faults, edits>>

Save(f) ==
  /\ ~Ended
  /\ edits < MaxEdits
  /\ path' = [path EXCEPT ![f] = "edited"]
  /\ edits' = edits + 1
  /\ UNCHANGED <<inputs, temp, backup, phase, cursors, faults>>

Stopped == Ended /\ UNCHANGED vars

Staging == \/ StageSkip \/ StageProbe \/ StageCreate \/ StageWrite \/ StageDiscard
           \/ Unstage \/ StagingOver
Commit == \/ CommitSkip \/ MoveAway \/ Install \/ Restore \/ DropTemp
          \/ RollbackRemove \/ RollbackRename \/ CleanUp
          \/ CommitOver \/ UnlinkBackup \/ End
Next == Staging \/ Commit \/ Kill \/ Stopped \/ \E f \in Files : Save(f)

Spec == Init /\ [][Next]_vars

----------------------------------------------------------------------------
(* Every variable has its type.                                            *)
TypeOK ==
  /\ changed \in SUBSET Files /\ symlink \in SUBSET Files
  /\ path \in [Files -> Texts]
  /\ temp \in [Files -> {"none", "partial", "formatted", "foreign"}]
  /\ backup \in [Files -> Texts \cup {"foreign"}]
  /\ phase \in {"stage", "create", "write", "discard", "unstage", "commit", "install",
                "restore", "drop", "rollback", "rename", "unlink",
                "success", "failure", "killed"}
  /\ at \in 1 .. N + 1
  /\ todo \in SUBSET Files /\ rest \in SUBSET Files
  /\ ok \in BOOLEAN
  /\ faults \in 0 .. MaxFaults
  /\ edits \in 0 .. MaxEdits

(* All files have been swapped in; what is left to do is to drop backups.     *)
Committed == \A f \in changed : path[f] \in {"formatted", "edited"}

(* Whatever fails, and whenever the process is killed, a file's text is not   *)
(* lost: what it held is at its own name or in its backup, unless every       *)
(* file of the program has been rewritten.                                  *)
NeverLost ==
  edits = 0 => \/ \A f \in Files : path[f] = "original" \/ backup[f] = "original"
               \/ Committed

(* The files a run has touched and not put back: not under their old text,    *)
(* or with a backup of this run beside them.                                *)
Unrestored == {f \in Files : ~ (path[f] = "original" /\ backup[f] \in {"none", "foreign"})}

(* A run is all or nothing up to what fails while it is undone: every file    *)
(* has its new text, or every file is as it was found, or the files that are   *)
(* not are fewer than the calls that failed.  So a run that meets one failing  *)
(* call, anywhere, is all or nothing, and each further failing call spoils     *)
(* one file at most.                                                        *)
AllOrNothing ==
  (phase \in {"success", "failure"} /\ edits = 0) =>
     Committed \/ Unrestored = {} \/ Cardinality(Unrestored) < faults

(* A run that ends leaves at most one temporary or backup of its own per      *)
(* failed system call: every error path cleans up all it can.               *)
Leftovers == Cardinality({f \in Files : temp[f] \in {"partial", "formatted"}})
             + Cardinality({f \in Files : backup[f] \in Texts \ {"none"}})
LitterBounded == phase \in {"success", "failure"} => Leftovers <= faults

(* Exit code 0 is earned: every file has its new text (or a later save) and    *)
(* neither temporaries nor backups of this run are left, however many calls    *)
(* failed on the way.                                                       *)
SuccessIsComplete ==
  phase = "success" =>
     /\ Committed
     /\ \A f \in changed : backup[f] = "none" /\ temp[f] = "none"
=============================================================================
