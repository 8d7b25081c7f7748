------------------------------ MODULE Backups ------------------------------
(***************************************************************************)
(* Backups of the database, the stored objects and the configuration: one  *)
(* kind after the other in run-all, with its consistency marker, and in    *)
(* the full backup that is copied to an export directory; beside them      *)
(* uploads and removals of attachments, and deletions of backup files.     *)
(*                                                                         *)
(* An attachment is uploaded object first, then row; it is removed object  *)
(* first, then row: each is one transaction whose commit comes second.     *)
(*   rows      committed rows of attachments that are stored               *)
(*   objects   what the object storage holds                               *)
(*   changes   committed changes so far                                    *)
(*   adding    attachments whose object is stored and row is to commit     *)
(*   removing  attachments whose object is gone and row is to commit       *)
(*   dir       the backup files: who made them, their kind, their data     *)
(*   tmp       backup files under their temporary name                     *)
(*   job       what each backup is doing                                   *)
(*   exports   finished export directories: sets of backup files           *)
(*   setting   what goes on beside the backups, and what still may         *)
(***************************************************************************)
EXTENDS Naturals, FiniteSets

CONSTANTS
    Files,
    FirstFiles,     \* attachments stored at the start
    Jobs,           \* backup requests and tasks; each runs once
    Settings        \* modes: the backups there are, "all", "full"; removable:
                    \* attachments that may be removed; brief: no backup step
                    \* falls between a removal's two halves; deletions: backup
                    \* files are deleted; bounds on jobs, uploads, failing steps

ASSUME FilesAssumption == FirstFiles \subseteq Files
Setting == [modes: SUBSET {"all", "full"}, removable: SUBSET Files,
            brief: BOOLEAN, deletions: BOOLEAN,
            jobs: Nat, uploads: Nat, fails: Nat]
ASSUME SettingsAssumption == Settings \subseteq Setting

Kinds == {"db", "objects", "config"}
After(kind) == CASE kind = "db" -> "objects" [] kind = "objects" -> "config"
                 [] kind = "config" -> "end"

VARIABLES
    rows, objects, changes, adding, removing, dir, tmp, job, exports, setting

store == <<rows, objects, changes, adding, removing>>
backupVars == <<store, dir, tmp, job, exports, setting>>

Waiting == [mode |-> "none", pc |-> "waiting", marker |-> 0, todo |-> {},
            got |-> {}, kept |-> {}, staged |-> {}, stuck |-> {}]

BackupsInit ==
    /\ rows = FirstFiles /\ objects = FirstFiles
    /\ changes = 0
    /\ adding = {} /\ removing = {}
    /\ dir = {} /\ tmp = {}
    /\ job = [j \in Jobs |-> Waiting]
    /\ exports = {}
    /\ setting \in Settings

\* One of the events of a kind that the setting allows.
Spend(kind) ==
    /\ setting[kind] > 0
    /\ setting' = [setting EXCEPT ![kind] = @ - 1]

-----------------------------------------------------------------------------
(* Attachments come and go.                                                *)

Put(f) ==
    /\ f \notin objects \cup rows \cup adding \cup removing \cup FirstFiles
    /\ Spend("uploads")
    /\ objects' = objects \cup {f} /\ adding' = adding \cup {f}
    /\ UNCHANGED <<rows, changes, removing, dir, tmp, job, exports>>

\* A row inserted with its object moves the marker; a pending row that its
\* finalizer marks as stored changes neither a count nor an updated_at.
CommitPut(f) ==
    /\ f \in adding
    /\ rows' = rows \cup {f} /\ adding' = adding \ {f}
    /\ changes' \in {changes, changes + 1}
    /\ UNCHANGED <<objects, removing, dir, tmp, job, exports, setting>>

Remove(f) ==
    /\ f \in (rows \cap setting.removable) \ removing
    /\ objects' = objects \ {f} /\ removing' = removing \cup {f}
    /\ UNCHANGED <<rows, changes, adding, dir, tmp, job, exports, setting>>

CommitRemove(f) ==
    /\ f \in removing
    /\ rows' = rows \ {f} /\ removing' = removing \ {f}
    /\ changes' = changes + 1
    /\ UNCHANGED <<objects, adding, dir, tmp, job, exports, setting>>

-----------------------------------------------------------------------------
(* Backup steps.                                                           *)

At(j, pc) == job[j].pc = pc /\ (setting.brief => removing = {})

\* Fault: a marker that only counts rows.
Marker_CountsOnly == Cardinality(rows)

\* Counts and newest updated_at of the tables: every commit moves one of them.
Marker == changes

BackupFile(j, kind, data) == [job |-> j, kind |-> kind, data |-> data]
Set(j, r) == job' = [job EXCEPT ![j] = r]

\* The order in which the full backup and run-all make the kinds.
Begin(j, mode) ==
    /\ At(j, "waiting") /\ mode \in setting.modes
    /\ Spend("jobs")
    /\ Set(j, [Waiting EXCEPT !.mode = mode, !.pc = "db", !.marker = Marker])
    /\ UNCHANGED <<store, dir, tmp, exports>>

\* The temporary file of a kind is opened, and the data are taken into it.
Open(j, kind) ==
    /\ At(j, kind) /\ [job |-> j, kind |-> kind] \notin tmp
    /\ tmp' = tmp \cup {[job |-> j, kind |-> kind]}
    /\ Set(j, [job[j] EXCEPT !.got = IF kind = "db" THEN rows ELSE {},
                             !.todo = IF kind = "objects" THEN objects ELSE {}])
    /\ UNCHANGED <<store, dir, exports, setting>>

Opened(j, kind) == At(j, kind) /\ [job |-> j, kind |-> kind] \in tmp

\* The objects listed are read one after the other; a missing one raises.
ReadObject(j, f) ==
    /\ Opened(j, "objects") /\ f \in job[j].todo
    /\ f \in objects
    /\ Set(j, [job[j] EXCEPT !.todo = @ \ {f}, !.got = @ \cup {f}])
    /\ UNCHANGED <<store, dir, tmp, exports, setting>>

\* An object that went before the listing came to it is not in the archive.
Unlisted(j, f) ==
    /\ Opened(j, "objects") /\ f \in job[j].todo \ objects
    /\ Set(j, [job[j] EXCEPT !.todo = @ \ {f}])
    /\ UNCHANGED <<store, dir, tmp, exports, setting>>

\* Run-all compares the marker after each kind, the full backup goes on.
AfterClose(j, kind) ==
    IF job[j].mode = "all" THEN "compare"
    ELSE IF After(kind) = "end" THEN "copy" ELSE After(kind)

\* Rename, checksum and meta file.
Close(j, kind) ==
    LET file == BackupFile(j, kind, job[j].got) IN
    /\ Opened(j, kind) /\ job[j].todo = {}
    /\ dir' = dir \cup {file}
    /\ tmp' = tmp \ {[job |-> j, kind |-> kind]}
    /\ Set(j, [job[j] EXCEPT !.kept = @ \cup {file}, !.got = {},
                             !.pc = AfterClose(j, kind)])
    /\ UNCHANGED <<store, exports, setting>>

\* What run-all has made so far decides which kind comes next.
Made(j) == {file.kind : file \in job[j].kept}
NextKind(j) == IF "objects" \notin Made(j) THEN "objects"
            ELSE IF "config" \notin Made(j) THEN "config" ELSE "ok"

\* 409: the database has changed; the files made so far are to be deleted.
Refused(j) ==
    /\ At(j, "compare") /\ Marker # job[j].marker
    /\ Set(j, [job[j] EXCEPT !.pc = "refusing"])
    /\ UNCHANGED <<store, dir, tmp, exports, setting>>

Agrees(j) ==
    /\ At(j, "compare") /\ Marker = job[j].marker
    /\ Set(j, [job[j] EXCEPT !.pc = NextKind(j)])
    /\ UNCHANGED <<store, dir, tmp, exports, setting>>

\* The files are copied in the order in which they were made.
CopyTurn(j, kind) ==
    LET staged == {file.kind : file \in job[j].staged}
    IN  /\ At(j, "copy") /\ kind \in Kinds \ staged
        /\ \A k \in Kinds : After(k) = kind => k \in staged

\* Fault: a file that has gone is left out of the copy.
Copy_SkipsMissing(j, kind) ==
    /\ CopyTurn(j, kind)
    /\ Set(j, [job[j] EXCEPT !.staged = @ \cup
                 {file \in job[j].kept : file.kind = kind /\ file \in dir},
               !.pc = IF kind = "config" THEN "publish" ELSE @])
    /\ UNCHANGED <<store, dir, tmp, exports, setting>>

\* The full backup copies its files into the staging directory.
Copy(j, kind) ==
    /\ CopyTurn(j, kind)
    /\ \E file \in dir \cap job[j].kept :
         /\ file.kind = kind
         /\ Set(j, [job[j] EXCEPT !.staged = @ \cup {file},
                 !.pc = IF kind = "config" THEN "publish" ELSE @])
    /\ UNCHANGED <<store, dir, tmp, exports, setting>>

\* Manifest and rename.
Publish(j) ==
    /\ At(j, "publish")
    /\ exports' = exports \cup {job[j].staged}
    /\ Set(j, [job[j] EXCEPT !.pc = "ok", !.staged = {}])
    /\ UNCHANGED <<store, dir, tmp, setting>>

\* A step raises: the missing object or backup file, or anything else.  The
\* temporary file stays; run-all deletes what it finished, the full backup its
\* staging directory.
Raises(j) ==
    /\ \/ \E f \in job[j].todo : f \notin objects /\ UNCHANGED setting
       \/ /\ job[j].pc = "copy"
          /\ ~((job[j].kept \ job[j].staged) \subseteq dir)
          /\ UNCHANGED setting
       \/ Spend("fails")
    /\ \E pc \in Kinds \cup {"compare", "copy", "publish"} : At(j, pc)
    /\ Set(j, [job[j] EXCEPT !.pc = IF job[j].mode = "all" THEN "failing" ELSE "failed",
                             !.staged = {}])
    /\ UNCHANGED <<store, dir, tmp, exports>>

-----------------------------------------------------------------------------
(* The clean-up of a run-all, _safe_cleanup_artifacts: the files it has    *)
(* made are deleted one after the other, in the order in which they were   *)
(* made, and what an attempt raises is ignored. kept: those still to go.   *)

CleansUp == {"refusing", "failing"}
CleanUpTurn(j, file) ==
    /\ \E pc \in CleansUp : At(j, pc)
    /\ file \in job[j].kept
    /\ \A other \in job[j].kept : After(other.kind) # file.kind

\* Fault: an attempt that raises ends the clean-up: the try is around the loop.
Removes_StopsAtMissing(j, file) ==
    /\ CleanUpTurn(j, file)
    /\ dir' = dir \ {file}
    /\ Set(j, [job[j] EXCEPT !.kept = IF file \in dir THEN @ \ {file} ELSE {}])
    /\ UNCHANGED <<store, tmp, exports, setting>>

\* The file is deleted, or somebody else has deleted it before, which raises.
Removes(j, file) ==
    /\ CleanUpTurn(j, file)
    /\ dir' = dir \ {file}
    /\ Set(j, [job[j] EXCEPT !.kept = @ \ {file}])
    /\ UNCHANGED <<store, tmp, exports, setting>>

\* The file cannot be deleted: it stays, and the clean-up goes on.
CannotRemove(j, file) ==
    /\ CleanUpTurn(j, file) /\ file \in dir
    /\ Spend("fails")
    /\ Set(j, [job[j] EXCEPT !.kept = @ \ {file}, !.stuck = @ \cup {file}])
    /\ UNCHANGED <<store, dir, tmp, exports>>

\* The 409 or the 500 is raised whatever the clean-up has met.
CleanedUp(j) ==
    /\ \E pc \in CleansUp : At(j, pc)
    /\ job[j].kept = {}
    /\ Set(j, [job[j] EXCEPT !.pc = IF @ = "refusing" THEN "refused" ELSE "failed"])
    /\ UNCHANGED <<store, dir, tmp, exports, setting>>

-----------------------------------------------------------------------------
\* The process dies; nothing is cleaned up, or no more.
Dies(j) ==
    /\ job[j].pc \in Kinds \cup {"compare", "copy", "publish"} \cup CleansUp
    /\ Spend("fails")
    /\ Set(j, [job[j] EXCEPT !.pc = "dead"])
    /\ UNCHANGED <<store, dir, tmp, exports>>

\* An administrator, delete-all or another backup's retention deletes a file.
DeleteFile(file) ==
    /\ setting.deletions /\ file \in dir
    /\ dir' = dir \ {file}
    /\ UNCHANGED <<store, tmp, job, exports, setting>>

-----------------------------------------------------------------------------
BackupsNext ==
    \/ \E f \in Files : Put(f) \/ CommitPut(f) \/ Remove(f) \/ CommitRemove(f)
    \/ \E j \in Jobs :
         \/ \E mode \in {"all", "full"} : Begin(j, mode)
         \/ \E kind \in Kinds : Open(j, kind) \/ Close(j, kind) \/ Copy(j, kind)
         \/ \E f \in Files : ReadObject(j, f) \/ Unlisted(j, f)
         \/ Refused(j) \/ Agrees(j) \/ Publish(j) \/ Raises(j) \/ Dies(j)
         \/ \E file \in job[j].kept : Removes(j, file) \/ CannotRemove(j, file)
         \/ CleanedUp(j)
    \/ \E file \in dir : DeleteFile(file)

BackupsSpec == BackupsInit /\ [][BackupsNext]_backupVars

-----------------------------------------------------------------------------
(* Properties.                                                             *)

BackupsTypeOK ==
    /\ rows \subseteq Files /\ objects \subseteq Files /\ changes \in Nat
    /\ adding \subseteq Files /\ removing \subseteq Files
    /\ dir \cup UNION {job[j].kept \cup job[j].staged \cup job[j].stuck : j \in Jobs} \subseteq
         [job : Jobs, kind : Kinds, data : SUBSET Files]
    /\ setting \in Setting
    /\ tmp \subseteq [job : Jobs, kind : Kinds]
    /\ \A file \in dir : [job |-> file.job, kind |-> file.kind] \notin tmp
    /\ \A j \in Jobs : job[j].todo \cup job[j].got \subseteq Files

\* Every attachment that a dump of the set names is in its archive.
Restorable(files) ==
    \A d, o \in files :
        d.kind = "db" /\ o.kind = "objects" => d.data \subseteq o.data

\* A run-all that answers 200 has made a database and an objects backup that
\* can be restored together ('fails on a violation of the consistency window'),
\* with removals that are quick enough to fall between two steps. An export
\* directory never appears before it holds one file of each kind, made by the
\* same run, whatever is deleted from the backup directory; and with attachments
\* only added its files can be restored together, because the dump is taken
\* before the objects.
SetsRestorable ==
    /\ setting.brief =>
         \A j \in Jobs :
             job[j].mode = "all" /\ job[j].pc = "ok" => Restorable(job[j].kept)
    /\ \A files \in exports :
         /\ {file.kind : file \in files} = Kinds
         /\ Cardinality({file.job : file \in files}) = 1
         /\ setting.removable = {} => Restorable(files)

\* A run-all that answers 409 because the database changed, or 500 because a step
\* raised, leaves none of its files but those whose deletion was tried and failed:
\* not one that came after a file that could not be deleted, or that an
\* administrator had deleted meanwhile.
RefusedLeavesNothing ==
    \A j \in Jobs :
        job[j].mode = "all" /\ job[j].pc \in {"refused", "failed"} =>
            \A file \in dir : file.job = j => file \in job[j].stuck
=============================================================================
