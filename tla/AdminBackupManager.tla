-------------------------- MODULE AdminBackupManager --------------------------
(* The backup page (components/admin/AdminBackupManager.tsx): the backup files   *)
(* of each kind, a file selected for the restore of each kind, the form of the    *)
(* schedule, and actions that make, delete, upload and restore backups. One flag   *)
(* (`running`) disables the buttons of all of them, but neither the selection nor   *)
(* the loads that are under way; a progress bar is hidden by a timer.              *)
EXTENDS Page, FiniteSetsExt

CONSTANTS
    Kinds,          \* of backups: db, objects, config
    MaxFile,        \* files of a kind that can be made, numbered in their order
    Plans           \* what the schedule form can say

BackupFilesDb(n) ==
    [files |-> [k \in Kinds |-> 1 .. n], made |-> [k \in Kinds |-> n],
     plan |-> CHOOSE p \in Plans : TRUE]

\* The list of a kind is ordered by time: its first file is the newest one.
Newest(S) == IF S = {} THEN None ELSE Max(S)

\* Actions that show the progress bar, and all that take the flag.
ProgressOps == {"run", "runAll", "runNow", "restore", "upload"}
BackupOps == ProgressOps \cup {"deleteFile", "deleteAll"}

\* All lists can be loaded at once.
ASSUME BackupsAssumption ==
    /\ IsFiniteSet(Kinds) /\ Cardinality(Kinds) < MaxCalls
    /\ None \notin Nat \cup BackupOps

BackupFound(op, arg) ==
    op \in {"deleteFile", "restore"} => arg.file \in db.files[arg.kind]

BackupBody(op, arg) ==
    CASE op = "files" -> db.files[arg.kind]
      [] op = "plan" -> db.plan
      [] op = "savePlan" -> arg
      [] op = "upload" -> db.made[arg.kind] + 1
      [] OTHER -> None

BackupAfter(op, arg) ==
    CASE op \in {"run", "upload"} ->
           [db EXCEPT !.files[arg.kind] = @ \cup {db.made[arg.kind] + 1},
                      !.made[arg.kind] = @ + 1]
      [] op \in {"runAll", "runNow"} ->
           [db EXCEPT !.files = [k \in Kinds |-> @[k] \cup {db.made[k] + 1}],
                      !.made = [k \in Kinds |-> @[k] + 1]]
      [] op = "deleteFile" -> [db EXCEPT !.files[arg.kind] = @ \ {arg.file}]
      [] op = "deleteAll" -> [db EXCEPT !.files = [k \in Kinds |-> {}]]
      [] op = "savePlan" -> [db EXCEPT !.plan = arg]
      [] OTHER -> db

-----------------------------------------------------------------------------
\* loadKind and refreshAll. of: the action that awaits the load, or None.
LoadKind(n, k, of) == Send(n, "files", [kind |-> k, of |-> of])
RefreshAll(n, of) == FoldSet(LAMBDA k, m : LoadKind(m, k, of), Send(n, "plan", of), Kinds)
RefreshSize == Cardinality(Kinds) + 1

MountBackups(files) ==
    /\ db = BackupFilesDb(files)
    /\ net = RefreshAll(NoCalls, None)
    /\ ui = [page |-> "backups", files |-> [k \in Kinds |-> {}],
             file |-> [k \in Kinds |-> None], choice |-> [k \in Kinds |-> None],
             plan |-> CHOOSE p \in Plans : TRUE, planLoading |-> TRUE, planSaving |-> FALSE,
             running |-> None, progress |-> "none", hide |-> FALSE]

\* The effects on the lists: where no file is selected the first one is.
Defaulted(u) ==
    [u EXCEPT !.file = [k \in Kinds |-> IF @[k] = None THEN Newest(u.files[k]) ELSE @[k]]]

OnBackups(n) == ui.page = "backups" /\ Acts(n)

\* Fault: the timer that hides the bar of the last action is left running.
BeginProgress_KeepTimer(u) == [u EXCEPT !.progress = "going"]

\* The bar appears; the timers of the bar before it are cleared.
BeginProgress(u) == [u EXCEPT !.progress = "going", !.hide = FALSE]

\* The bar says how it ended and is hidden a while later.
FinishProgress(u, ok) ==
    IF u.progress = "none" THEN [u EXCEPT !.hide = TRUE]
    ELSE [u EXCEPT !.progress = IF ok THEN "done" ELSE "failed", !.hide = TRUE]

\* An action ends: deletions have no bar.
EndAction(u, op, ok) ==
    [(IF op \in ProgressOps THEN FinishProgress(u, ok) ELSE u) EXCEPT !.running = None]

-----------------------------------------------------------------------------
(* The user *)

\* An action is started: the other buttons are disabled until it ends.
StartAction(op, arg) ==
    /\ ui.running = None
    /\ net' = Send(net, op, arg)
    /\ LET u == [ui EXCEPT !.running = op] IN
       ui' = IF op \in ProgressOps THEN BeginProgress(u) ELSE u
    /\ left' = Spent /\ UNCHANGED db

RunBackup(k) == OnBackups(1) /\ db.made[k] < MaxFile /\ StartAction("run", [kind |-> k])

RunAll(op) ==
    /\ OnBackups(RefreshSize) /\ op \in {"runAll", "runNow"}
    /\ \A k \in Kinds : db.made[k] < MaxFile
    /\ op = "runNow" => ~ui.planSaving /\ ~ui.planLoading
    /\ StartAction(op, None)

RefreshBackups ==
    /\ OnBackups(RefreshSize) /\ ui.running = None
    /\ net' = RefreshAll(net, None)
    /\ ui' = [ui EXCEPT !.planLoading = TRUE]
    /\ left' = Spent /\ UNCHANGED db

\* The selection for the restore: no action disables it.
ChooseFile(k, f) ==
    /\ OnBackups(0) /\ f \in ui.files[k] /\ f # ui.file[k]
    /\ ui' = [ui EXCEPT !.file[k] = f, !.choice[k] = f]
    /\ left' = Spent /\ UNCHANGED <<net, db>>

\* The handler remembers which file was selected when it was clicked.
DeleteFile(k, f) ==
    /\ OnBackups(1) /\ f \in ui.files[k]
    /\ StartAction("deleteFile", [kind |-> k, file |-> f, selected |-> ui.file[k]])

DeleteAll == OnBackups(RefreshSize) /\ StartAction("deleteAll", None)

RestoreFile(k) ==
    /\ OnBackups(1) /\ ui.file[k] # None
    /\ StartAction("restore", [kind |-> k, file |-> ui.file[k]])

\* A local file is uploaded and restored in one request.
UploadFile(k) == OnBackups(1) /\ db.made[k] < MaxFile /\ StartAction("upload", [kind |-> k])

EditPlan(p) ==
    /\ OnBackups(0) /\ p # ui.plan
    /\ ui' = [ui EXCEPT !.plan = p]
    /\ left' = Spent /\ UNCHANGED <<net, db>>

\* The schedule is saved beside the other actions, but not while one of them runs.
SavePlan ==
    /\ OnBackups(1) /\ ui.running = None /\ ~ui.planSaving /\ ~ui.planLoading
    /\ net' = Send(net, "savePlan", ui.plan)
    /\ ui' = [ui EXCEPT !.planSaving = TRUE]
    /\ left' = Spent /\ UNCHANGED db

-----------------------------------------------------------------------------
(* What comes back *)

\* Promise.all: the action ends with the last of its loads, or with the first that
\* fails, and the others go on for themselves.
Awaited(n) == \E i \in Slots : \/ n[i].op = "files" /\ n[i].arg.of # None
                               \/ n[i].op = "plan" /\ n[i].arg # None
Unawaited(n) ==
    [i \in Slots |-> IF n[i].op = "files" THEN [n[i] EXCEPT !.arg.of = None]
                     ELSE IF n[i].op = "plan" THEN [n[i] EXCEPT !.arg = None] ELSE n[i]]

\* Load i, which the action of awaits, has come back; u is the page with its answer.
Loaded(i, u, of) ==
    LET ok == net[i].out.ok
        n == Settle(net, i)
        ends == of # None /\ (~ok \/ ~Awaited(n))
    IN  /\ net' = IF of # None /\ ~ok THEN Unawaited(n) ELSE n
        /\ ui' = Defaulted(IF ends THEN EndAction(u, of.op, ok) ELSE u)
        /\ UNCHANGED <<db, left>>

\* Fault: the selection is cleared whichever file was deleted.
Deselected_Always(u, of) == [u EXCEPT !.file[of.arg.kind] = None]

\* The deleted file is selected no more; which one was, the click remembers.
Deselected(u, of) ==
    IF of.arg.file = of.arg.selected THEN [u EXCEPT !.file[of.arg.kind] = None] ELSE u

OnFileList(i) ==
    /\ Back(i, "files")
    /\ LET k == net[i].arg.kind
           of == net[i].arg.of
           ok == net[i].out.ok
           u == IF ok THEN [ui EXCEPT !.files[k] = net[i].out.body] ELSE ui
       IN  Loaded(i, IF ok /\ of # None /\ of.op = "deleteFile" THEN Deselected(u, of) ELSE u, of)

\* What the form holds is replaced by what the server has.
OnPlan(i) ==
    /\ Back(i, "plan")
    /\ LET u == [ui EXCEPT !.planLoading = FALSE,
                           !.plan = IF net[i].out.ok THEN net[i].out.body ELSE @]
       IN  Loaded(i, u, net[i].arg)

OnPlanSaved(i) ==
    /\ Back(i, "savePlan")
    /\ net' = Settle(net, i)
    /\ ui' = [ui EXCEPT !.planSaving = FALSE,
                        !.plan = IF net[i].out.ok THEN net[i].out.body ELSE @]
    /\ UNCHANGED <<db, left>>

\* A backup made or a file deleted: its list is loaded, as part of the action. An
\* uploaded file is selected for the restore.
OnFileChanged(i) ==
    /\ Good(i, "run") \/ Good(i, "upload") \/ Good(i, "deleteFile")
    /\ LET k == net[i].arg.kind
           f == net[i].out.body
       IN  /\ net' = LoadKind(Settle(net, i), k, [op |-> net[i].op, arg |-> net[i].arg])
           /\ ui' = IF net[i].op = "upload"
                    THEN [ui EXCEPT !.file[k] = f, !.choice[k] = f] ELSE ui
    /\ UNCHANGED <<db, left>>

\* All lists and the schedule are loaded.
OnAllChanged(i) ==
    /\ Good(i, "runAll") \/ Good(i, "runNow") \/ Good(i, "deleteAll")
    /\ HasRoom(Settle(net, i), RefreshSize)
    /\ net' = RefreshAll(Settle(net, i), [op |-> net[i].op, arg |-> net[i].arg])
    /\ ui' = [ui EXCEPT !.planLoading = TRUE]
    /\ UNCHANGED <<db, left>>

\* A restore is done, or an action is refused.
OnBackupEnds(i) ==
    /\ Good(i, "restore") \/ \E op \in BackupOps : Bad(i, op)
    /\ net' = Settle(net, i)
    /\ ui' = EndAction(ui, net[i].op, net[i].out.ok)
    /\ UNCHANGED <<db, left>>

\* The timer that hides the bar fires.
HideProgress ==
    /\ ui.page = "backups" /\ ui.hide
    /\ ui' = [ui EXCEPT !.progress = "none", !.hide = FALSE]
    /\ UNCHANGED <<net, db, left>>

-----------------------------------------------------------------------------
BackupsUser ==
    \/ \E k \in Kinds : RunBackup(k) \/ RestoreFile(k) \/ UploadFile(k)
    \/ \E k \in Kinds, f \in 1 .. MaxFile : ChooseFile(k, f) \/ DeleteFile(k, f)
    \/ \E op \in {"runAll", "runNow"} : RunAll(op)
    \/ RefreshBackups \/ DeleteAll \/ SavePlan
    \/ \E p \in Plans : EditPlan(p)

BackupsAnswered(i) ==
    \/ OnFileList(i) \/ OnPlan(i) \/ OnPlanSaved(i) \/ OnFileChanged(i) \/ OnAllChanged(i)
    \/ OnBackupEnds(i)

BackupServed(i) ==
    LET op == net[i].op
        arg == net[i].arg
    IN  Serve(i, BackupFound(op, arg), BackupBody(op, arg), BackupAfter(op, arg))

BackupsNext ==
    /\ ui.page = "backups"
    /\ \/ BackupsUser
       \/ HideProgress
       \/ \E i \in Slots :
             BackupServed(i) \/ Refuse(i) \/ BackupsAnswered(i)

-----------------------------------------------------------------------------
(* Properties *)

\* A restore is of the file the user chose. For a user who waits, what he has
\* selected, or uploaded, stays selected as long as the list has it, whatever is
\* made, deleted, refused or loaded meanwhile. (One who selects another file while
\* the selected one is being deleted loses his choice to the newest file.) And an
\* action that overwrites data shows that it is under way: its progress bar stays
\* until it has ended, whichever timer of an earlier one is still to fire.
RestoresTheChosen ==
    ui.page = "backups" =>
        /\ left.patient =>
             \A k \in Kinds : ui.choice[k] \in ui.files[k] => ui.file[k] = ui.choice[k]
        /\ ui.running \in ProgressOps => ui.progress = "going"
=============================================================================
