# ClipToDocArchive: TLA+ models, model checking and proofs

ClipToDocArchive takes captioned files, turns each into a document with
attachments, classifies it by rules, and lets people search, review and edit the
archive. The server is FastAPI and Celery over PostgreSQL, an object store
(MinIO or a directory) and, optionally, a Meilisearch index; the web frontend is a
set of React pages. This directory holds TLA+ models of the parts of both whose
correctness depends on the order of events, the TLC configurations that check
them, and TLAPS proofs about every component that is modelled. Paths below are
relative to the repository root; `app/` stands for `backend/app/`.

    tlc -workers 2 -config IngestWorkers.cfg MCIngestPipeline
    tlapm DocumentEditsProofs.tla

## 1. Inventory

### The parts and what each keeps

| Part | State | Operations | Module |
|---|---|---|---|
| Ingest pipeline (`app/services/ingest_service.py`, `app/worker/tasks_ingest.py`, `app/api/v1/routes_ingest.py`) | `ingest_jobs`, `files`, `documents`, `tags`, the ingest queue, temp files, objects | accept an upload, publish, take, one step per commit of `process_ingest_job`, fail, retry, dead-letter | `IngestPipeline` |
| Operator actions on jobs (`routes_admin_logs.py`, `scripts/reprocess_job.py`) | the same rows | requeue, recover-upload, reprocess | `IngestPipeline` |
| Attachment store (`routes_documents.py`, `storage_*.py`) | `files`, `document_files`, objects, upload temp files | add, replace, detach, delete, deferred upload, orphan clean-up | `FileStore` |
| Search index (`search_sync_service.py`, `tasks_search.py`, `meili_service.py`) | the index, the search queue | enqueue after commit, upsert, batch, delete, rebuild | `SearchSync` |
| Edits, review, reclassification (`routes_documents.py`, `routes_review_queue.py`, `backfill_service.py`, `taxonomy_service.py`) | `documents`, `document_versions`, `document_tags`, `categories`, `tags` | patch, review, rules backfill, delete | `DocumentEdits` |
| Accounts (`routes_auth.py`, `core/auth.py`) | `users` | login, change password, update, delete | `Accounts` |
| Backup schedule (`tasks_backup.py`, `celery_app.py`) | the settings row, checks in the queue | check, run, save settings, run now | `BackupSchedule` |
| Rule versions (`routes_rules.py`) | `rulesets`, `rule_versions` | create, update, import, activate, look-up by the pipeline | `RuleVersions` |
| Backups (`backup_service.py`, `routes_admin_backup.py`) | backup files, temporary files, export directories | run-all, full export, deletion | `Backups` |
| Restore (`backup_service.py`, `routes_admin_backup.py`) | databases, bucket, staging prefixes | restore a dump, promote, restore objects | `Restore` |
| API client of the frontend (`frontend/lib/api-client.ts`) | the fetches a page has under way | send, answer, refuse, lose an answer, cancel | `Client`, `Page` |
| Archive page (`frontend/components/archive/ArchiveWorkspace.tsx`) | list, selection, modal, history, snapshot, chosen rows | filter, page, select, open, edit, save, files, resolve, delete, bulk actions, keys | `ArchiveWorkspace` |
| Dashboard tasks (`DashboardSummary.tsx`) | calendar, list, task form, settings and holiday forms | turn the month, make or change a task, link it to a document and a file or unlink it, put the settings or the holidays | `DashboardSummary` |
| Rules page (`RulesWorkspace.tsx`) | rulesets, versions, editor as form and JSON | select, edit, create, activate, examine | `RulesWorkspace` |
| Mind map (`MindMapWorkspace.tsx`, `app/api/v1/routes_mindmap.py`) | selected category and tag, page, node limits, the tree | click, search, turn the page, change the options | `MindMapWorkspace` |
| Backup page (`AdminBackupManager.tsx`) | files of each kind, file selected for each restore, schedule form, progress | run, delete, upload, restore, save the schedule | `AdminBackupManager` |
| Document page (`app/(main)/documents/[id]/page.tsx`, `DocumentCommentsPanel.tsx`) | document, editor, difference, snapshot, comments | edit, save, add files, delete, compare, comment | `DocumentPage` |
| Media gallery (`MediaWorkspace.tsx`) | cards, scan position, upload form, window of a post | load more, upload with roll-back, open, change, delete | `MediaWorkspace` |
| Manual posts (`ManualPostComposer.tsx`) | form, chosen files, what was made | submit as one post or one for each file | `ManualPostComposer` |
| Rule engine and caption parser | none (pure functions) | | planned |
| Dashboard rows, branding, saved filters, browsing, reports, other pages, scripts, deployment | rows of their own, or none | | not modelled, see section 7 |

`PROJECT.json` lists every part with its sources, and says for each what is left
out.

### How the parts meet

* API handlers commit to PostgreSQL, **then** publish a Celery message (ingest,
  search). The broker and the database share no transaction.
* One Celery worker (prefork, so several processes) takes messages of the queues
  ingest, backfill, search and reports; `task_acks_late` redelivers the message
  of a process that dies. Beat sends the backup check every minute.
* Object storage is outside every transaction: objects are written before the row
  commits and removed before the removal commits.
* Ingest, edits and backfill share categories and tags, created on demand with a
  commit or a rollback in the middle of the caller's transaction.
* All sessions use `autoflush=False` at READ COMMITTED; hardly any row is locked
  on purpose, so most checks are made on what was read earlier.
* Ingest and the attachment endpoints share the `files` table by checksum.
* Backups read database and objects one after the other, beside all the rest.
* A page of the frontend holds copies of what the server has. Every click may send
  fetches, their answers come in any order, and a continuation acts on the state
  the page has by then. Some effects set a `cancelled` flag or count requests;
  most loads have neither. Several actions are two requests with a roll-back.

### What is hard here

Interleavings of worker processes and requests at the granularity of commits;
state read long before it is used (link counts, version numbers, duplicate counts,
administrators); a crash or a redelivery between two commits; the object store
ahead of the transaction; index messages that are lost or out of order; offsets
over a result set that shrinks; drop-and-rename of the running database; in the
pages, answers that overtake each other, two forms that put the same object, a
selection that outlives its list, and a request carried out whose answer is lost.
`PROJECT.json` has the hazards one by one, each at its line, with the properties
that watch it or a note saying why none does.

### What makes each part correct

* Ingest: an accepted job is never forgotten, ends in a documented state, makes
  one document, links it only when complete, and flags duplicates.
* Attachments: what a document links can be downloaded; references hold; nothing
  is left behind.
* Index: idle means exact, every change arrives, a rebuild repairs.
* Edits: version numbers agree with the history, no edit is lost under another, the
  backfill misses nothing.
* Accounts: a delete leaves an administrator; a lock is earned.
* Schedule: once per period, and a due backup is run.
* Backups: what is kept can be restored together; a refused or failed set is
  deleted file by file, whatever the deletion of one of them meets.
* Restore: a whole database exists at every moment and the active one is whole;
  objects are removed only once the archive is complete.
* Pages: what is shown answers what was asked last and what the page has done
  itself; what an action will reach is what the user chose; spinners end; actions
  of several requests end as a whole or are undone.

## 2. The modules and the code

On the server, one action is a step that other processes can observe (up to the
next commit, object call or message), with the guards, early returns and error
paths of the code. On a page, one action is an event of the browser: a click with
the effects React runs for it, a timer, or an answer that arrives. Rows are records;
names and contents are members of small sets. `MCx.tla` extends `x.tla` and defines
the bounds, symmetry and settings its `.cfg` files name. Three `MC` modules put
components that do not interact into one run: `MCAdministration` (accounts,
schedule, rule versions) and `MCBackupsAndRestores` by a variable `scene`, `MCPages` by the page
that `Init` mounts. A behaviour is then about one of the components, which takes its
own steps and no others.

A component has several situations worth checking (no fault, a kill, a lost
publish, two backends...). They are put into one run by a set of *limits* or
*settings*: `Limits` (`IngestPipeline`, `SearchSync`) is a set of functions that
bound how many events of each kind a behaviour has, and a behaviour stays within
one of them; `Settings` (elsewhere; `ScheduleSettings`, `RestoreSettings`, and the `left` of a page) is a set of records, one of which is chosen by
`Init`. Properties that hold only without some fault say so in their premise.

| Module | Variables and what they stand for | Actions and the code |
|---|---|---|
| `IngestPipeline` | `job` = `ingest_jobs`; `fileRow`, `object` by checksum; `tag`; `doc` with its link and first version; `sending`/`ready` = handlers that committed but did not publish / messages; `wk` = worker processes with their locals | `Accept`, `Publish`, `PublishLost` = `_queue_ingest_job`; `Take` ... `Finish` = `process_ingest_job` and its helpers, split at commits; `MarkFailed`, `Decide`, `ScheduleRetry`, `PublishRetry`, `DeadLetter` = the task's error handling; operator actions; `Killed`, visibility timeout, pool child |
| `FileStore` | `doc`, `link`, `row` committed tables; `object`, `temp`; `req` = one transaction with what it read and flushed; `fin` = background uploads | look-up, put, insert, flush, clean-up, row delete, commit or abort of each endpoint; the stages of `_finalize_minio_upload`; row locks, unique and RESTRICT constraints, PostgreSQL breaking a deadlock |
| `SearchSync` | `doc`, `order` = documents; `index`; `due` = committed, not published; `queue`; `wk` | create, edit, delete, enqueue, take, read rows, send, delete entry, rebuild by pages |
| `DocumentEdits` | `doc`, `tags`, `ver`, `names`; `ses` = sessions with loaded and pending values; `task`, `loop`, `report` of the backfill; `told` = what the index was sent | the steps of `patch_document`, `_apply_review_update`, `process_backfill_payload`, deletion |
| `Accounts` | `user`; `req` = what a request read; `wrong` (history); `now` | login with lockout, change password, update, delete, each as read then write |
| `BackupSchedule` | `row` = the settings row; `queue`; `task`; `manual`; `now`; `ran` (history) | `Beat`, `Skip`, `Start`, `Finish`, `Kill`, `Save`, `RunNow` |
| `RuleVersions` | `ruleset`, `version` = the rows; `call` = what a request in flight has read; `stamp` = times given to `published_at`; `chosen` (history) | `Ask…` reads, `CreateVersion`, `Import`, `Activate` commit; `InUse` = `_get_active_rules` |
| `Backups` | `rows`, `objects`, `adding`, `removing`, `changes`; `dir`, `tmp`, `exports`; `job` | the steps of each backup file, the marker, refusal, copying, publishing, failing; the clean-up of a run-all, one file at a time (`Removes`, `CannotRemove`, `CleanedUp`) |
| `Restore` | `db` = content of each database; `objects`, `staged`; `req` | prepare, load, clean up, promote (drop, rename); stage, copy, remove, clean |
| `JobLifecycle` | the job rows as their poster sees them: `state`, `attempts`, `retry`, `made`, `running`, `calm` | abstract: receive, start, attempt, advance, make the document, conclude, fail, try again, end |
| `IngestLifecycle` | the refinement mapping from `IngestPipeline` | `ImplementsLifecycle == Lifecycle!Spec` |
| `Client` | operators on `net`, the calls under way | `Send`, `ComeBack`, `Settle`, `Cancel` (the `cancelled` flag), `Rerun` (an effect run again) |
| `Page` | `net`; `db` = what the server holds; `ui` = the state of the mounted page; `left` = what the behaviour may still do | `Serve`, `Refuse`, `Late`, and what a user may start |
| `ArchiveWorkspace` | `net`, `server`, `view`, `list`, `selected`, `panel`, `history`, `snapshot`, `bulk` = the `useState`s of the page; `own` (history) | one action per handler, one per kind of answer |
| the seven other pages | records in `db` and `ui` with a field for each `useState` that matters | `Mount…`, one action per handler, one per kind of answer |

The theorems are in modules of their own, which extend the modules they are about:
`IngestProofs` (the pipeline with any number of workers, then with one, and the
refinement), `FileStoreProofs`, `DocumentEditsProofs`, `AdministrationProofs`
(accounts, rule versions and backup schedule, as in `MCAdministration`),
`CopiesProofs` (search index, backups, restores), `ArchiveWorkspaceProofs`,
`FormsProofs` (the laws of a page's calls, rules page, backup page, manual posts,
media gallery, mind map) and, on top of it, `PagesProofs` (dashboard, document page).

### Abstractions

* `IngestPipeline`: requeue and recover-upload read and write in one step; the
  deletion of a document is one step; general database outages are not modelled;
  STORAGE_WRITE_FAIL stands for STORAGE_READ_FAIL too; retry delays are any delay.
* `FileStore`: a call brings one file; requests are numbered in the order they
  start; the link count and the object removal of the clean-up are one step.
  Logo and calendar references to files are left out.
* `SearchSync`: Meilisearch's own task queue is taken as applied when sent. A rebuild
  reads its pages in the order of creation; of rows with equal `created_at`, for which
  `meili_service.py:354` has no second key, so that OFFSET may repeat one and pass
  over another, there are none.
* `DocumentEdits`: the writing transaction of a patch is atomic; a publish follows
  right after its commit; only the review of a single document is modelled. The pages
  of a backfill are in the order of creation, without ties, as in `SearchSync`
  (`backfill_service.py:44`).
* `Accounts`: commits are atomic; the policy is constant.
* `BackupSchedule`: time is in slots of many minutes; `brief` says that a check is
  taken and ends before beat sends the next.
* `RuleVersions`: the reads of an activation are one step, and its commit writes only
  the attributes whose value changed; `published_at` is taken just before the commit
  and no two are equal; of an import what matters is how many versions it brings.
* `Backups`: the marker is the number of commits that move a count or a newest
  `updated_at`; a dump is the snapshot at its start; `brief` says that no backup
  step falls between the two halves of a removal. A backup file and its `.meta` are one
  file. Retention is not modelled.
* Pages: a document is its identity and a revision or a text; lists are sets or
  sequences of them; texts, labels, layout and message wording are left out, whether
  an error is shown is kept where a guard depends on it. A call is served in one
  step by the part of the server it needs, which is the transaction of its handler;
  what two handlers do to each other inside the server is the business of the other
  modules. The role is that of an administrator. Milestones, presets in local
  storage (other than the dashboard's settings) and playback are left out.
* `DashboardSummary`: an answer of 404 to a call about the settings is a good answer
  without settings. The list of documents a task can be linked to, the category that
  decides whether it can be linked, and a task opened by the link of another page
  are left out. `meant` and `blind` are history: what was saved with each form, and
  whether one was saved while the defaults stood in for settings that could not be
  loaded.
* `MediaWorkspace`: every file attached gives a card (of a file accepted by its type
  alone, `MediaWorkspace.tsx:402`, the gallery, which goes by the extension, makes
  none), and the buttons of an open window come with its document, whether a message
  of failure takes their place or not (892). No property is about either.
* `Restore`: of the two storage backends the MinIO one is modelled, the disk variant
  takes the same steps in a directory; the re-mapping of the session user after a
  promotion and `restore_config_backup` are left out.

## 3. The runs

All bounds are named in the `.cfg` and `MC` files. `CHECK_DEADLOCK FALSE` is set
everywhere because with bounded uploads, requests, clicks and faults a finished
system has nothing left to do; that nothing stops *before* it is finished is what
the liveness properties and `NoStrandedJob` say.

| Run | Checks | Bounds and why they are enough |
|---|---|---|
| `IngestOneWorker` | `TypeOK`, `NoStrandedJob`, `DuplicatesFlagged`, `PublishedHasFile`, `ImplementsLifecycle` (refinement), `EveryJobSettles` (FairSpec) | One worker, every stage failure, two attempts (one retry and one dead letter). Two uploads of the same or different content; or one with two kills or visibility timeouts, with refused publishes and a lost temp file, or with a killed child |
| `IngestWorkers` | `JobDocumentComplete`, `SuccessHasDocument`, `RowHasObject` | Two workers: two jobs and a delete; one job that a kill, a timeout or an operator has run twice at once. Two is where every pairwise race shows |
| `FileRequests` | `AttachmentsKept`, `ReferencesHold`, `NothingLeaks` | Two documents, two contents. Four calls in turn on either backend with a failing put; three concurrent adds and edits; three calls of any kind, two at a time, with every fault |
| `FileEnds` | `UploadSettles` (FairSpec) | Replaces that exchange files (the shortest lock cycle); uploads whose row or document goes meanwhile |
| `SearchOneWorker` | `QuietMeansIndexed`, `IndexCatchesUp` (FairSpec) | Two documents, pages of one row so that a rebuild has several, three changes, one rebuild, a kill or two losses |
| `DocumentEdits` | `VersionsConsistent`, `QuietMeansTold`, `BackfillCovers`, `RulesApplied` | Three requests and a delete on one document; two requests racing a killed backfill for new names; backfills alone over three documents in pages of two |
| `Administration` | `LockIsEarned`, `RulesAsActivated`, `DeleteKeepsAdmin`, `OncePerPeriod`, `DueIsRun` (FairSpec) | Accounts: three users, two of them administrators; up to five requests, two in flight or one by one, locks that expire. Schedule: three days of two slots, a daily and a two-day schedule, two workers. Rules: two rulesets of up to three versions, two requests in flight, three activations in turn or two at once |
| `BackupsAndRestores` | `SetsRestorable`, `RefusedLeavesNothing`, `RestoreWhole`, `RestoredIsArchive` | Three attachments with one run-all, or two backups with failing steps, deletions among them, and an administrator who deletes files too. Up to three restores, two dumps, two targets, two archives that overlap, failing commands and a death |
| `ArchiveWorkspace` | `ShowsWhatWasAsked`, `OwnChangesShown`, `ChosenIsListed`, `PageSettles` (FairSpec) | Two documents, one or two to a page, two filters, three calls under way, three or four clicks; changes elsewhere, a refused call, a lost answer |
| `Pages` | `TasksShownAsAsked`, `FormsKeepEachOther`, `RulesBelongTogether`, `SelectionIsShown`, `RestoresTheChosen`, `ShownAsAsked`, `MediaPostHasFiles`, `FilesPostedOnce` | Each of seven pages, four calls under way, two to six clicks: a hurried user who clicks on while calls are under way, a patient one who takes longer sequences; refused calls, lost answers, changes elsewhere |
| `IngestTagRace` | `PublishedHasFile` is violated | two workers |
| `FileShareRace` | `LinkedReadable` is violated | two requests |

One run checks several properties where they need the same behaviours: a merged
property such as `UploadSettles` (every request ends, and every deferred upload
settles) is a conjunction whose conjuncts are all about that run's system.

Symmetry is used in the safety runs only, on sets whose members the module
compares for equality alone. Every property has a faulty variant of a definition
(the operators named `X_Y`, marked "Fault") under which the same run finds it
violated; a property with several conjuncts has several.

### Fairness

* Ingest: weak fairness of each worker's next step, of each worker taking a
  message, of each handler publishing. A prefork child runs until it ends or is
  killed; kills and refusals are bounded events, never fair.
* Files: weak fairness of each request's and each background upload's next step.
  A request that waits for a lock is enabled once the lock is free or PostgreSQL
  has chosen it as the victim of a deadlock.
* Search: handlers that committed publish, workers work. The same grounds.
* Schedule: beat keeps sending, an idle worker takes a check, a backup ends. Beat
  and worker are restarted by the container runtime; a backup that never ends is
  bounded by its subprocesses. The fairness is conditional on the scene: it asks
  nothing of a behaviour that is about accounts or rules.
* Archive page: every fetch ends, with an answer or an error, and the handler that
  awaits it goes on; nothing is asked of the user. A browser gives up on a fetch in
  the end, and JavaScript runs every continuation. `api-client.ts` has no timeout of
  its own.

### Users of the pages

Most loads of the pages are not cancelled, so that a user who clicks faster than
the server answers may see answers to earlier questions. What must hold for that
user too is checked for both kinds of behaviour (the list and the history of
`ShowsWhatWasAsked`, `OwnChangesShown`, the list of
`TasksShownAsAsked`, the difference of `ShownAsAsked`, `MediaPostHasFiles`, "posted
once" of `FilesPostedOnce`, the progress bar of `RestoresTheChosen`). What the code
keeps only for one who waits for his calls has `left.patient` as its premise; a
patient user takes every order of actions, refused calls and changes elsewhere, and
what goes wrong without patience is listed in section 4.

## 4. What the checks show

Within the bounds the code keeps the properties of the ten passing runs, and
`IngestPipeline` with one worker implements `JobLifecycle` until something
interferes. Two
disagreements with what the repository says are kept as runs of their own:

* `IngestTagRace`: "attachments are kept" (README.md:21). The loser of a race for
  a new tag rolls back its session and with it the pending file link; the job is
  published with a document without its file (`ingest_service.py:236`).
* `FileShareRace`: a files row without its object is the error
  MISSING_STORAGE_OBJECT (`validate_integrity.py:614-618`). The orphan clean-up
  removes the object, then cannot delete the row that another document has just
  linked; the transaction is rolled back but the object is gone
  (`routes_documents.py:808`).

The following were found the same way. The models contain each of them; the
premise of the property, or the settings of the run, name what has to be absent
for the property to hold.

* Two workers store the same checksum: the loser's flush fails, the error handler
  commits on the broken session and raises again, and the row stays RECEIVED with
  nothing scheduled (`ingest_service.py:175`; README.md:1143 and 1175 say errors
  end in FAILED). `ImplementsLifecycle`, `EveryJobSettles` with two workers.
* Two concurrent runs read `linked_count` before either commits its link: neither
  document is flagged (`ingest_service.py:133`;
  `docs/IMPLEMENTATION_CHECKLIST.md:10`). `DuplicatesFlagged` with two workers.
* A stage error code is always set first, so a dead-lettered job keeps it instead
  of DLQ_MAX_ATTEMPTS (`tasks_ingest.py:73`; README.md:1146).
* recover-upload resets a row that a worker is running (`ingest_service.py:65`;
  README.md:1141). `ImplementsLifecycle` if operators did not count as interference.
* A delete between the object write and the row commit of another run leaves a row
  without object (`ingest_service.py:160`). `RowHasObject` without its premise.
* A detach or replace that loses the race for a version number has already removed
  the object (`routes_documents.py:1911`); so has a process that dies before the
  commit (`:808`). `LinkedReadable` without `Harmless`.
* Two requests that remove the last two links of a file each count the other's
  (`routes_documents.py:803`; `validate_integrity.py:396-398`). `NothingLeaks`
  without `Harmless`.
* Two index tasks of one document on two worker processes send in the opposite
  order (`meili_service.py:303`); a failed publish or a refused request is never
  retried (`search_sync_service.py:25`). `QuietMeansIndexed` with two workers, or
  without its premise (README.md:1145, 1148).
* A backfill of documents under review pages by OFFSET over a filter its updates
  leave: documents are passed over (`backfill_service.py:123`;
  `docs/IMPLEMENTATION_CHECKLIST.md:24`). `BackfillCovers` without `~reviewOnly`.
* A killed backfill is rerun, counts what it committed as unchanged, and never
  publishes it (`backfill_service.py:254`; README.md:1148). `QuietMeansTold` with
  kills.
* A review that uses a new tag commits midway, with the reasons the reviewer has
  loaded (`taxonomy_service.py:54`, `upsert_tags`). If another reviewer has taken
  the mark of a duplicate off since, it is back until the first one is done; a
  backfill that had read the document without it removes it then, with no review
  open. `RulesApplied` with two reviewers: a proof attempt found it, TLC confirmed it.
* A demotion between the administrator count and the delete leaves none
  (`routes_auth.py:562`). `DeleteKeepsAdmin` with requests in flight and demotions.
* Two activations at once each switch off what they have read: two versions of a
  ruleset are left active (`routes_rules.py:341`). From there, two more at once leave none:
  each switches the other's version off and finds its own already on. The pipeline
  then falls back to its default rules (`ingest_service.py:195`). `RulesAsActivated`
  without `inTurn`.
* Switching a ruleset off does not stop the pipeline from applying its versions:
  `_get_active_rules` looks at the versions only (`ingest_service.py:188`).
* A backup that outlasts a minute is started again by every check
  (`tasks_backup.py:92`; README.md:606). `OncePerPeriod` without `brief`.
* The end of an older run overwrites the restart of the window
  (`tasks_backup.py:93`; `docs/HANDOVER.md:389`).
* A removal that has removed its object and not committed while run-all reads is
  not seen by the marker (`routes_admin_backup.py:517`; `docs/HANDOVER.md:361`).
  `SetsRestorable` without `brief`.
* The temporary file of a backup step that raises stays
  (`routes_admin_backup.py:529`; `docs/HANDOVER.md:362`).
* What the clean-up of a refused or failed run-all cannot delete stays in the backup
  directory, beside complete sets, and nothing tries again
  (`routes_admin_backup.py:276`). `RefusedLeavesNothing` counts it (`stuck`) and says
  that nothing else is left.
* A load of the dashboard's settings that fails puts the defaults in their place and
  leaves both forms usable (`DashboardSummary.tsx:656`). The settings form saves, its
  reload is refused, and the first holiday that is added puts the defaults over what
  the form has saved, although the calendar settings are for holidays only
  (README.md:484). `FormsKeepEachOther` without its premise `~blind`.
* A second restore into the same target re-creates it between the first one's load
  and its promotion, which then promotes a partial database
  (`routes_admin_backup.py:684`; README.md:601). `RestoreWhole` with `shared`.

### Pages

No text of the repository promises otherwise for these; they are what the models
of the pages do, and why the premises of their properties are what they are. Line
numbers are of the page's file.

* **Archive.** The answer to a save, an upload or a resolve becomes the detail
  whatever is selected by then. A resolve whose follow-up load fails leaves the list
  as it was (1002-1020). What failed of a bulk action is chosen again on whatever
  page is shown by then (1107, 1150). A selection cleared while its detail loads
  leaves the loading flag set (715-746). The Delete key does not look at the bulk
  flag (589-611). Loading a snapshot cancels nothing (1045-1059). File operations
  reset unsaved edits (803-840).
* **Dashboard.** The calendar and the files of a linked document have no sequence
  number while the list has one (682-693, 1004-1030), so a calendar may be that of
  an earlier month, and the files that came last may be of a document linked before.
  A load of files goes on when its form is closed (913-917). Opening an
  open-ended task gives it an end (896). A creation whose answer was lost and that
  is sent again makes two tasks.
* **Rules.** No load is cancelled (416-476), so one user can get the versions of one
  ruleset under another; one busy flag is shared by all actions (514-525). The editor
  keeps its text when the new ruleset has no version. The form drops `priority` and
  `any` keywords of rules (252-337), which the engine knows
  (`rule_engine.py:225`, `247`).
* **Mind map.** A failed load empties the map, gives up the selected tag, and the
  load this sends erases the error (459-467, 495-500).
* **Backups.** Selecting another file while the selected one is being deleted loses
  the choice to the newest file (381-386). "Delete all" leaves a deleted file
  selected (401-421). A backup whose list then fails to load is reported as failed
  (286-302). A refresh overwrites an unsaved schedule.
* **Document.** Adding files resets unsaved edits (389-415). The snapshot load
  cancels nothing (434-448). Comments loaded while one is being made may list it
  twice or not at all (`DocumentCommentsPanel.tsx:53-88`). A save posts the whole
  form without a version check.
* **Media.** A batch shows at most one page: what a scan finds beyond it is dropped
  (334). A roll-back that fails is ignored and leaves a post without files (496-501).
  The answer to a change becomes the window of whatever post is open by then.
* **Manual posts.** In one post for all, a refused attachment leaves form and post,
  and pressing again makes a second post (295-306). A lost answer to a creation
  leaves an empty post (206-238). Files added while the form is being sent are
  dropped with it (245-275).

## 5. What is proved

The proofs hold for every number of jobs, documents, users, requests, workers, files
and names, of calls a page has under way and of things its user does, every limit and
every setting that the assumptions allow; symmetry and fairness play no part in them.
Every invariant the passing runs check is the statement of a theorem, and so is every
action property and the refinement; what is left to TLC is liveness (section 6). A
page's theorem is about the specification of that page alone (`RulesSpec`,
`BackupsSpec`...: the page is mounted on any server its `Mount…` allows and takes
its own steps), of which the run `Pages` checks instances.

| Module | Theorem | Says | Under |
|---|---|---|---|
| `IngestProofs` | `TypeCorrect` | `[]TypeOK` | |
| | `JobDocumentIsComplete` | `[]JobDocumentComplete` | |
| | `SuccessKeepsDocument` | `[]SuccessHasDocument` | |
| | `RowsHaveObjects` | `[]RowHasObject` | |
| | `SharedFilesAreFlagged` | `[]DuplicatesFlagged` | `OneWorker` |
| | `PublishedDocumentsHaveFiles` | `[]PublishedHasFile`, until a document is deleted | `OneWorker` |
| | `NobodyIsStranded` | `[]NoStrandedJob`, while `LeftAlone` | `OneWorker` |
| | `PipelineImplementsLifecycle` | `ImplementsLifecycle` | `OneWorker`, `MaxAttempts # 0` |
| `FileStoreProofs` | `FilesTypeCorrect` | `[]TypeOK` | |
| | `ReferencesAlwaysHold` | `[]ReferencesHold` | |
| | `AttachmentsStay`, `NothingStaysBehind` | `[]AttachmentsKept`, `[]NothingLeaks` | |
| `DocumentEditsProofs` | `EditsTypeCorrect` | `[]TypeOK` | |
| | `VersionsTellHistory`, `IndexIsTold` | `[]VersionsConsistent`, `[]QuietMeansTold` | |
| | `BackfillPassesOverNone` | `[]BackfillCovers` | |
| | `ReclassificationKeepsMarks` | `RulesApplied` (action property) | `OneReviewer` |
| `AdministrationProofs` | `AccountsTypeCorrect` | `[]AccountsTypeOK` | |
| | `LockEarned` | `[]LockIsEarned` | |
| | `DeletesKeepAdmin` | `DeleteKeepsAdmin` (action property) | |
| | `RulesTypeCorrect`, `RulesStayAsActivated` | `[]RulesTypeOK`, `[]RulesAsActivated` | |
| | `ScheduleTypeCorrect` | `[]ScheduleTypeOK` | |
| | `PeriodsAreKept` | `OncePerPeriod` (action property) | |
| `CopiesProofs` | `SearchTypeCorrect` | `[]TypeOK` | |
| | `IndexIsTable` | `[]QuietMeansIndexed` | `OneWorker` |
| | `BackupsTypeCorrect` | `[]BackupsTypeOK` | |
| | `SetsCanBeRestored`, `RefusalLeavesNothing` | `[]SetsRestorable`, `[]RefusedLeavesNothing` | |
| | `RestoreTypeCorrect` | `[]RestoreTypeOK` | |
| | `RestoresStayWhole` | `[]RestoreWhole` | |
| | `ObjectsRestoreExact` | `RestoredIsArchive` (action property) | `[]Apart` |
| `ArchiveWorkspaceProofs` | `TypesHold` | `[]TypeOK` | |
| | `ScreenIsCurrent` | `[]ShowsWhatWasAsked` | |
| | `OwnChangesAreShown` | `[]OwnChangesShown` | |
| | `ChoiceIsListed` | `[]ChosenIsListed` | |
| `FormsProofs` | `RulesAreOfOneSet` | `[]RulesBelongTogether` | |
| | `RestoreIsOfTheChosen` | `[]RestoresTheChosen` | |
| | `EachFilePostedOnce` | `[]FilesPostedOnce` | calls refused or answers lost, not both |
| | `PostsHaveTheirFiles` | `[]MediaPostHasFiles` | one call refused at most, no answer lost |
| | `SelectionIsOnTheMap` | `[]SelectionIsShown` | finitely many documents |
| `PagesProofs` | `TasksAreAsAsked` | `[]TasksShownAsAsked` | no answer lost, `MaxCalls >= 3` |
| | `FormsKeepWhatIsMeant` | `[]FormsKeepEachOther` | the same; no form saved while the settings could not be loaded |
| | `PageShowsWhatIsSo` | `[]ShownAsAsked` | no answer lost, `MaxCalls >= 2` |

Premises that stand in the property itself (`Harmless`, `OneByOne`, `inTurn`,
`brief`, `shared`, `RequestsOnly`, `BackfillOnly`, what is lost, `left.patient`) are
not repeated in the table; section 4 has for each what happens without it.

### Assumptions

Every assumption on a constant is a named `ASSUME` of the module that declares it,
and TLC evaluates it in the runs. They say what the constants are: null values and
`Keep` are no members of the sets beside them (`NullsAssumption`,
`RequestsAssumption` of `DocumentEdits`), limits and settings have their types and
start with nothing used (`BoundsAssumption`, `SettingsAssumption`,
`RuleSettingsAssumption`, `ScheduleSettingsAssumption`, `RestoreSettingsAssumption`,
`ForceAssumption`), what is there at first belongs to what there can be
(`AdminsAssumption`, `RulesetsAssumption`, `FilesAssumption`, `NamesAssumption`,
`ContentsAssumption`, `ObjectsAssumption`), the policy, pages, batches, days and
version numbers count from 1 (`PolicyAssumption`, `BatchAssumption`,
`DaysAssumption`, `VersionAssumption`), a schedule is one the API accepts
(`SchedulesAssumption`, 1 to 60 days). Some sets are
finite: documents (`DocsAssumption`) because a backfill counts rows and the archive
page puts them in an order, requests (`RequestsAssumption` of `Accounts`) because the
model counts those in flight, the files a user picks (`FilesAssumption` of the form),
the categories and tags of a map (`MapAssumption`) and the kinds of backup files
(`BackupsAssumption`), which are fewer than `MaxCalls` because the page loads all
lists at once. The other assumptions of the pages say that the form a list
starts with is one of its forms, that null is no ruleset, version or operation
(`RulesetsAssumption`, `FormsAssumption`, `FiltersAssumption`), that the operations
the rules page only reads with are not those it changes things with
(`ReadsAssumption`), that there is a text (`TextsAssumption`), that a call can be under
way (`MaxCallsAssumption`), and that a map draws at least one node of each kind and
starts within its limits (`MapAssumption`). The settings of the dashboard are not null
(`NoneAssumption`).
`RuleAssumption` and `ReasonsAssumption` say that rules give known categories, tags
and reasons and never the mark of a duplicate, which only ingest sets.

These hypotheses restrict the system, and each is needed:

* `OneWorker`. The compose file starts the worker without `--concurrency`
  (`infra/docker-compose.yml:99`), so it has one process per core; these theorems
  speak of a deployment with one. With two, section 4 has the races.
* `LeftAlone` (no operator call, no deletion) and "until a document is deleted". A
  requeue of a job that runs makes two runs of one row even with one worker, and a
  deletion takes the row a job is about to link. `NoStrandedJob` and
  `PublishedHasFile` as they stand were found not to be invariants of runs with
  operators or deletions; with one worker the run `IngestOneWorker` has neither.
* `MaxAttempts # 0`. The abstract life cycle starts a job that has an attempt left,
  the code takes the first attempt without a look at the limit; the default is 5.
* `Apart`: no two objects restores overlap (the run has two in turn, or one beside a
  database). Two at once remove each other's objects.
* `OneReviewer`: one review at a time. See the review that commits midway, section 4.
* Lost answers and refused calls on the pages. The dashboard and the page of a
  document load nothing again when the answer to a change is lost, so they go on
  showing what was before it, and the next put of the settings undoes it. A gallery
  post whose roll-back is refused too, or whose creation is not heard of, keeps no
  files, and a file of a split submission whose attachment is not heard of and whose
  roll-back is refused is posted twice.
  TLC finds each of these properties violated when its hypothesis is dropped.
* `MaxCalls >= 3`, `MaxCalls >= 2`: a browser has room for what the page loads when
  it opens. The bound is the model's.

### The arguments

**Ingest.** `TypeInv` types the state and adds what a step needs of the process that
takes it (`Sound`). `JobDocumentComplete` is not inductive: the link is written
several steps after the document, by a process that remembers which document it made
while others may delete, requeue or rerun. `LinkInv` adds that a message or a run
belongs to a job that was accepted, and `Made`, what a run has established since it
made its document; an action of one process leaves `Made` of another intact because
documents are never unmade, only deleted. `ObjectInv` adds that a run about to insert
a row has stored its object. `FileInv` relates the local variables of a run to the tables by place
(`FileRun`): from the look-up to the commit of the document it knows whether the
file is linked, because it is the only process; and while nothing is deleted the link
is pending in the run or written (`KeptRun`). `SettledInv` says who will see to a job
that is not at rest: a message, a run, or the handler that has yet to publish it, of
which there is one. `CalmInv` gives the state of the row for each place of a run, and
that a waiting job has one message and no document; with it every step maps to a
step of `JobLifecycle` or a stutter, one lemma per action.

**Attachments.** `ReferencesHold` needs what transactions have flushed and not
committed: `Fits` (rows deleted in a transaction are linked by nobody else, the one
inserted is not there yet) and `LockedOut` (two transactions never hold the same row),
which is what row locks, the unique checksum and RESTRICT give. `Kept` adds, for calls
in turn or calls that only add, that a request still finds the tables as it read them
(`AsRead`), and who holds every temporary file and object.

**Search.** For one worker: of every document either a task is due, queued or in work
that will bring the entry up to date (`Waiting`), or the entry is right and no worker
is about to overwrite it (`Shown`). A deleted document never comes back, so a delete
task stays right however late it is run, and an upsert that finds no row removes.

**Edits.** `EditsInv` types the sessions by role and step, and numbers: the current
version of a row is the length of its history and nobody has loaded a higher one,
which with the unique key makes a stale writer fail. `RequestsInv` says that what a
session has loaded is still so or its number is stale, so that a version changes only
what its request names. `UnkilledInv` says that an unkilled backfill has told of, or
remembers, what it changed. `PagesInv` is about the pages: every live document whose
position is before the offset has been seen. Positions stay fixed while nothing is
deleted; that an empty page means the end is counted, by an injection of the positions
into the documents. `AloneInv` is the backfill alone: row, tags and plan agree at
every step of it, so a rerun after a kill starts from rows that are as they were or as
the rules say. `MarkInv` says that whoever writes reasons back has read a mark that is
there.

**Accounts.** `AccountsInv`: one by one, what a request read is still so (`Alone`) and
the counter is the history (`Counted`); whoever deletes is an administrator as long
as he exists and deletes somebody else (`Deleting`), which leaves him.

**Rules.** `RulesInv`: numbers of a ruleset are `1..n` and what a creation will insert
is one of them or the next (`Numbered`); in turn, the active version is the current
one, the latest published is the one chosen last, and what an activation read is still
so (`Decided`).

**Schedule.** `ScheduleInv`: with brief backups at most one check waits or runs, and
the last run of the window is the one that runs or is on record. `DayLaws` are the
facts about days and slots.

**Backups.** `FilesInv`: a backup's files are its own, made in order, and remembered,
so that a clean-up finds all; a file that the clean-up has done with is gone or is one
it could not delete. `SetsInv`: as long as the marker has not moved, what the
dump names is in the archive or still to be read (`Window`); a full backup copies the
dump first, and an export has one file of each kind of one backup (`Copies`, `Whole`).

**Restore.** `RestoreInv`: two requests have different targets, a target about to be
promoted holds its dump, and while the application has no database a whole one is
there that no request will load into (`Separate`, `Spare`); the keys of an objects
restore are its archive and what it has copied is there (`Gathered`, `Copies`). `Exact`
adds for restores apart that nothing else is left once the removal is done.

**The calls of a page.** `FormsProofs` begins with the laws of `Client`: what `Send`,
`Settle`, `Cancel` and `ComeBack` leave of the other calls (`SendChanges`,
`SettleChanges`, `CancelIs`, `ComeBackChanges`), how many slots are free, and what one
call alone is (`Fresh`, `Answer`). The pages have two kinds of claims. What holds for
any user is proved of each call under way by itself: what it asks and whether its
answer still counts. What holds for a user who waits needs that little is under way,
and what it is at each point of his action.

**Archive page.** `Inv` is `TypeInv` and four parts. `Asked`: the load of the list
whose answer counts is of the view there is now, and is the only one; those of the
detail and the history are of what is selected and shown. `Told`: what the page says it has done (`own`) the server has
done, and a list that is under way and will be shown was read after it. `OneHandler`:
one action of the modal at a time, as its busy flag says. `Patient`: for a user who
waits a bulk action works on a list that stays, never beside the modal, and what is
under way in the modal is of the document selected.

**Rules page.** For a user who waits nothing or one call is under way, and each kind
of call says what it finds and leaves (`ListFits`, `DetailFits`, `VersionFits`,
`WriteFits`): a load of a ruleset is of the one selected, the answer about a version is
of the one selected, and while a change is under way detail and editor belong to the
selection (`DetailBelongs`, `EditorBelongs`).

**Dashboard.** For any user the load of the list that counts is of the window wanted
(`ListAsked`). For one who waits (`UserWaits`) either only loads are under way, each
kind once, or the one call of one action (`Acting`). `SettingsRight`: settings that were
loaded are shown as they are stored, by the server or by the browser; so a put of one
form carries the part of the other as it is stored (`PutFits`), and unless a form was
saved on defaults what is stored is what was meant (`SettingsKnown`). `FilesRight`: the
file chosen and those to choose from are of the document linked, and a load of files is
of it (`FilesFits`).

**Media gallery.** `NoneForgotten`: a post of the form without files has a call that
cares for it, the creation that made it, the attachment or the roll-back (`CaresFor`).
`PostsStand`: an attachment that was refused, and a roll-back, meet no refusal any more,
or their post is gone.

**Document page.** `DocStands`, for any user: one writer at a time, which the busy flag
keeps; the first load is alone; the load of a difference that counts is of the versions
chosen; and the document shown is no older than the page's own last save unless an
answer that says so is about to be shown. `DocWaits`, for a user who waits: nothing but
the loads of differences and comments is under way together, and the comments
shown are the server's but for the one a call has just changed.

**Backup page.** What was chosen is selected, or gone from the list; the numbers of
files only grow. The loads of all lists come from a fold over the kinds, whose result is
established for every finite set of kinds. No timer is left that could take the bar
of a task at work.

**Manual posts.** One call about a post is under way at a time, and fits the place of
the submission it is at. In a submission that makes one post for each file, the file it
is at, the files still to do and those that failed are disjoint lists of files in no
other post; a post whose attachment failed is bare as long as calls may be
refused, and every post is bare once it is rolled back. For a user who waits
every file picked is still to do, or posted.

**Mind map.** A user who waits has one load under way, which asks for what is
selected; an answer has tags only for a category that has documents, and a selected
tag that it lacks has been given up. That the rows can be put in their order at all
(most documents first, then by name) is proved for every finite set of rows, for any
strict total order.

Induction is by one lemma (`Induction`: a set of numbers with 0 and the successor of
each of its members has all), since the library's induction theorems take an
operator. It gives the recursive function behind `Keeping`, the fold over the kinds of
backups and the order of the rows of a map.

### What proving changed

* `AfterClose` of `Backups` was a CASE with overlapping arms, whose value the logic
  leaves open where TLC takes the first; it is an IF now.
* The pages of `SearchSync` are defined by positions (`Place`, `RowsAt`) instead of
  `SelectSeq`, which is recursive. For the same reason the pages of the frontend use
  `Keeping` (a recursive function) for the filters of arrays, `PlaceOf` and `Without`
  for `findIndex` and the removal of an element, and the rows of the mind map
  (`ByCount`, `LatestFirst`) are *the* list in their order instead of a sort.
* `own` of `ArchiveWorkspace` counts what a bulk action has changed too, and
  `OwnChangesShown` is claimed of every list on the screen, not only of a page at rest.
* A call takes any free slot (`Send`); the picker of the manual form has the guard
  that a file is picked once, which the model had assumed of its user.
* The hypotheses on operators, deletions and attempts above, and the two-reviewer
  behaviour of section 4, are where a proof stopped and TLC had the counterexample.

## 6. Only model-checked

* By the nature of the prover all liveness (`EveryJobSettles`, `UploadSettles`,
  `IndexCatchesUp`, `DueIsRun`, `PageSettles`): TLAPS does not reason about fairness
  or ENABLED. RECURSIVE operators are out of its reach too; no module that is
  proved about has one.
* The two disagreements of section 4 (`IngestTagRace`, `FileShareRace`), which are
  behaviours rather than theorems.

The run of `IngestPipeline` with two workers checks three properties rather than
all: the other six fail with two workers for the reasons in section 4, or are about
one worker.

## 7. Not modelled

* **Rule engine, caption, date and archive-set parsers**: pure functions on
  strings; the order of rules and conflict handling are in the plan.
* **Dashboard rows, saved filters, branding on the server**: single-row operations.
  Branding and dashboard tasks refer to files, which matters to the orphan clean-up;
  in the plan.
* **Bulk review, structured tag backfill, review auto-resolve, import of an external
  index**: further actors of the existing modules; in the plan.
* **Browsing, search queries, reports, integrity check, metrics**: read-only.
* **Sessions, configuration, migrations, deployment**: declarations or shell.
* **Other pages of the frontend** (search, review queue, logs and users, timeline,
  archive sets, milestones, quick posts, login and its gates): they load and save by
  the same means as the pages that are modelled; in the plan. Editor widgets, layout
  and the generated API types are drawing or declarations.

## 8. Plan

Done: `IngestPipeline` and its refinement of `JobLifecycle`, `FileStore`, `SearchSync`,
`DocumentEdits`, `Accounts`, `BackupSchedule`, `RuleVersions`, `Backups`, `Restore`,
`Client`, `Page` and eight pages of the frontend, each with the proofs of its safety
properties.

Next, in this order:

1. The pages with lost answers: what the dashboard and the document page keep of their
   properties once the answer to a change is lost (calendar and list of one
   window; each comment once), as properties of their own.
2. Bulk review, the structured tag backfill and the auto-resolve script as further
   actors of `DocumentEdits`; the import script as an actor of `FileStore`; logo and
   calendar references in its clean-up.
3. An abstract `AttachmentStore` (a set of links whose contents can be read) for
   `FileStore` under `Harmless`.
4. Recovery: `Backups` composed with `Restore` in one scene, so that a set that
   run-all accepted can be brought back whole.
5. The review queue, the search page and the session gates over `Page`.
6. The rule engine's ordering, scoring and conflict handling as operators on
   abstract tokens.
