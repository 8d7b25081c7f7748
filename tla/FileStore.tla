----------------------------- MODULE FileStore -----------------------------
(***************************************************************************)
(* Attachments: the endpoints that add, replace and remove the files of a  *)
(* document, the files table and the object store behind it.               *)
(*                                                                         *)
(* A request is one database transaction. What it has flushed but not      *)
(* committed is visible to nobody, yet it holds row locks, and the object  *)
(* store knows no transactions: an object is written before the row and    *)
(* removed before the commit. Three parties meet here: concurrent requests,*)
(* the background task that moves an upload to MinIO, and an API process   *)
(* that dies.                                                              *)
(*   doc      documents: whether each is there, and current_version_no     *)
(*   link     document_files, committed                                    *)
(*   row      files, by checksum: storage_state and the upload that made it*)
(*   object   the objects in the store, keyed by checksum                  *)
(*   temp     the upload temp files, by the request that wrote each        *)
(*   req      the requests, each serves one call                           *)
(*   fin      _finalize_minio_upload, by the request that queued it        *)
(*   setting  the storage backend, and the bounds that are left            *)
(***************************************************************************)
EXTENDS Naturals, FiniteSets

CONSTANTS
    Docs, Contents, NoDoc, NoContent,
    MaxRequests,    \* bound: calls in a behaviour
    Settings        \* the settings that behaviours start with

ASSUME NullsAssumption == NoDoc \notin Docs /\ NoContent \notin Contents

Operations == {"add", "replace", "detach", "delete", "edit"}

\* settings.storage_backend, and the bounds of a behaviour: the operations users
\* call, how many calls there are and how many are in flight at a time, and how
\* many object writes and removals may yet fail and processes die. A lossy
\* behaviour is one with failing removals or deaths.
Setting == [backend: {"minio", "disk"}, ops: SUBSET Operations, calls: Nat,
            active: Nat, put: Nat, remove: Nat, crash: Nat, lossy: BOOLEAN]

ASSUME SettingsAssumption ==
    /\ MaxRequests \in Nat
    /\ Settings \subseteq Setting
    /\ \A s \in Settings : s.lossy = (s.remove > 0 \/ s.crash > 0)

VARIABLES doc, link, row, object, temp, req, fin, setting

vars == <<doc, link, row, object, temp, req, fin, setting>>
tables == <<doc, link, row>>

\* With MinIO the background task finishes an upload.
Deferred == setting.backend = "minio"

-----------------------------------------------------------------------------
(* Rows and process records.                                               *)

\* Calls are numbered in the order in which they begin.
Requests == 1 .. MaxRequests
NoRequest == 0

FileRow == [state: {"none", "pending", "stored", "failed"},
            by: Requests \cup {NoRequest}]
NoRow == [state |-> "none", by |-> NoRequest]

\* A request: what it read (version, old rows, linked) and what it has flushed
\* (inserted, dropped). file names the row it will link, by its upload.
Request ==
    [pc: {"ready", "lookup", "put", "insert", "flush", "cleanup", "drop",
          "commit", "done"},
     op: Operations,
     doc: Docs \cup {NoDoc}, new: Contents \cup {NoContent},
     old: SUBSET Contents, version: Nat, was: [Contents -> FileRow],
     linked: BOOLEAN, file: Requests \cup {NoRequest}, inserted: BOOLEAN,
     todo: SUBSET Contents, cur: Contents \cup {NoContent},
     dropped: SUBSET Contents]

Ready == [pc |-> "ready", op |-> "edit", doc |-> NoDoc, new |-> NoContent,
          old |-> {}, version |-> 0, was |-> [c \in Contents |-> NoRow],
          linked |-> FALSE, file |-> NoRequest, inserted |-> FALSE,
          todo |-> {}, cur |-> NoContent, dropped |-> {}]
Done == [Ready EXCEPT !.pc = "done"]

Finalizer == [stage: {"none", "queued", "mark", "unlink", "fail"},
              file: Contents \cup {NoContent}]
NoTask == [stage |-> "none", file |-> NoContent]

TypeOK ==
    /\ doc \in [Docs -> [live: BOOLEAN, version: Nat]]
    /\ link \in SUBSET (Docs \X Contents)
    /\ row \in [Contents -> FileRow]
    /\ object \in SUBSET Contents
    /\ temp \in SUBSET Requests
    /\ req \in [Requests -> Request]
    /\ fin \in [Requests -> Finalizer]
    /\ setting \in Setting

\* Documents without files, as create_manual_post makes them.
Init ==
    /\ doc = [d \in Docs |-> [live |-> TRUE, version |-> 1]]
    /\ link = {}
    /\ row = [c \in Contents |-> NoRow]
    /\ object = {}
    /\ temp = {}
    /\ req = [r \in Requests |-> Ready]
    /\ fin = [r \in Requests |-> NoTask]
    /\ setting \in Settings

-----------------------------------------------------------------------------
(* Locks: a flushed statement holds its locks until the request ends.      *)

At(r, pc) == req[r].pc = pc
Active(r) == req[r].pc \notin {"ready", "done"}
Flushed(r) == /\ req[r].pc \in {"cleanup", "drop", "commit"}
              /\ req[r].op = "delete" \/ req[r].old # {}

\* Whom the next statement of r waits for. A flushed link shares its files row
\* (SharesRow), which then cannot be deleted; a deleted row cannot be linked.
SharesRow(s, c) == Flushed(s) /\ req[s].op = "replace" /\ req[s].new = c

WaitsFor(r) ==
    {s \in Requests \ {r} :
       \/ /\ At(r, "insert")
          /\ \/ req[r].new \in req[s].dropped
             \/ req[s].inserted /\ req[s].new = req[r].new
       \/ /\ At(r, "flush")
          /\ \/ req[r].new \in req[s].dropped
             \/ /\ Flushed(s) /\ req[s].doc = req[r].doc
                /\ \/ "delete" \in {req[r].op, req[s].op}
                   \/ req[r].old \cap req[s].old # {}
       \/ /\ At(r, "drop")
          /\ SharesRow(s, req[r].cur) \/ req[r].cur \in req[s].dropped
       \/ /\ At(r, "commit") /\ req[r].op # "delete"
          /\ \/ req[r].op = "add" /\ req[r].new \in req[s].dropped
             \/ Flushed(s) /\ req[s].op = "delete" /\ req[s].doc = req[r].doc}

Runs(r, pc) == At(r, pc) /\ WaitsFor(r) = {}

LinksOf(d) == {c \in Contents : <<d, c>> \in link}
RowIs(c, upload) == row[c] # NoRow /\ row[c].by = upload

Step(r, fields) == req' = [req EXCEPT ![r] = fields]
End(r) == Step(r, Done)

\* The transaction is rolled back and the call answers 500. Nothing undoes what
\* it did to the object store or to the temp directory.
Abort(r) == End(r)

-----------------------------------------------------------------------------
(* A request reads its document, the links and the file rows it will clean. *)

Begin(r, op, d, old, new) ==
    /\ At(r, "ready")
    /\ \A s \in 1 .. r - 1 : ~At(s, "ready")
    /\ op \in setting.ops /\ r <= setting.calls
    /\ Cardinality({s \in Requests : Active(s)}) < setting.active
    /\ doc[d].live
    /\ Step(r, [Ready EXCEPT
                  !.pc = CASE op \in {"add", "replace"} -> "lookup"
                           [] op \in {"detach", "delete"} -> "flush"
                           [] op = "edit" -> "commit",
                  !.op = op, !.doc = d, !.old = old, !.todo = old, !.new = new,
                  !.version = doc[d].version, !.was = row,
                  !.linked = <<d, new>> \in link])
    /\ UNCHANGED <<tables, object, temp, fin, setting>>

BeginAdd(r, d, c) == Begin(r, "add", d, {}, c)
BeginReplace(r, d, old, c) ==
    <<d, old>> \in link /\ Begin(r, "replace", d, {old}, c)
BeginDetach(r, d, old) ==
    <<d, old>> \in link /\ Begin(r, "detach", d, {old}, NoContent)
BeginDelete(r, d) == Begin(r, "delete", d, LinksOf(d), NoContent)
BeginEdit(r, d) == Begin(r, "edit", d, {}, NoContent)

-----------------------------------------------------------------------------
(* _store_uploaded_file.                                                   *)

\* With its files row at hand an add has only its commit left, a replace moves
\* the link first. The file the link already has is renamed or left as it is.
Linking(r, upload) ==
    LET q == [req[r] EXCEPT !.file = upload]
        same == /\ q.was[q.new].by = upload
                /\ IF q.op = "add" THEN q.linked ELSE q.old = {q.new}
    IN  IF same
        THEN \/ End(r)
             \/ Step(r, [q EXCEPT !.pc = "commit", !.op = "edit", !.old = {},
                                  !.new = NoContent])
        ELSE Step(r, [q EXCEPT !.pc = IF q.op = "add" THEN "commit" ELSE "flush",
                               !.inserted = upload = r])

\* The row of the same checksum is taken whatever its storage_state.
Lookup(r) ==
    /\ Runs(r, "lookup")
    /\ LET c == req[r].new
       IN  IF row[c] # NoRow
           THEN Linking(r, row[c].by)
           ELSE Step(r, [req[r] EXCEPT !.pc = IF Deferred THEN "insert" ELSE "put"])
    /\ UNCHANGED <<tables, object, temp, fin, setting>>

PutNow(r) ==
    /\ Runs(r, "put")
    /\ \/ /\ object' = object \cup {req[r].new}
          /\ Step(r, [req[r] EXCEPT !.pc = "insert"])
          /\ UNCHANGED setting
       \/ /\ setting.put > 0
          /\ setting' = [setting EXCEPT !.put = @ - 1]
          /\ Abort(r)
          /\ UNCHANGED object
    /\ UNCHANGED <<tables, temp, fin>>

\* The flush of the files row, under the unique index on the checksum.
Insert(r) ==
    /\ Runs(r, "insert")
    /\ IF row[req[r].new] = NoRow
       THEN /\ Linking(r, r)
            /\ temp' = IF Deferred THEN temp \cup {r} ELSE temp
       ELSE Abort(r) /\ UNCHANGED temp
    /\ UNCHANGED <<tables, object, fin, setting>>

-----------------------------------------------------------------------------
(* Flush, clean-up and commit.                                             *)

\* A replace moves a link, which must still be there, to a row that must be too.
Flush(r) ==
    /\ Runs(r, "flush")
    /\ LET q == req[r]
       IN  IF /\ q.op = "replace"
              /\ ~(/\ {q.doc} \X q.old \subseteq link
                   /\ q.inserted \/ RowIs(q.new, q.file))
           THEN Abort(r)
           ELSE Step(r, [q EXCEPT !.pc = IF q.old = {} THEN "commit" ELSE "cleanup"])
    /\ UNCHANGED <<tables, object, temp, fin, setting>>

\* Fault: one other document that links the file does not count.
LinkedElsewhere_OffByOne(r, c) ==
    /\ RowIs(c, req[r].was[c].by)
    /\ Cardinality({d \in Docs : <<d, c>> \in link}) > 2

\* Fault: counts the link whose removal is not flushed.
LinkedElsewhere_Own(r, c) == TRUE

\* linked_count of _cleanup_orphan_file: the links of other documents.
LinkedElsewhere(r, c) ==
    /\ RowIs(c, req[r].was[c].by)
    /\ \E d \in Docs \ {req[r].doc} : <<d, c>> \in link

AfterFile(q, c) ==
    [q EXCEPT !.todo = @ \ {c}, !.cur = NoContent,
              !.pc = IF q.todo = {c} THEN "commit" ELSE "cleanup"]

\* Fault: the object is left where it is.
Cleanup_KeepsObject(r, c) ==
    /\ Runs(r, "cleanup")
    /\ c \in req[r].todo
    /\ IF LinkedElsewhere(r, c)
       THEN Step(r, AfterFile(req[r], c))
       ELSE Step(r, [req[r] EXCEPT !.pc = "drop", !.cur = c])
    /\ UNCHANGED <<tables, object, temp, fin, setting>>

\* Fault: a file that stays linked is looked at again.
Cleanup_Again(r, c) ==
    /\ Runs(r, "cleanup")
    /\ c \in req[r].todo
    /\ ~LinkedElsewhere(r, c)
    /\ Step(r, [req[r] EXCEPT !.pc = "drop", !.cur = c])
    /\ object' = object \ {c}
    /\ UNCHANGED <<tables, temp, fin, setting>>

\* _cleanup_orphan_file up to the delete of the row: the temp file goes first,
\* then the object, unless the row was pending when the request read it.
Cleanup(r, c) ==
    /\ Runs(r, "cleanup")
    /\ c \in req[r].todo
    /\ LET q == req[r]
           state == q.was[c].state
           RemoveTemp == temp' = IF state = "stored" THEN temp
                                 ELSE temp \ {q.was[c].by}
       IN  \/ /\ LinkedElsewhere(r, c)
              /\ Step(r, AfterFile(q, c))
              /\ UNCHANGED <<object, temp, setting>>
           \/ /\ ~LinkedElsewhere(r, c)
              /\ RemoveTemp
              /\ object' = IF state = "pending" THEN object ELSE object \ {c}
              /\ Step(r, [q EXCEPT !.pc = "drop", !.cur = c])
              /\ UNCHANGED setting
           \/ /\ ~LinkedElsewhere(r, c)
              /\ state # "pending"
              /\ setting.remove > 0
              /\ setting' = [setting EXCEPT !.remove = @ - 1]
              /\ RemoveTemp
              /\ Abort(r)
              /\ UNCHANGED object
    /\ UNCHANGED <<tables, fin>>

\* Fault: the foreign key does not restrict the delete.
DropRow_NoRestrict(r) ==
    /\ Runs(r, "drop")
    /\ LET q == req[r]
       IN  Step(r, [AfterFile(q, q.cur) EXCEPT
                      !.dropped = IF RowIs(q.cur, q.was[q.cur].by)
                                  THEN @ \cup {q.cur} ELSE @])
    /\ UNCHANGED <<tables, object, temp, fin, setting>>

\* The flush of the delete: document_files.file_id is ON DELETE RESTRICT. A row
\* another request has deleted by now is no error.
DropRow(r) ==
    /\ Runs(r, "drop")
    /\ LET q == req[r]
           next == AfterFile(q, q.cur)
       IN  IF LinkedElsewhere(r, q.cur)
           THEN Abort(r)
           ELSE IF RowIs(q.cur, q.was[q.cur].by)
           THEN Step(r, [next EXCEPT !.dropped = @ \cup {q.cur}])
           ELSE Step(r, next)
    /\ UNCHANGED <<tables, object, temp, fin, setting>>

\* What the last flush of the transaction checks: the unique version number and
\* the foreign keys of a new link.
Commits(r) ==
    LET q == req[r]
    IN  \/ q.op = "delete"
        \/ /\ doc[q.doc] = [live |-> TRUE, version |-> q.version]
           /\ q.op = "add" => q.inserted \/ RowIs(q.new, q.file)

Committed(r) ==
    LET q == req[r]
        gone == {q.doc} \X (IF q.op = "delete" THEN Contents ELSE q.old)
        made == {q.doc} \X ({q.new} \ {NoContent})
    IN  /\ doc' = IF q.op = "delete" THEN [doc EXCEPT ![q.doc].live = FALSE]
                                     ELSE [doc EXCEPT ![q.doc].version = @ + 1]
        /\ link' = (link \ gone) \cup made
        /\ row' = [c \in Contents |->
                     IF c \in q.dropped THEN NoRow
                     ELSE IF q.inserted /\ c = q.new
                     THEN [state |-> IF Deferred THEN "pending" ELSE "stored",
                           by |-> r]
                     ELSE row[c]]

\* Fault: the task is queued only for a replace.
Commit_NotQueued(r) ==
    /\ Runs(r, "commit")
    /\ IF Commits(r) THEN Committed(r) ELSE UNCHANGED tables
    /\ fin' = IF Commits(r) /\ req[r].inserted /\ req[r].op = "replace"
              THEN [fin EXCEPT ![r] = [stage |-> "queued", file |-> req[r].new]]
              ELSE fin
    /\ End(r)
    /\ UNCHANGED <<object, temp, setting>>

\* The response is sent after the commit, and its background task runs then.
Commit(r) ==
    /\ Runs(r, "commit")
    /\ \/ /\ Commits(r)
          /\ Committed(r)
          /\ fin' = IF Deferred /\ req[r].inserted
                    THEN [fin EXCEPT ![r] = [stage |-> "queued",
                                             file |-> req[r].new]]
                    ELSE fin
          /\ End(r)
       \/ /\ ~Commits(r)
          /\ Abort(r)
          /\ UNCHANGED <<tables, fin>>
    /\ UNCHANGED <<object, temp, setting>>

\* PostgreSQL ends one of the transactions that wait for each other.
DeadlockVictim(r) ==
    /\ \E s \in WaitsFor(r) :
          r \in WaitsFor(s) \cup UNION {WaitsFor(t) : t \in WaitsFor(s)}
    /\ Abort(r)
    /\ UNCHANGED <<tables, object, temp, fin, setting>>

-----------------------------------------------------------------------------
(* _finalize_minio_upload, and the death of the API process.               *)

InStage(r, stage) == fin[r].stage = stage
RowLocked(c) == \E s \in Requests : c \in req[s].dropped

FinPut(r) ==
    /\ InStage(r, "queued")
    /\ \/ /\ r \in temp
          /\ object' = object \cup {fin[r].file}
          /\ fin' = [fin EXCEPT ![r].stage = "mark"]
          /\ UNCHANGED setting
       \/ /\ r \notin temp
          /\ fin' = [fin EXCEPT ![r].stage = "fail"]
          /\ UNCHANGED <<object, setting>>
       \/ /\ r \in temp
          /\ setting.put > 0
          /\ setting' = [setting EXCEPT !.put = @ - 1]
          /\ fin' = [fin EXCEPT ![r].stage = "fail"]
          /\ UNCHANGED object
    /\ UNCHANGED <<tables, temp, req>>

SetStorageState(r, state) ==
    LET c == fin[r].file
    IN  row' = IF RowIs(c, r) THEN [row EXCEPT ![c].state = state] ELSE row

\* The row is looked up by its id: one that was deleted is left alone.
FinMark(r) ==
    /\ InStage(r, "mark")
    /\ ~RowLocked(fin[r].file)
    /\ SetStorageState(r, "stored")
    /\ fin' = [fin EXCEPT ![r].stage = "unlink"]
    /\ UNCHANGED <<doc, link, object, temp, req, setting>>

FinUnlink(r) ==
    /\ InStage(r, "unlink")
    /\ temp' = temp \ {r}
    /\ fin' = [fin EXCEPT ![r] = NoTask]
    /\ UNCHANGED <<tables, object, req, setting>>

FinFail(r) ==
    /\ InStage(r, "fail")
    /\ ~RowLocked(fin[r].file)
    /\ SetStorageState(r, "failed")
    /\ fin' = [fin EXCEPT ![r] = NoTask]
    /\ UNCHANGED <<doc, link, object, temp, req, setting>>

\* Requests roll back and queued tasks are forgotten; the temp directory goes
\* with its container.
Crash ==
    /\ setting.crash > 0
    /\ setting' = [setting EXCEPT !.crash = @ - 1]
    /\ req' = [r \in Requests |-> IF Active(r) THEN Done ELSE req[r]]
    /\ fin' = [r \in Requests |-> NoTask]
    /\ temp' \in {temp, {}}
    /\ UNCHANGED <<tables, object>>

-----------------------------------------------------------------------------
Call(r) ==
    \/ \E d \in Docs, c \in Contents :
          BeginAdd(r, d, c) \/ BeginDetach(r, d, c)
    \/ \E d \in Docs, old, c \in Contents : BeginReplace(r, d, old, c)
    \/ \E d \in Docs : BeginDelete(r, d) \/ BeginEdit(r, d)

RequestStep(r) ==
    \/ Lookup(r) \/ PutNow(r) \/ Insert(r) \/ Flush(r)
    \/ \E c \in Contents : Cleanup(r, c)
    \/ DropRow(r) \/ Commit(r) \/ DeadlockVictim(r)

FinalizerStep(r) == FinPut(r) \/ FinMark(r) \/ FinUnlink(r) \/ FinFail(r)

Next ==
    \/ \E r \in Requests : Call(r) \/ RequestStep(r) \/ FinalizerStep(r)
    \/ Crash

\* A request that has begun runs to its end, and a background task that was
\* queued runs, as long as the process lives.
Fairness ==
    \A r \in Requests : WF_vars(RequestStep(r)) /\ WF_vars(FinalizerStep(r))

Spec == Init /\ [][Next]_vars
FairSpec == Spec /\ Fairness

-----------------------------------------------------------------------------
(* Properties.                                                             *)

\* What the download endpoint finds for a files row.
Readable(c) ==
    /\ row[c] # NoRow
    /\ IF row[c].state = "stored" THEN c \in object ELSE row[c].by \in temp

\* Calls that come one after another, or that only add files and edit, with no
\* removal that fails and no death of the process.
Harmless ==
    /\ setting.active = 1 \/ setting.ops \subseteq {"add", "edit"}
    /\ ~setting.lossy

\* Every file a document links can be downloaded, from the object store or from
\* the temp file of its upload, unless a request in progress is removing that
\* very link.
LinkedReadable ==
    \A d \in Docs : \A c \in LinksOf(d) :
        \/ Readable(c)
        \/ \E r \in Requests : Flushed(r) /\ req[r].doc = d /\ c \in req[r].old

\* Harmless calls lose no attachment, in whatever order the background uploads
\* of earlier ones, their failures and the reuse of their rows fall.
AttachmentsKept == Harmless => LinkedReadable

\* A link names a document and a files row that are there, whatever requests,
\* locks, rollbacks and crashes do: the row a request deletes may be one that
\* another is linking.
ReferencesHold ==
    \A d \in Docs : \A c \in LinksOf(d) : doc[d].live /\ row[c] # NoRow

\* Nothing is left behind. After harmless calls no files row outlives its last
\* document link (the reference counting of _cleanup_orphan_file). With calls one
\* after another a temp file is that of a request or background task in progress,
\* or its row is not stored yet; and on disk an object without a row belongs to a
\* request about to write that row.
NothingLeaks ==
    Harmless =>
        /\ \A c \in Contents : row[c] # NoRow => \E d \in Docs : <<d, c>> \in link
        /\ setting.active = 1 =>
             /\ \A u \in temp :
                  \/ Active(u) \/ fin[u] # NoTask
                  \/ \E c \in Contents : RowIs(c, u) /\ row[c].state # "stored"
             /\ ~Deferred =>
                  \A c \in object :
                      \/ row[c] # NoRow
                      \/ \E r \in Requests : Active(r) /\ req[r].new = c

\* Uploads and requests settle. A files row does not stay pending: the background
\* task decides it, also when its document is deleted or its row reused meanwhile,
\* if the process lives. Every request ends, whatever locks it meets.
UploadSettles ==
    /\ \A c \in Contents :
         row[c].state = "pending" ~> row[c].state # "pending" \/ setting.lossy
    /\ \A r \in Requests : Active(r) ~> ~Active(r)
=============================================================================
