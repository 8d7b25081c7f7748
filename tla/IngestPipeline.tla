--------------------------- MODULE IngestPipeline ---------------------------
(***************************************************************************)
(* The ingest pipeline: an upload is accepted as an ingest_jobs row, a     *)
(* Celery message names that row, and a worker carries it from RECEIVED to *)
(* PUBLISHED, NEEDS_REVIEW or FAILED, with retries and a dead letter.      *)
(*                                                                         *)
(* One step of a worker is what it does between two commits of its         *)
(* database session (or up to its next effect outside the database), so    *)
(* every interleaving of two workers, of the admin endpoints and of a      *)
(* crash that the code allows is a behaviour of this module.               *)
(*   job      ingest_jobs, with the temp file each row names               *)
(*   fileRow  files, by checksum (unique index on checksum_sha256)         *)
(*   object   the objects in MinIO or on disk, keyed by checksum           *)
(*   tag      tags, by slug (unique index)                                 *)
(*   doc      documents with their file link and first version             *)
(*   sending  API handlers that committed and have yet to call .delay()    *)
(*   ready    messages of the ingest queue, by job                         *)
(*   wk       the worker processes                                         *)
(*   used     how many uploads, faults and operator calls there have been  *)
(***************************************************************************)
EXTENDS Naturals, FiniteSets, Sequences

CONSTANTS
    Jobs, Docs, Contents, Tags, Workers,
    NoJob, NoDoc, NoContent, NoTag,
    MaxAttempts,    \* ingest_jobs.max_attempts
    ForceFlags,     \* the values of "force" that operators requeue with
    Limits          \* bounds: what a behaviour may have of each kind of Events

ASSUME NullsAssumption ==
    /\ NoJob \notin Jobs
    /\ NoDoc \notin Docs
    /\ NoContent \notin Contents
    /\ NoTag \notin Tags

\* What happens to the pipeline from outside: uploads accepted, workers killed
\* or timed out, pool children killed, publishes refused, temp files lost, calls
\* of operators, documents deleted.
Events == {"uploads", "kills", "children", "lost", "temps", "operator",
           "deletes"}

ASSUME BoundsAssumption ==
    MaxAttempts \in Nat /\ Limits \subseteq [Events -> Nat]

ASSUME ForceAssumption == ForceFlags \subseteq BOOLEAN

VARIABLES job, fileRow, object, tag, doc, sending, ready, wk, used

vars == <<job, fileRow, object, tag, doc, sending, ready, wk, used>>
broker == <<sending, ready>>
content == <<fileRow, object, tag, doc>>

-----------------------------------------------------------------------------
(* Rows and process records.                                               *)

IngestState == {"RECEIVED", "STORED", "EXTRACTED", "CLASSIFIED", "INDEXED",
                "PUBLISHED", "FAILED", "NEEDS_REVIEW"}
TerminalStates == {"PUBLISHED", "NEEDS_REVIEW", "FAILED"}
SuccessStates == {"INDEXED", "PUBLISHED", "NEEDS_REVIEW"}

\* The code a stage records; STORAGE_WRITE_FAIL stands for STORAGE_READ_FAIL too.
ErrorCode == {"STORAGE_TEMP_FILE_MISSING", "STORAGE_WRITE_FAIL",
              "CAPTION_PARSE_FAIL", "RULE_CLASSIFY_FAIL", "DB_WRITE_FAIL",
              "PIPELINE_UNEXPECTED", "DLQ_MAX_ATTEMPTS"}

JobRow == [state: IngestState \cup {"none"}, attempts: Nat,
           doc: Docs \cup {NoDoc}, retry: BOOLEAN, finished: BOOLEAN,
           error: ErrorCode \cup {"none"}, temp: Contents \cup {NoContent}]

NoRow == [state |-> "none", attempts |-> 0, doc |-> NoDoc, retry |-> FALSE,
          finished |-> FALSE, error |-> "none", temp |-> NoContent]

DocRow == [life: {"free", "live", "deleted"}, by: Jobs \cup {NoJob},
           file: Contents \cup {NoContent}, version: BOOLEAN, dup: BOOLEAN]

FreeDoc == [life |-> "free", by |-> NoJob, file |-> NoContent,
            version |-> FALSE, dup |-> FALSE]

Pc == {"idle", "load", "begin", "read", "put", "insert", "stored", "extract",
       "classify", "create", "tags", "newtag", "attach", "index", "finish",
       "return", "fail", "failed", "decide", "retry", "publish", "dead"}

Process == [pc: Pc, job: Jobs \cup {NoJob}, held: BOOLEAN, again: BOOLEAN,
            seen: Nat, file: Contents \cup {NoContent}, dup: BOOLEAN,
            review: BOOLEAN, todo: SUBSET Tags, cur: Tags \cup {NoTag},
            pending: BOOLEAN, doc: Docs \cup {NoDoc},
            error: ErrorCode \cup {"none"}]

Idle == [pc |-> "idle", job |-> NoJob, held |-> FALSE, again |-> FALSE,
         seen |-> 0, file |-> NoContent, dup |-> FALSE, review |-> FALSE,
         todo |-> {}, cur |-> NoTag, pending |-> FALSE, doc |-> NoDoc,
         error |-> "none"]

TypeOK ==
    /\ job \in [Jobs -> JobRow]
    /\ fileRow \in SUBSET Contents
    /\ object \in SUBSET Contents
    /\ tag \in SUBSET Tags
    /\ doc \in [Docs -> DocRow]
    /\ sending \in [Jobs -> Nat]
    /\ ready \in [Jobs -> Nat]
    /\ wk \in [Workers -> Process]
    /\ \A w \in Workers : wk[w].pc # "idle" => wk[w].job \in Jobs
    /\ used \in [Events -> Nat]

Init ==
    /\ job = [j \in Jobs |-> NoRow]
    /\ fileRow = {}
    /\ object = {}
    /\ tag = {}
    /\ doc = [d \in Docs |-> FreeDoc]
    /\ sending = [j \in Jobs |-> 0]
    /\ ready = [j \in Jobs |-> 0]
    /\ wk = [w \in Workers |-> Idle]
    /\ used = [k \in Events |-> 0]

-----------------------------------------------------------------------------
(* Helpers.                                                                *)

\* One more event of a kind, within one of the bounds.
Count(kind) ==
    /\ used' = [used EXCEPT ![kind] = @ + 1]
    /\ \E limit \in Limits : \A k \in Events : used'[k] <= limit[k]

At(w, pc) == wk[w].pc = pc
Goto(w, pc) == wk' = [wk EXCEPT ![w].pc = pc]
LeaveTask(w) == wk' = [wk EXCEPT ![w] = Idle]   \* the message is acknowledged
JobOf(w) == job[wk[w].job]

SetState(j, state) ==
    job' = [job EXCEPT ![j].state = state,
                       ![j].finished = @ \/ state \in TerminalStates]

\* An exception the session survives: _fail_job runs next.
Raise(w, code) ==
    wk' = [wk EXCEPT ![w].pc = "fail", ![w].error = code]

\* An IntegrityError out of a flush. The session is left needing a rollback
\* that nobody calls: the commit in _fail_job raises, then so does _load_job in
\* the task's own handler. The task ends, its message is acknowledged and the
\* job row keeps the state it had.
FlushFails(w) == LeaveTask(w)

\* What happens when a row the run depends on was deleted under it: the next
\* attribute access finds no row (and raises code), or the delete lands after
\* that access and the flush breaks the foreign key.
RowGone(w, code) == Raise(w, code) \/ FlushFails(w)

\* Fault: counts as linked only what more than one document links.
IsLinked_OffByOne(c) ==
    Cardinality({d \in Docs : doc[d].life = "live" /\ doc[d].file = c}) > 1

IsLinked(c) == \E d \in Docs : doc[d].life = "live" /\ doc[d].file = c
DocIsLive(w) == doc[wk[w].doc].life = "live"
LinkIsSound(w) == wk[w].pending => DocIsLive(w) /\ wk[w].file \in fileRow

\* Fault: the link is written only by the commit of a new tag.
Linked_Dropped(w) ==
    IF wk[w].pending /\ At(w, "newtag") THEN wk[w].file
                                        ELSE doc[wk[w].doc].file

\* The document row after a flush of the pending document_files row.
Linked(w) == IF wk[w].pending THEN wk[w].file ELSE doc[wk[w].doc].file

\* Fault: gives up one attempt early.
should_retry_OffByOne(attempts) == attempts + 1 < MaxAttempts

should_retry(attempts) == attempts < MaxAttempts

-----------------------------------------------------------------------------
(* The upload endpoint.                                                    *)

\* The row is committed before the message is published.
Accept(j, c) ==
    /\ job[j].state = "none"
    /\ job' = [job EXCEPT ![j] = [NoRow EXCEPT !.state = "RECEIVED", !.temp = c]]
    /\ sending' = [sending EXCEPT ![j] = @ + 1]
    /\ Count("uploads")
    /\ UNCHANGED <<content, ready, wk>>

\* Fault: publishes from a handler that committed nothing.
Publish_NoCommit(j) ==
    /\ job[j].state # "none"
    /\ ready[j] = 0
    /\ sending' = [sending EXCEPT ![j] = @ - 1]
    /\ ready' = [ready EXCEPT ![j] = @ + 1]
    /\ UNCHANGED <<job, content, wk, used>>

Publish(j) ==
    /\ sending[j] > 0
    /\ sending' = [sending EXCEPT ![j] = @ - 1]
    /\ ready' = [ready EXCEPT ![j] = @ + 1]
    /\ UNCHANGED <<job, content, wk, used>>

\* The broker refuses the publish, or the API process dies before it.
PublishLost(j) ==
    /\ sending[j] > 0
    /\ sending' = [sending EXCEPT ![j] = @ - 1]
    /\ Count("lost")
    /\ UNCHANGED <<job, content, ready, wk>>

-----------------------------------------------------------------------------
(* process_ingest_job: one action per commit.                              *)

\* Fault: the message stays in the queue while it is processed.
Take_NotRemoved(w, j) ==
    /\ At(w, "idle")
    /\ ready[j] > 0
    /\ wk' = [wk EXCEPT ![w] = [Idle EXCEPT !.pc = "load", !.job = j,
                                            !.held = TRUE]]
    /\ UNCHANGED <<job, content, ready, sending, used>>

Take(w, j) ==
    /\ At(w, "idle")
    /\ ready[j] > 0
    /\ ready' = [ready EXCEPT ![j] = @ - 1]
    /\ wk' = [wk EXCEPT ![w] = [Idle EXCEPT !.pc = "load", !.job = j,
                                            !.held = TRUE]]
    /\ UNCHANGED <<job, content, sending, used>>

Load(w) ==
    /\ At(w, "load")
    /\ wk' = [wk EXCEPT ![w].pc = "begin", ![w].seen = JobOf(w).attempts]
    /\ UNCHANGED <<job, content, broker, used>>

\* Fault: the attempt is not counted.
Begin_NotCounted(w) ==
    /\ At(w, "begin")
    /\ job' = [job EXCEPT ![wk[w].job].retry = FALSE]
    /\ wk' = [wk EXCEPT ![w].pc = "read", ![w].seen = 0]
    /\ UNCHANGED <<content, broker, used>>

Begin(w) ==
    /\ At(w, "begin")
    /\ job' = [job EXCEPT ![wk[w].job].attempts = wk[w].seen + 1,
                          ![wk[w].job].retry = FALSE]
    /\ wk' = [wk EXCEPT ![w].pc = "read", ![w].seen = 0]
    /\ UNCHANGED <<content, broker, used>>

\* _store_file up to its lookup by checksum.
ReadTempFile(w) ==
    /\ At(w, "read")
    /\ LET c == JobOf(w).temp
       IN  \/ /\ c = NoContent
              /\ Raise(w, "STORAGE_TEMP_FILE_MISSING")
           \/ /\ c \in fileRow
              /\ wk' = [wk EXCEPT ![w].pc = "stored", ![w].file = c,
                                  ![w].dup = IsLinked(c)]
           \/ /\ c \in Contents \ fileRow
              /\ wk' = [wk EXCEPT ![w].pc = "put", ![w].file = c]
    /\ UNCHANGED <<job, content, broker, used>>

\* Fault: a failed write is not noticed.
PutObject_Unchecked(w) ==
    /\ At(w, "put")
    /\ object' \in {object, object \cup {wk[w].file}}
    /\ Goto(w, "insert")
    /\ UNCHANGED <<job, fileRow, tag, doc, broker, used>>

PutObject(w) ==
    /\ At(w, "put")
    /\ \/ object' = object \cup {wk[w].file} /\ Goto(w, "insert")
       \/ Raise(w, "STORAGE_WRITE_FAIL") /\ UNCHANGED object
    /\ UNCHANGED <<job, fileRow, tag, doc, broker, used>>

InsertFileRow(w) ==
    /\ At(w, "insert")
    /\ \/ /\ wk[w].file \notin fileRow
          /\ fileRow' = fileRow \cup {wk[w].file}
          /\ Goto(w, "stored")
       \/ /\ wk[w].file \in fileRow
          /\ FlushFails(w)
          /\ UNCHANGED fileRow
    /\ UNCHANGED <<job, object, tag, doc, broker, used>>

SetStored(w) ==
    /\ At(w, "stored")
    /\ SetState(wk[w].job, "STORED")
    /\ Goto(w, "extract")
    /\ UNCHANGED <<content, broker, used>>

\* Caption, summary and body text; only the caption can fail the run.
Extract(w) ==
    /\ At(w, "extract")
    /\ \/ SetState(wk[w].job, "EXTRACTED") /\ Goto(w, "classify")
       \/ Raise(w, "CAPTION_PARSE_FAIL") /\ UNCHANGED job
    /\ UNCHANGED <<content, broker, used>>

\* The rules choose the review reasons and the tags.
Classify(w) ==
    /\ At(w, "classify")
    /\ \/ \E review \in BOOLEAN, names \in SUBSET Tags :
             /\ SetState(wk[w].job, "CLASSIFIED")
             /\ wk' = [wk EXCEPT ![w].pc = "create", ![w].todo = names,
                                 ![w].review = review \/ wk[w].dup]
       \/ Raise(w, "RULE_CLASSIFY_FAIL") /\ UNCHANGED job
    /\ UNCHANGED <<content, broker, used>>

\* The documents row is committed first; the file link is only added to the
\* session (pending) and is written by the next commit, whichever that is.
CreateDocument(w, d) ==
    /\ At(w, "create")
    /\ doc[d].life = "free"
    /\ doc' = [doc EXCEPT ![d] = [FreeDoc EXCEPT !.life = "live",
                                                 !.by = wk[w].job,
                                                 !.dup = wk[w].dup]]
    /\ wk' = [wk EXCEPT ![w].pc = "tags", ![w].doc = d, ![w].pending = TRUE,
                        ![w].dup = FALSE]
    /\ UNCHANGED <<job, fileRow, object, tag, broker, used>>

LookupTag(w, t) ==
    /\ At(w, "tags")
    /\ t \in wk[w].todo
    /\ IF t \in tag
       THEN wk' = [wk EXCEPT ![w].todo = @ \ {t}]
       ELSE wk' = [wk EXCEPT ![w].pc = "newtag", ![w].cur = t]
    /\ UNCHANGED <<job, content, broker, used>>

\* _upsert_tags commits inside _create_document's transaction. When that commit
\* fails, the IntegrityError is caught and the rollback discards whatever was
\* pending with the tag.
InsertTag(w) ==
    /\ At(w, "newtag")
    /\ wk' = [wk EXCEPT ![w].pc = "tags", ![w].todo = @ \ {wk[w].cur},
                        ![w].cur = NoTag, ![w].pending = FALSE]
    /\ \/ /\ wk[w].cur \notin tag
          /\ LinkIsSound(w)
          /\ tag' = tag \cup {wk[w].cur}
          /\ doc' = [doc EXCEPT ![wk[w].doc].file = Linked(w)]
       \/ /\ wk[w].cur \in tag \/ ~LinkIsSound(w)
          /\ UNCHANGED <<tag, doc>>
    /\ UNCHANGED <<job, fileRow, object, broker, used>>

\* The commit that ends _create_document.
WriteVersion(w) ==
    /\ At(w, "tags")
    /\ wk[w].todo = {}
    /\ \/ /\ DocIsLive(w)
          /\ LinkIsSound(w)
          /\ doc' = [doc EXCEPT ![wk[w].doc].file = Linked(w),
                                ![wk[w].doc].version = TRUE]
          /\ wk' = [wk EXCEPT ![w].pc = "attach", ![w].pending = FALSE]
       \/ /\ ~(DocIsLive(w) /\ LinkIsSound(w))
          /\ RowGone(w, "DB_WRITE_FAIL")
          /\ UNCHANGED doc
    /\ UNCHANGED <<job, fileRow, object, tag, broker, used>>

\* Fault: the job row takes the document before its version is committed.
AttachDocument_Early(w) ==
    /\ \/ /\ At(w, "tags")
          /\ job[wk[w].job].doc # wk[w].doc
          /\ DocIsLive(w)
          /\ job' = [job EXCEPT ![wk[w].job].doc = wk[w].doc]
          /\ UNCHANGED wk
       \/ /\ At(w, "attach")
          /\ Goto(w, "index")
          /\ UNCHANGED job
    /\ UNCHANGED <<content, broker, used>>

\* Fault: the job row never takes the document.
AttachDocument_Forgotten(w) ==
    /\ At(w, "attach")
    /\ Goto(w, "index")
    /\ UNCHANGED <<job, content, broker, used>>

AttachDocument(w) ==
    /\ At(w, "attach")
    /\ \/ /\ DocIsLive(w)
          /\ job' = [job EXCEPT ![wk[w].job].doc = wk[w].doc]
          /\ Goto(w, "index")
       \/ /\ ~DocIsLive(w)
          /\ RowGone(w, "PIPELINE_UNEXPECTED")
          /\ UNCHANGED job
    /\ UNCHANGED <<content, broker, used>>

SetIndexed(w) ==
    /\ At(w, "index")
    /\ \/ SetState(wk[w].job, "INDEXED") /\ Goto(w, "finish")
       \/ ~DocIsLive(w) /\ Raise(w, "PIPELINE_UNEXPECTED") /\ UNCHANGED job
    /\ UNCHANGED <<content, broker, used>>

SetFinished(w) ==
    /\ At(w, "finish")
    /\ \/ /\ SetState(wk[w].job,
                      IF wk[w].review THEN "NEEDS_REVIEW" ELSE "PUBLISHED")
          /\ Goto(w, "return")
       \/ ~DocIsLive(w) /\ Raise(w, "PIPELINE_UNEXPECTED") /\ UNCHANGED job
    /\ UNCHANGED <<content, broker, used>>

\* The result reads doc.id once more, and the task returns.
Return(w) ==
    /\ At(w, "return")
    /\ IF DocIsLive(w) THEN LeaveTask(w) ELSE Raise(w, "PIPELINE_UNEXPECTED")
    /\ UNCHANGED <<job, content, broker, used>>

-----------------------------------------------------------------------------
(* Failure, retry and dead letter.                                         *)

RecordError(w) ==
    /\ At(w, "fail")
    /\ job' = [job EXCEPT ![wk[w].job].error = wk[w].error]
    /\ wk' = [wk EXCEPT ![w] = [Idle EXCEPT !.pc = "failed", !.job = wk[w].job,
                                            !.held = wk[w].held]]
    /\ UNCHANGED <<content, broker, used>>

MarkFailed(w) ==
    /\ At(w, "failed")
    /\ SetState(wk[w].job, "FAILED")
    /\ Goto(w, "decide")
    /\ UNCHANGED <<content, broker, used>>

Decide(w) ==
    /\ At(w, "decide")
    /\ Goto(w, IF should_retry(JobOf(w).attempts) THEN "retry" ELSE "dead")
    /\ UNCHANGED <<job, content, broker, used>>

\* Fault: the row is left FAILED while its retry is published.
ScheduleRetry_StateKept(w) ==
    /\ At(w, "retry")
    /\ job' = [job EXCEPT ![wk[w].job].retry = TRUE]
    /\ Goto(w, "publish")
    /\ UNCHANGED <<content, broker, used>>

\* Fault: retry_after is not set.
ScheduleRetry_NotDated(w) ==
    /\ At(w, "retry")
    /\ job' = [job EXCEPT ![wk[w].job].state = "RECEIVED",
                          ![wk[w].job].finished = FALSE]
    /\ Goto(w, "publish")
    /\ UNCHANGED <<content, broker, used>>

ScheduleRetry(w) ==
    /\ At(w, "retry")
    /\ job' = [job EXCEPT ![wk[w].job].state = "RECEIVED",
                          ![wk[w].job].retry = TRUE,
                          ![wk[w].job].finished = FALSE]
    /\ Goto(w, "publish")
    /\ UNCHANGED <<content, broker, used>>

\* Fault: the task is acknowledged without its retry.
PublishRetry_Forgotten(w) ==
    /\ At(w, "publish")
    /\ LeaveTask(w)
    /\ UNCHANGED <<job, content, broker, used>>

\* self.retry publishes the next delivery, then the task is acknowledged.
PublishRetry(w) ==
    /\ At(w, "publish")
    /\ ready' = [ready EXCEPT ![wk[w].job] = @ + 1]
    /\ LeaveTask(w)
    /\ UNCHANGED <<job, content, sending, used>>

\* self.retry raises Reject. Inside the try it is one more exception, so the
\* handler decides again; raised from the handler it drops the message.
PublishRetryFails(w) ==
    /\ At(w, "publish")
    /\ Count("lost")
    /\ IF wk[w].again
       THEN LeaveTask(w)
       ELSE wk' = [wk EXCEPT ![w].pc = "decide", ![w].again = TRUE]
    /\ UNCHANGED <<job, content, broker>>

\* The generic code replaces only an empty one.
DeadLetter(w) ==
    /\ At(w, "dead")
    /\ job' = [job EXCEPT ![wk[w].job].state = "FAILED",
                          ![wk[w].job].retry = FALSE,
                          ![wk[w].job].error =
                              IF @ = "none" THEN "DLQ_MAX_ATTEMPTS" ELSE @]
    /\ LeaveTask(w)
    /\ UNCHANGED <<content, broker, used>>

-----------------------------------------------------------------------------
(* Celery: late acknowledgement over Redis.                                *)

\* The worker process dies: its unacknowledged message is delivered again.
WorkerKilled(w) ==
    /\ ~At(w, "idle")
    /\ Count("kills")
    /\ IF wk[w].held
       THEN ready' = [ready EXCEPT ![wk[w].job] = @ + 1]
       ELSE UNCHANGED ready
    /\ LeaveTask(w)
    /\ UNCHANGED <<job, content, sending>>

\* Only the pool child dies: its parent acknowledges the message as failed.
ChildKilled(w) ==
    /\ ~At(w, "idle")
    /\ Count("children")
    /\ LeaveTask(w)
    /\ UNCHANGED <<job, content, broker>>

\* The visibility timeout passes while the task is still running.
Redeliver(w) ==
    /\ ~At(w, "idle")
    /\ wk[w].held
    /\ Count("kills")
    /\ ready' = [ready EXCEPT ![wk[w].job] = @ + 1]
    /\ wk' = [wk EXCEPT ![w].held = FALSE]
    /\ UNCHANGED <<job, content, sending>>

-----------------------------------------------------------------------------
(* Operators, editors and the environment.                                 *)

Received(row, reset, clear) ==
    [row EXCEPT !.state = "RECEIVED", !.retry = FALSE, !.finished = FALSE,
                !.attempts = IF reset THEN 0 ELSE @,
                !.error = IF clear THEN "none" ELSE @]

Requeue(j, force, reset, clear) ==
    /\ job[j].state # "none"
    /\ force \/ job[j].doc = NoDoc
    /\ force \/ job[j].state \notin {"PUBLISHED", "INDEXED", "CLASSIFIED",
                                     "EXTRACTED", "STORED"}
    /\ Count("operator")
    /\ job' = [job EXCEPT ![j] = Received(@, reset, clear)]
    /\ sending' = [sending EXCEPT ![j] = @ + 1]
    /\ UNCHANGED <<content, ready, wk>>

\* recover-upload replaces the temp file; it looks at no state of the job.
RecoverUpload(j, c, reset, clear) ==
    /\ job[j].state # "none"
    /\ Count("operator")
    /\ job' = [job EXCEPT ![j] = [Received(@, reset, clear) EXCEPT !.temp = c]]
    /\ sending' = [sending EXCEPT ![j] = @ + 1]
    /\ UNCHANGED <<content, ready, wk>>

\* scripts/reprocess_job.py publishes and touches no row.
Reprocess(j) ==
    /\ job[j].state # "none"
    /\ Count("operator")
    /\ ready' = [ready EXCEPT ![j] = @ + 1]
    /\ UNCHANGED <<job, content, sending, wk>>

\* delete_document as one transaction: the job forgets the document, the rows
\* cascade, and a file no other document links loses its object and its row.
DeleteDocument(d) ==
    /\ doc[d].life = "live"
    /\ Count("deletes")
    /\ job' = [j \in Jobs |->
                 IF job[j].doc = d THEN [job[j] EXCEPT !.doc = NoDoc] ELSE job[j]]
    /\ doc' = [doc EXCEPT ![d].life = "deleted", ![d].file = NoContent]
    /\ LET orphan == {c \in {doc[d].file} \ {NoContent} :
                        ~\E e \in Docs \ {d} : doc[e].life = "live"
                                            /\ doc[e].file = c}
       IN  /\ object' = object \ orphan
           /\ fileRow' = fileRow \ orphan
    /\ UNCHANGED <<tag, broker, wk>>

\* A temp file disappears from the shared ingest directory.
LoseTempFile(j) ==
    /\ job[j].temp # NoContent
    /\ Count("temps")
    /\ job' = [job EXCEPT ![j].temp = NoContent]
    /\ UNCHANGED <<content, broker, wk>>

-----------------------------------------------------------------------------
PipelineStep(w) ==
    \/ Load(w) \/ Begin(w) \/ ReadTempFile(w) \/ PutObject(w)
    \/ InsertFileRow(w) \/ SetStored(w) \/ Extract(w) \/ Classify(w)
    \/ \E d \in Docs : CreateDocument(w, d)
    \/ \E t \in Tags : LookupTag(w, t)
    \/ InsertTag(w) \/ WriteVersion(w) \/ AttachDocument(w)
    \/ SetIndexed(w) \/ SetFinished(w) \/ Return(w)

FailureStep(w) ==
    \/ RecordError(w) \/ MarkFailed(w) \/ Decide(w) \/ ScheduleRetry(w)
    \/ PublishRetry(w) \/ DeadLetter(w)

WorkerStep(w) == PipelineStep(w) \/ FailureStep(w)

FaultStep(w) ==
    \/ PublishRetryFails(w) \/ WorkerKilled(w) \/ ChildKilled(w) \/ Redeliver(w)

OperatorStep(j) ==
    \/ \E force \in ForceFlags, reset, clear \in BOOLEAN :
          Requeue(j, force, reset, clear)
    \/ \E c \in Contents, reset, clear \in BOOLEAN :
          RecoverUpload(j, c, reset, clear)
    \/ Reprocess(j)

Next ==
    \/ \E w \in Workers : WorkerStep(w) \/ FaultStep(w)
    \/ \E w \in Workers, j \in Jobs : Take(w, j)
    \/ \E j \in Jobs, c \in Contents : Accept(j, c)
    \/ \E j \in Jobs : Publish(j) \/ PublishLost(j) \/ LoseTempFile(j)
    \/ \E j \in Jobs : OperatorStep(j)
    \/ \E d \in Docs : DeleteDocument(d)

\* A running worker process finishes its task and takes the next message, and a
\* request handler that has committed goes on to publish. Nothing obliges a user
\* to upload, an operator to requeue or a fault to happen.
Fairness ==
    /\ \A w \in Workers : WF_vars(WorkerStep(w))
    /\ \A w \in Workers, j \in Jobs : WF_vars(Take(w, j))
    /\ \A j \in Jobs : WF_vars(Publish(j))

Spec == Init /\ [][Next]_vars
FairSpec == Spec /\ Fairness
-----------------------------------------------------------------------------
(* Properties.                                                             *)

Running(j) == \E w \in Workers : wk[w].pc # "idle" /\ wk[w].job = j
Awaited(j) == sending[j] > 0 \/ ready[j] > 0
AtRest(j) == ~Running(j) /\ ~Awaited(j)
DocsOf(j) == {d \in Docs : doc[d].life # "free" /\ doc[d].by = j}

\* No worker was killed or timed out, no operator interfered, nothing was deleted.
Undisturbed == used.kills = 0 /\ used.operator = 0 /\ used.deletes = 0

\* A job that rests is settled. While no publish is refused and no pool child dies,
\* a job that is accepted and not finished is being run, or a message or a request
\* handler is there that will have it run: no commit, retry, failure or redelivery
\* of process_ingest_job_task leaves it waiting for nobody. And one at rest in
\* FAILED has used every attempt: the retry loop neither gives up early nor loses
\* one, unless the pool child that ran it died (with one worker).
NoStrandedJob ==
    \A j \in Jobs : AtRest(j) =>
        /\ used.lost = 0 /\ used.children = 0
             => job[j].state \in TerminalStates \cup {"none"}
        /\ used.children = 0 /\ job[j].state = "FAILED"
             => job[j].attempts >= MaxAttempts

\* Of two live documents that link the same file at least one was flagged
\* DUPLICATE_SUSPECT when it was created (the linked_count test of _store_file),
\* also when a redelivered run repeats its own document (with one worker).
DuplicatesFlagged ==
    \A d, e \in Docs :
        (/\ d # e
         /\ doc[d].life = "live" /\ doc[e].life = "live"
         /\ doc[d].file # NoContent
         /\ doc[d].file = doc[e].file) => doc[d].dup \/ doc[e].dup

\* A job that was reported published or sent to review has a live document
\* linked to a file: _create_document's link survives the tag upserts.
PublishedHasFile ==
    \A j \in Jobs :
        job[j].state \in SuccessStates /\ job[j].doc # NoDoc
            => doc[job[j].doc].file # NoContent

\* ingest_jobs.document_id only names a document that is there, made by this
\* job, with its first version: the link of AttachDocument comes last.
JobDocumentComplete ==
    \A j \in Jobs :
        job[j].doc # NoDoc => /\ doc[job[j].doc].life = "live"
                              /\ doc[job[j].doc].by = j
                              /\ doc[job[j].doc].version

\* A job in a success state has its document, unless an editor deleted one the
\* job had made; whatever reruns, crashes and requeues do.
SuccessHasDocument ==
    \A j \in Jobs :
        job[j].state \in SuccessStates =>
            \/ job[j].doc # NoDoc
            \/ \E d \in DocsOf(j) : doc[d].life = "deleted"

\* While nothing is deleted every files row has its object, which the row's
\* download will read, however the runs of two jobs store one content.
RowHasObject == used.deletes = 0 => fileRow \subseteq object

\* Every accepted job reaches a final state and stays in it, whatever fails and
\* is redelivered, unless the broker refuses a publish or a pool child dies.
EveryJobSettles ==
    \A j \in Jobs :
        job[j].state = "RECEIVED"
            ~> \/ [](job[j].state \in TerminalStates)
               \/ used.lost > 0 \/ used.children > 0
=============================================================================
