--------------------------- MODULE DocumentEdits ---------------------------
(***************************************************************************)
(* Who rewrites a document that is already in the archive: an editor       *)
(* (PATCH /documents/{id}), a reviewer (PATCH /review-queue/{id}) and the   *)
(* rules backfill of the worker.  Each works on the row its session loaded, *)
(* appends a row to document_versions, commits and tells the search index.  *)
(*                                                                         *)
(* Nobody locks the row it loads.  What stands between two of them is the   *)
(* unique index on (document_id, version_no); what breaks their             *)
(* transactions in two are the helpers that commit or roll back the         *)
(* caller's session when they meet a new category or tag.                   *)
(***************************************************************************)
EXTENDS Integers, Sequences, FiniteSets

CONSTANTS
    Docs,          \* document ids, numbered in the order of created_at
    Texts, Cats, Tags, \* titles, categories and tags, by name
    Keep,          \* what a request that leaves a field alone says of it
    Reasons,       \* the review reasons the rules give
    Rule,          \* apply_rules of the version a backfill names, by text
    Editors, Reviewers,   \* sessions of the two endpoints
    Patches, Reviews,     \* the requests they may be sent
    BatchSize,     \* of the backfill payload
    Settings       \* the settings that behaviours start with

ASSUME DocsAssumption == Docs \subseteq Nat /\ IsFiniteSet(Docs)
ASSUME BatchAssumption == BatchSize \in Nat \ {0}
ASSUME RuleAssumption ==
    Rule \in [Texts -> [cat : Cats, tags : SUBSET Tags, reasons : SUBSET Reasons]]

\* Requests of editors and reviewers, backfills triggered, workers killed in one,
\* documents deleted.
Events == {"requests", "backfills", "kills", "deletes"}

\* Where a behaviour starts: the documents there are, the categories and tags
\* that have a row, the requests, whether backfills name review_only; and how
\* many of each kind of Events it may have (limit) and has had (used).
Setting == [docs : SUBSET Docs, cats : SUBSET Cats \ {{}}, tags : SUBSET Tags,
            patches : SUBSET Patches, reviews : SUBSET Reviews,
            reviewOnly : BOOLEAN, limit : [Events -> Nat],
            used : [Events -> Nat]]

ASSUME SettingsAssumption ==
    /\ Settings \subseteq Setting
    /\ \A s \in Settings : \A k \in Events : s.used[k] = 0

Duplicate == "DUPLICATE_SUSPECT"
Status == {"NONE", "NEEDS_REVIEW", "RESOLVED"}
Row == [live : BOOLEAN, text : Texts, cat : Cats,
        reasons : SUBSET (Reasons \cup {Duplicate}), status : Status,
        current : Nat]
Columns == {"text", "cat", "reasons", "status"}

\* The rules give no mark of a suspected duplicate: that is for ingest alone.
ASSUME ReasonsAssumption == Duplicate \notin Reasons

ASSUME RequestsAssumption ==
    /\ Patches \subseteq [text : {Keep} \cup Texts, status : {Keep} \cup Status,
                         cat : {Keep} \cup Cats, tags : {Keep} \cup SUBSET Tags]
    /\ Reviews \subseteq [cat : {Keep} \cup Cats, tags : {Keep} \cup SUBSET Tags,
                         remove : SUBSET (Reasons \cup {Duplicate}), approve : BOOLEAN]
    /\ Patches \cap Reviews = {}
    /\ Keep \notin Texts \cup Status \cup Cats /\ Keep \notin Patches \cup Reviews
    /\ \A ts \in SUBSET Tags : ts # Keep

VARIABLES
    doc,       \* documents
    tags,      \* document_tags, by document
    ver,       \* document_versions, by document and version_no
    names,     \* rows of categories and tags
    ses,       \* database sessions of the requests and of the backfill
    task,      \* the backfill task: queued messages and the loop's variables
    told,      \* what the search index was last told to read, by document
    report,    \* documents the last backfill to finish passed over (history)
    setting

rows == <<doc, tags, ver, names>>
vars == <<rows, ses, task, told, report, setting>>

Backfill == "backfill"
Sessions == Editors \cup Reviewers \cup {Backfill}

ASSUME SessionsAssumption ==
    /\ Editors \cap Reviewers = {}
    /\ Backfill \notin Editors \cup Reviewers

\* What a search task would read of a document now.
Searched(d) == [text |-> doc[d].text, cat |-> doc[d].cat,
                tags |-> tags[d], status |-> doc[d].status]

\* A session: the row as loaded, the row as changed, the tag names it still has
\* to look up, the one it is about to insert, the document_tags it has deleted.
Closed == [pc |-> "closed"]
Session == [pc : {"category", "tags", "lookup", "mint", "store", "commit"},
            doc : Docs, row : Row, pend : Row, plan : Row, before : SUBSET Tags,
            goal : SUBSET Tags, replace : BOOLEAN, want : SUBSET Tags,
            mint : Cats \cup Tags \cup {Keep}, cleared : SUBSET Tags, changed : BOOLEAN,
            req : Patches \cup Reviews \cup {Keep}]

NoLoop == [on |-> FALSE, offset |-> 0, todo |-> {}, loaded |-> {},
           cache |-> <<>>, done |-> {}, seen |-> {}, matched |-> {}]

\* Documents that were never edited, under review or not.
Init ==
    /\ setting \in Settings
    /\ \E c \in setting.cats, t \in [Docs -> Texts],
          s \in [Docs -> {"NONE", "NEEDS_REVIEW"}],
          g \in [Docs -> SUBSET setting.tags],
          r \in SUBSET (Reasons \cup {Duplicate}) \ {{}} :
        /\ \A d \in Docs \ setting.docs :
              s[d] = "NONE" /\ g[d] = {} /\ t[d] = CHOOSE x \in Texts : TRUE
        /\ doc = [d \in Docs |->
               [live |-> d \in setting.docs, text |-> t[d], cat |-> c,
                reasons |-> IF s[d] = "NONE" THEN {} ELSE r, status |-> s[d],
                current |-> 1]]
        /\ tags = g
    /\ ver = [d \in Docs |->
                <<[text |-> doc[d].text, cat |-> doc[d].cat, tags |-> tags[d],
                   by |-> [text |-> Keep, cat |-> Keep, tags |-> Keep]]>>]
    /\ names = [cats |-> setting.cats, tags |-> setting.tags]
    /\ ses = [p \in Sessions |-> Closed]
    /\ task = [queued |-> 0, loop |-> NoLoop]
    /\ told = [d \in Docs |-> Searched(d)]
    /\ report = {}

used == setting.used

\* One more event of a kind, within its bound.
Count(kind) ==
    /\ used[kind] < setting.limit[kind]
    /\ setting' = [setting EXCEPT !.used[kind] = @ + 1]

-----------------------------------------------------------------------------
(* Sessions.                                                               *)

At(p, pc) == ses[p].pc = pc
Goto(p, s) == ses' = [ses EXCEPT ![p] = s]

Load(d, q) ==
    [pc |-> "category", doc |-> d, row |-> doc[d], pend |-> doc[d],
     plan |-> doc[d], before |-> tags[d], goal |-> {}, replace |-> FALSE, want |-> {},
     mint |-> Keep, cleared |-> {}, changed |-> FALSE, req |-> q]

\* After a commit or a rollback every attribute is read again on its next use.
Reload(s) == [s EXCEPT !.row = doc'[s.doc], !.pend = doc'[s.doc],
                       !.mint = Keep, !.cleared = {}]

\* The UPDATE of a flush: the columns that differ from what was loaded.
Flushed(s) ==
    LET d == s.doc IN
    [f \in DOMAIN doc[d] |-> IF f \in Columns /\ s.pend[f] # s.row[f]
                             THEN s.pend[f] ELSE doc[d][f]]

\* Rows of document_tags another open transaction has deleted are locked.
TagRowsFree(p) ==
    \A o \in Sessions \ {p} :
        ~At(o, "closed") /\ ses[o].doc = ses[p].doc => ses[o].cleared = {}

\* What a session's caller asked of the versioned fields (history).
Asked(s) ==
    [text |-> IF s.req \in Patches THEN s.req.text ELSE Keep,
     cat |-> IF s.req = Keep THEN s.plan.cat ELSE s.req.cat,
     tags |-> IF s.req # Keep THEN s.req.tags ELSE IF s.replace THEN s.goal ELSE Keep]

\* Fault: no unique index on (document_id, version_no).
VersionTaken_NotUnique(s) == FALSE

\* uq on (document_id, version_no): the number this session would append.
VersionTaken(s) == Len(ver[s.doc]) >= s.row.current + 1

\* Fault: the row keeps the number it had.
AppendVersion_NotCounted(s, snapshot) ==
    /\ doc' = [doc EXCEPT ![s.doc] = Flushed(s)]
    /\ ver' = [ver EXCEPT ![s.doc] = Append(@,
                 [text |-> s.pend.text, cat |-> s.pend.cat, tags |-> snapshot,
                  by |-> Asked(s)])]

\* The flush of an edit with its document_versions row.
AppendVersion(s, snapshot) ==
    /\ doc' = [doc EXCEPT ![s.doc] =
                 [Flushed(s) EXCEPT !.current = s.row.current + 1]]
    /\ ver' = [ver EXCEPT ![s.doc] = Append(@,
                 [text |-> s.pend.text, cat |-> s.pend.cat, tags |-> snapshot,
                  by |-> Asked(s)])]

\* The commit is followed by the publish of a search task.
Tell(ds) == told' = [d \in Docs |->
                       IF d \in ds
                       THEN [text |-> doc'[d].text, cat |-> doc'[d].cat,
                             tags |-> tags'[d], status |-> doc'[d].status]
                       ELSE told[d]]

Ends(p) ==
    /\ Goto(p, Closed)
    /\ UNCHANGED <<rows, told>>

-----------------------------------------------------------------------------
(* PATCH /documents/{id}: one transaction, unless a new category's insert   *)
(* is refused.                                                             *)

\* Load the row and change the loaded object; look the category up.
PatchLoad(e, d, q) ==
    /\ At(e, "closed") /\ doc[d].live
    /\ Count("requests")
    /\ Goto(e, [Load(d, q) EXCEPT
                  !.pend.text = IF q.text = Keep THEN @ ELSE q.text,
                  !.pend.status = IF q.status = Keep THEN @ ELSE q.status,
                  !.mint = IF q.cat \in names.cats THEN Keep ELSE q.cat])
    /\ UNCHANGED <<rows, task, told, report>>

\* Another request inserted the category first: the rollback of
\* _upsert_category discards the changes made to the row so far.
PatchCategoryTaken(e) ==
    /\ At(e, "category")
    /\ ses[e].mint \in names.cats
    /\ UNCHANGED <<rows, told>>
    /\ Goto(e, IF doc[ses[e].doc].live THEN Reload(ses[e]) ELSE Closed)
    /\ UNCHANGED <<task, report, setting>>


\* Fault: document_tags keep their rows.
PatchCommit_TagsKept(e) ==
    LET s == ses[e]  q == s.req  d == s.doc
        p == [s EXCEPT !.pend.cat = IF q.cat = Keep THEN @ ELSE q.cat]
    IN  /\ At(e, "category")
        /\ IF ~doc[d].live \/ VersionTaken(s)
           THEN Ends(e)
           ELSE /\ AppendVersion(p, IF q.tags = Keep THEN tags[d] ELSE q.tags)
                /\ UNCHANGED <<tags, names>>
                /\ Tell({d})
                /\ Goto(e, Closed)
        /\ UNCHANGED <<task, report, setting>>

\* The rest of the handler, in the one transaction that writes.
PatchCommit(e) ==
    LET s == ses[e]  q == s.req  d == s.doc
        p == [s EXCEPT !.pend.cat = IF q.cat = Keep THEN @ ELSE q.cat]
        newTags == IF q.tags = Keep THEN tags[d] ELSE q.tags
    IN  /\ At(e, "category")
        /\ s.mint = Keep \/ s.mint \notin names.cats
        /\ q.tags # Keep => TagRowsFree(e)
        /\ IF ~doc[d].live \/ VersionTaken(s)
           THEN Ends(e)
           ELSE /\ AppendVersion(p, newTags)
                /\ tags' = [tags EXCEPT ![d] = newTags]
                /\ names' = [cats |-> names.cats \cup ({q.cat} \ {Keep}),
                             tags |-> names.tags \cup newTags]
                /\ Tell({d})
                /\ Goto(e, Closed)
        /\ UNCHANGED <<task, report, setting>>

-----------------------------------------------------------------------------
(* PATCH /review-queue/{id}: taxonomy_service commits when a name is new.    *)

ReviewLoad(r, d, q) ==
    /\ At(r, "closed") /\ doc[d].live
    /\ Count("requests")
    /\ Goto(r, Load(d, q))
    /\ UNCHANGED <<rows, task, told, report>>

\* The reasons a request answers: a category answers CLASSIFY_FAIL.
Answered(q) == q.remove \cup (IF q.cat = Keep THEN {} ELSE {"CLASSIFY_FAIL"})

\* upsert_category, then the changes of category and reasons, in memory.
ReviewCategory(r) ==
    LET s == ses[r]  q == s.req
        new == q.cat # Keep /\ q.cat \notin names.cats
        now == IF new THEN Reload(s) ELSE s
        p == [now.pend EXCEPT !.cat = IF q.cat = Keep THEN @ ELSE q.cat,
                              !.reasons = @ \ Answered(q)]
    IN  /\ At(r, "category")
        /\ names' = [names EXCEPT !.cats = @ \cup ({q.cat} \ {Keep})]
        /\ UNCHANGED <<doc, tags, ver, told, task, report, setting>>
        /\ Goto(r, IF new /\ ~doc[s.doc].live THEN Closed
                   ELSE [now EXCEPT !.pc = "tags", !.pend = p,
                                    !.changed = p # now.pend])

\* replace_document_tags deletes the rows it sees and looks the names up.
ReviewTags(r) ==
    LET s == ses[r]  q == s.req IN
    /\ At(r, "tags")
    /\ IF q.tags = Keep \/ q.tags = s.before
       THEN Goto(r, [s EXCEPT !.pc = "commit"])
       ELSE /\ TagRowsFree(r)
            /\ Goto(r, [s EXCEPT !.pc = "lookup", !.want = q.tags,
                          !.goal = q.tags, !.replace = TRUE, !.changed = TRUE,
                          !.cleared = tags[s.doc]])
    /\ UNCHANGED <<rows, told, task, report, setting>>

\* upsert_tags, name by name; a session of a review or of the backfill.
LookUp(p) ==
    LET s == ses[p]  lacking == s.want \ names.tags IN
    /\ At(p, "lookup")
    /\ IF lacking = {}
       THEN Goto(p, [s EXCEPT !.pc = IF p = Backfill THEN "store" ELSE "commit",
                              !.want = {}])
       ELSE \E t \in lacking :
              Goto(p, [s EXCEPT !.pc = "mint", !.mint = t, !.want = @ \ {t}])
    /\ UNCHANGED <<rows, told, task, report, setting>>

\* Everything loaded in a session expires when it commits.
Expire(p) == IF p = Backfill
             THEN task' = [task EXCEPT !.loop.loaded = {}]
             ELSE UNCHANGED task

\* The insert of a new tag commits all that the session has changed so far:
\* columns of the document and the deleted document_tags, without a version.
Mint(p) ==
    LET s == ses[p]  d == s.doc IN
    /\ At(p, "mint")
    /\ s.mint \notin names.tags
    /\ names' = [names EXCEPT !.tags =
                   IF doc[d].live \/ s.pend = s.row THEN @ \cup {s.mint} ELSE @]
    /\ doc' = [doc EXCEPT ![d] = IF @.live THEN Flushed(s) ELSE @]
    /\ tags' = [tags EXCEPT ![d] = @ \ s.cleared]
    /\ Goto(p, IF doc[d].live THEN [Reload(s) EXCEPT !.pc = "lookup"] ELSE Closed)
    /\ Expire(p)
    /\ UNCHANGED <<ver, told, report, setting>>

\* Somebody else inserted it first: the rollback takes the deleted
\* document_tags back and discards the changes of the row.
MintTaken(p) ==
    LET s == ses[p] IN
    /\ At(p, "mint")
    /\ s.mint \in names.tags
    /\ UNCHANGED <<rows, told, report, setting>>
    /\ Goto(p, IF doc[s.doc].live THEN [Reload(s) EXCEPT !.pc = "lookup"]
                                  ELSE Closed)
    /\ Expire(p)

\* The primary key of document_tags refuses a tag that is still there.
TagTaken(s) == s.replace /\ (tags[s.doc] \ s.cleared) \cap s.goal # {}

StoredTags(s) == IF s.replace THEN (tags[s.doc] \ s.cleared) \cup s.goal
                              ELSE tags[s.doc]

Reviewed(s) ==
    LET left == IF s.req.approve THEN {} ELSE s.pend.reasons
    IN  [s.pend EXCEPT !.reasons = left,
                       !.status = IF left = {} THEN "RESOLVED" ELSE "NEEDS_REVIEW"]

\* Approve or recompute the status, append the version, commit.
ReviewCommit(r) ==
    LET s == ses[r]  d == s.doc
        p == [s EXCEPT !.pend = Reviewed(s)]
    IN  /\ At(r, "commit")
        /\ s.replace => TagRowsFree(r)
        /\ IF ~s.changed /\ p.pend = s.pend
           THEN Ends(r)
           ELSE IF ~doc[d].live \/ VersionTaken(s) \/ TagTaken(s)
           THEN Ends(r)
           ELSE /\ AppendVersion(p, IF s.replace THEN s.goal ELSE s.before)
                /\ tags' = [tags EXCEPT ![d] = StoredTags(s)]
                /\ Tell({d})
                /\ Goto(r, Closed)
                /\ UNCHANGED names
        /\ UNCHANGED <<task, report, setting>>

-----------------------------------------------------------------------------
(* The backfill: process_backfill_payload in a Celery task that is           *)
(* acknowledged late.                                                       *)

loop == task.loop
Matches(d) == doc[d].live /\ (setting.reviewOnly => doc[d].status = "NEEDS_REVIEW")
Matching == {d \in Docs : Matches(d)}

\* The position of a document in the ordered result of the filter.
Position(d) == Cardinality({o \in Matching : o < d})

RequestBackfill ==
    /\ Count("backfills")
    /\ task' = [task EXCEPT !.queued = @ + 1]
    /\ UNCHANGED <<rows, ses, told, report>>

StartBackfill ==
    /\ task.queued > 0 /\ ~loop.on
    /\ task' = [queued |-> task.queued - 1,
                loop |-> [NoLoop EXCEPT !.on = TRUE, !.matched = Matching]]
    /\ UNCHANGED <<rows, ses, told, report, setting>>

\* Fault: the next page starts one row late.
PageOf_OffByOne(offset) ==
    {d \in Matching : Position(d) \in
        (IF offset = 0 THEN 0 ELSE offset + 1) .. offset + BatchSize - 1}

\* One page of the ordered query, by offset over what matches now. (No two documents
\* have the same created_at here; the code has no second key to order those by.)
PageOf(offset) ==
    {d \in Matching : Position(d) \in offset .. offset + BatchSize - 1}

NextPage ==
    /\ loop.on /\ At(Backfill, "closed") /\ loop.todo = {}
    /\ PageOf(loop.offset) # {}
    /\ task' = [task EXCEPT !.loop.todo = PageOf(loop.offset),
                            !.loop.loaded = PageOf(loop.offset),
                            !.loop.cache = doc,
                            !.loop.offset = @ + BatchSize]
    /\ UNCHANGED <<rows, ses, told, report, setting>>

\* Fault: only the documents of the last page are published.
FinishBackfill_LastPage ==
    /\ loop.on /\ At(Backfill, "closed") /\ loop.todo = {}
    /\ PageOf(loop.offset) = {}
    /\ UNCHANGED rows
    /\ Tell({d \in loop.done : d >= loop.offset - BatchSize /\ doc[d].live})
    /\ report' = {d \in loop.matched \ loop.seen : Matches(d)}
    /\ task' = [task EXCEPT !.loop = NoLoop]
    /\ UNCHANGED <<ses, setting>>

\* The loop ends: only now are the updated documents published.
FinishBackfill ==
    /\ loop.on /\ At(Backfill, "closed") /\ loop.todo = {}
    /\ PageOf(loop.offset) = {}
    /\ UNCHANGED rows
    /\ Tell({d \in loop.done : doc[d].live})
    /\ report' = {d \in loop.matched \ loop.seen : Matches(d)}
    /\ task' = [task EXCEPT !.loop = NoLoop]
    /\ UNCHANGED <<ses, setting>>


\* Fault: the duplicate mark is dropped.
Reclassified_MarkLost(row, out) ==
    [row EXCEPT !.cat = out.cat, !.reasons = out.reasons,
                !.status = IF out.reasons = {} THEN "NONE" ELSE "NEEDS_REVIEW"]

\* The row the rules give: a duplicate mark is kept, a resolution is not.
Reclassified(row, out) ==
    LET left == out.reasons \cup (row.reasons \cap {Duplicate})
    IN  [row EXCEPT !.cat = out.cat, !.reasons = left,
                    !.status = IF left = {} THEN "NONE" ELSE "NEEDS_REVIEW"]

Upcoming == CHOOSE d \in loop.todo : \A o \in loop.todo : d <= o

\* A row loaded with the page is as old as the page, until a commit or a
\* rollback of the session expires it.
PageRow(d) == IF d \in loop.loaded THEN loop.cache[d] ELSE doc[d]
NewCategory(d) == Rule[PageRow(d).text].cat \notin names.cats
RowNow(d) == IF NewCategory(d) THEN doc[d] ELSE PageRow(d)
Goal(d) == Reclassified(RowNow(d), Rule[PageRow(d).text])
NewTags(d) == Rule[PageRow(d).text].tags
\* Fault: new tags alone are no change.
Unchanged_IgnoresTags(d) == Goal(d) = RowNow(d)

Unchanged(d) == Goal(d) = RowNow(d) /\ NewTags(d) = tags[d]
Readable(d) == doc[d].live \/ (d \in loop.loaded /\ ~NewCategory(d) /\ Unchanged(d))

\* The next document of the page: apply_rules, upsert_category, compare.
BackfillRead ==
    LET d == Upcoming
        replace == NewTags(d) # tags[d]
    IN  /\ loop.on /\ At(Backfill, "closed") /\ loop.todo # {}
        /\ Readable(d)
        /\ replace => \A p \in Sessions :
               ~At(p, "closed") /\ ses[p].doc = d => ses[p].cleared = {}
        /\ names' = [names EXCEPT !.cats = @ \cup {Rule[PageRow(d).text].cat}]
        /\ task' = [task EXCEPT !.loop.todo = @ \ {d}, !.loop.seen = @ \cup {d},
                      !.loop.loaded = IF NewCategory(d) THEN {} ELSE @]
        /\ Goto(Backfill,
             IF Unchanged(d) THEN Closed
             ELSE [Load(d, Keep) EXCEPT !.row = RowNow(d), !.plan = Goal(d),
                     !.pend = IF replace THEN RowNow(d) ELSE Goal(d),
                     !.goal = NewTags(d), !.replace = replace,
                     !.want = IF replace THEN NewTags(d) ELSE {},
                     !.cleared = IF replace THEN tags[d] ELSE {},
                     !.pc = IF replace THEN "lookup" ELSE "commit"])
        /\ UNCHANGED <<doc, tags, ver, told, report, setting>>

\* The end of replace_document_tags: the tags are committed on their own, and
\* the row is read again before its columns are set.
StoreTags ==
    LET s == ses[Backfill]  d == s.doc IN
    /\ At(Backfill, "store")
    /\ doc[d].live
    /\ TagRowsFree(Backfill)
    /\ Expire(Backfill)
    /\ UNCHANGED <<doc, ver, names, told, report, setting>>
    /\ IF TagTaken(s)
       THEN Goto(Backfill, Closed) /\ UNCHANGED tags
       ELSE /\ tags' = [tags EXCEPT ![d] = StoredTags(s)]
            /\ Goto(Backfill, [Reload(s) EXCEPT !.pc = "commit",
                 !.pend = [doc[d] EXCEPT !.cat = s.plan.cat,
                             !.reasons = s.plan.reasons, !.status = s.plan.status]])

\* Version and commit; a refused version counts the document as failed.
BackfillCommit ==
    LET s == ses[Backfill] IN
    /\ At(Backfill, "commit")
    /\ doc[s.doc].live
    /\ IF VersionTaken(s)
       THEN UNCHANGED rows /\ task' = [task EXCEPT !.loop.loaded = {}]
       ELSE /\ AppendVersion(s, IF s.replace THEN s.goal ELSE s.before)
            /\ UNCHANGED <<tags, names>>
            /\ task' = [task EXCEPT !.loop.loaded = {},
                                    !.loop.done = @ \cup {s.doc}]
    /\ Goto(Backfill, Closed)
    /\ UNCHANGED <<told, report, setting>>

\* A document of the page is gone: its attributes cannot be read, not even for
\* the list of errors, and the exception ends the task.
BackfillDies ==
    /\ loop.on
    /\ \/ At(Backfill, "closed") /\ loop.todo # {} /\ ~Readable(Upcoming)
       \/ ses[Backfill].pc \in {"store", "commit"} /\ ~doc[ses[Backfill].doc].live
    /\ Goto(Backfill, Closed)
    /\ task' = [task EXCEPT !.loop = NoLoop]
    /\ UNCHANGED <<rows, told, report, setting>>

\* The worker is killed; the message comes back and the loop starts over.
BackfillKilled ==
    /\ loop.on /\ Count("kills")
    /\ Goto(Backfill, Closed)
    /\ task' = [queued |-> task.queued + 1, loop |-> NoLoop]
    /\ UNCHANGED <<rows, told, report>>

DeleteDocument(d) ==
    /\ doc[d].live /\ Count("deletes")
    /\ \A p \in Sessions :
          ~At(p, "closed") /\ ses[p].doc = d => ses[p].cleared = {}
    /\ doc' = [doc EXCEPT ![d].live = FALSE]
    /\ tags' = [tags EXCEPT ![d] = {}]
    /\ UNCHANGED <<ver, names, ses, task, told, report>>

-----------------------------------------------------------------------------
Next ==
    \/ \E e \in Editors, d \in Docs, q \in setting.patches : PatchLoad(e, d, q)
    \/ \E e \in Editors : PatchCategoryTaken(e) \/ PatchCommit(e)
    \/ \E r \in Reviewers, d \in Docs, q \in setting.reviews : ReviewLoad(r, d, q)
    \/ \E r \in Reviewers : ReviewCategory(r) \/ ReviewTags(r) \/ ReviewCommit(r)
    \/ \E p \in Reviewers \cup {Backfill} : LookUp(p) \/ Mint(p) \/ MintTaken(p)
    \/ RequestBackfill \/ StartBackfill \/ NextPage \/ BackfillRead \/ StoreTags
    \/ BackfillCommit \/ FinishBackfill \/ BackfillDies \/ BackfillKilled
    \/ \E d \in Docs : DeleteDocument(d)

Spec == Init /\ [][Next]_vars

-----------------------------------------------------------------------------
(* Properties.                                                             *)

Live == {d \in Docs : doc[d].live}
Touched(d) == \E p \in Sessions : ~At(p, "closed") /\ ses[p].doc = d

TypeOK ==
    /\ doc \in [Docs -> Row]
    /\ tags \in [Docs -> SUBSET Tags]
    /\ \A d \in Docs : Len(ver[d]) >= 1
    /\ names.cats \subseteq Cats /\ names.tags \subseteq Tags
    /\ \A p \in Sessions : At(p, "closed") \/ ses[p] \in Session
    /\ task.queued \in Nat
    /\ \A d \in Docs : told[d].tags \subseteq Tags
    /\ report \subseteq Docs
    /\ setting \in Setting

\* Requests that name only categories and tags that have a row, and no backfill.
RequestsOnly ==
    setting.cats = Cats /\ setting.tags = Tags /\ used.backfills = 0

\* A backfill that no request meets and no kill repeats.
BackfillOnly == used.requests = 0 /\ used.kills = 0 /\ used.deletes = 0

\* The versions of a document tell its history. current_version_no is the highest
\* version_no, however sessions, their midway commits and a rerun backfill
\* interleave (DOCUMENT_VERSION_MISMATCH of validate_integrity.py). No edit is lost
\* or undone by another: a version differs from the one before it in the fields its
\* request named, and in those it holds what was asked. And a document nobody is
\* working on is what its latest version says it is.
VersionsConsistent ==
    \A d \in Docs :
        /\ doc[d].current = Len(ver[d])
        /\ RequestsOnly =>
             \A i \in 2 .. Len(ver[d]), f \in {"text", "cat", "tags"} :
                 ver[d][i][f] = IF ver[d][i].by[f] = Keep THEN ver[d][i - 1][f]
                                                          ELSE ver[d][i].by[f]
        /\ (RequestsOnly \/ BackfillOnly) /\ d \in Live /\ ~Touched(d) =>
             LET last == ver[d][Len(ver[d])]
             IN  /\ last.text = doc[d].text /\ last.cat = doc[d].cat
                 /\ last.tags = tags[d]

\* When all requests and backfills have ended, the index was told of every
\* document as it now is (README: review and backfill results are reflected).
QuietMeansTold ==
    (/\ RequestsOnly \/ BackfillOnly
     /\ task.queued = 0 /\ ~loop.on
     /\ \A p \in Sessions : At(p, "closed"))
        => \A d \in Live : told[d] = Searched(d)

\* While nothing is deleted, a backfill of the whole archive passes over no
\* document, whatever requests do to the documents between its pages.
BackfillCovers == used.deletes = 0 /\ ~setting.reviewOnly => report = {}

\* What reclassification leaves. Alone with the documents, a backfill of the whole
\* archive that ends leaves each as the rules of its version say; so does its rerun
\* after a kill. And with one review at a time, whoever reclassifies, the mark of a
\* suspected duplicate stays: only a reviewer takes it off.
RulesApplied ==
    [][/\ (/\ loop.on /\ ~task'.loop.on /\ task'.queued = task.queued
           /\ used.requests = 0 /\ used.deletes = 0 /\ ~setting.reviewOnly) =>
            \A d \in Live :
               /\ doc[d].cat = Rule[doc[d].text].cat
               /\ tags[d] = Rule[doc[d].text].tags
               /\ doc[d].reasons \ {Duplicate} = Rule[doc[d].text].reasons
               /\ doc[d].status =
                    IF doc[d].reasons = {} THEN "NONE" ELSE "NEEDS_REVIEW"
       /\ \A d \in Docs :
            Duplicate \in doc[d].reasons /\ Duplicate \notin doc'[d].reasons
               => \E r \in Reviewers : ~At(r, "closed") /\ ses[r].doc = d]_vars
=============================================================================
