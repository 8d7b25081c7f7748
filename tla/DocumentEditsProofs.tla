------------------------ MODULE DocumentEditsProofs ------------------------
(***************************************************************************)
(* What holds of edited documents for every set of documents, names,       *)
(* editors and reviewers, every rules table and every setting: type        *)
(* correctness, that the versions of a document tell its history, that the *)
(* search index is told of every change, that a backfill passes over no    *)
(* document, and what a backfill leaves.                                   *)
(***************************************************************************)
EXTENDS DocumentEdits, FiniteSetTheorems, TLAPS

OneReviewer == \A q, r \in Reviewers : q = r

-----------------------------------------------------------------------------
(* The invariants.                                                         *)

Version == [text : Texts, cat : Cats, tags : SUBSET Tags,
            by : [text : {Keep} \cup Texts, cat : {Keep} \cup Cats,
                  tags : {Keep} \cup SUBSET Tags]]
Entry == [text : Texts, cat : Cats, tags : SUBSET Tags, status : Status]
Loop == [on : BOOLEAN, offset : Nat, todo : SUBSET Docs, loaded : SUBSET Docs,
         cache : {<<>>} \cup [Docs -> Row], done : SUBSET Docs,
         seen : SUBSET Docs, matched : SUBSET Docs]

EditsTypeInv ==
    /\ doc \in [Docs -> Row]
    /\ tags \in [Docs -> SUBSET Tags]
    /\ ver \in [Docs -> Seq(Version)]
    /\ names \in [cats : SUBSET Cats, tags : SUBSET Tags]
    /\ ses \in [Sessions -> {Closed} \cup Session]
    /\ task \in [queued : Nat, loop : Loop]
    /\ told \in [Docs -> Entry]
    /\ report \in SUBSET Docs
    /\ setting \in Setting

Open(p) == ses[p].pc # "closed"
BackfillAt(d) == Open(Backfill) /\ ses[Backfill].doc = d

\* Which session is at which step, and of what it keeps.
Role(p, s) ==
    /\ p \in Editors =>
          s.pc = "category" /\ s.req \in Patches /\ s.pend.reasons = s.row.reasons
    /\ p \in Reviewers =>
          /\ s.pc \in {"category", "tags", "lookup", "mint", "commit"}
          /\ s.req \in Reviews /\ s.pend.reasons \subseteq s.row.reasons
    /\ p = Backfill =>
          s.pc \in {"lookup", "mint", "store", "commit"} /\ s.req = Keep
    /\ s.pc = "mint" => s.mint \in Tags

Roles ==
    /\ \A p \in Sessions : Open(p) => Role(p, ses[p])
    /\ Open(Backfill) => loop.on
    /\ ~loop.on => loop = NoLoop
    /\ loop.loaded # {} => loop.cache \in [Docs -> Row]

\* current_version_no is the number of versions, and nobody has loaded a row with
\* a higher one.
Numbered ==
    /\ \A d \in Docs : doc[d].current = Len(ver[d]) /\ ver[d] # <<>>
    /\ \A p \in Sessions : Open(p) => ses[p].row.current <= Len(ver[ses[p].doc])
    /\ \A d \in loop.loaded : loop.cache[d].current <= Len(ver[d])

EditsInv == EditsTypeInv /\ Roles /\ Numbered

Timely(s) == s.row.current <= Len(ver[s.doc])

\* The latest version, and whether it has the text and category of the document.
Last(d) == ver[d][Len(ver[d])]
Told(d) == told[d] = Searched(d)
Written(d) == Last(d).text = doc[d].text /\ Last(d).cat = doc[d].cat

\* What a request leaves of a value when it says given.
Given(given, value) == IF given = Keep THEN value ELSE given

\* Nothing was committed to the document since the session loaded it.
Fresh(s) == doc[s.doc].live /\ s.row.current = doc[s.doc].current

Chained(d) ==
    \A i \in 2 .. Len(ver[d]), f \in {"text", "cat", "tags"} :
        ver[d][i][f] = IF ver[d][i].by[f] = Keep THEN ver[d][i - 1][f]
                                                 ELSE ver[d][i].by[f]

\* Without new names no session commits or rolls back midway.
Loaded(s) ==
    /\ s.mint = Keep /\ s.pc # "mint"
    /\ Fresh(s) =>
         /\ s.row = doc[s.doc] /\ s.before = tags[s.doc]
         /\ s.pc \in {"lookup", "commit"} /\ s.replace => s.cleared = tags[s.doc]
Patching(s) ==
    s.pend.text = Given(s.req.text, s.row.text) /\ s.pend.cat = s.row.cat
Reviewing(s) ==
    /\ s.pend.text = s.row.text
    /\ s.pend.cat = IF s.pc = "category" THEN s.row.cat ELSE Given(s.req.cat, s.row.cat)
    /\ IF s.replace THEN s.pc \in {"lookup", "commit"} /\ s.goal = s.req.tags /\ s.goal # Keep
       ELSE /\ s.pc # "lookup"
            /\ s.pc = "commit" => s.req.tags \in {Keep, s.before}

RequestsInv ==
    RequestsOnly =>
        /\ names = [cats |-> Cats, tags |-> Tags]
        /\ ~loop.on /\ task.queued = 0
        /\ \A p \in Sessions : Open(p) => Loaded(ses[p])
        /\ \A e \in Editors : Open(e) => Patching(ses[e])
        /\ \A r \in Reviewers : Open(r) => Reviewing(ses[r])
        /\ \A d \in Docs : Chained(d)
        /\ \A d \in Live : Written(d) /\ Last(d).tags = tags[d] /\ Told(d)

\* What the rules of the backfill say of a document.
RulesRow(d) == Reclassified(doc[d], Rule[doc[d].text])
Ruled(d) == doc[d] = RulesRow(d) /\ tags[d] = Rule[doc[d].text].tags

\* Nobody but the backfill works on documents.
Alone == used.requests = 0 /\ used.deletes = 0

\* The backfill at work on a document: the row and its tags, then the columns.
AtWork(s) ==
    LET d == s.doc IN
    /\ doc[d].live /\ d \in loop.seen
    /\ s.row = doc[d] /\ s.plan = RulesRow(d)
    /\ s.goal = Rule[doc[d].text].tags
    /\ IF s.pc = "commit"
       THEN s.pend = s.plan /\ tags[d] = s.goal /\ (~s.replace => s.before = s.goal)
       ELSE s.pend = doc[d] /\ s.replace /\ s.cleared = tags[d]
    /\ s.pc = "mint" => s.mint \notin names.tags

AloneInv ==
    Alone =>
        /\ \A p \in Sessions : Open(p) => p = Backfill
        /\ \A d \in loop.loaded : loop.cache[d] = doc[d]
        /\ loop.todo \subseteq Live
        /\ Open(Backfill) => AtWork(ses[Backfill])
        /\ \A d \in loop.seen : BackfillAt(d) \/ Ruled(d)

\* And it is not killed.
UnkilledInv ==
    BackfillOnly =>
        \A d \in Live :
            /\ Written(d)
            /\ BackfillAt(d) \/ Last(d).tags = tags[d]
            /\ BackfillAt(d) \/ Told(d) \/ d \in loop.done

\* The pages of a backfill of the whole archive.
PagesInv ==
    used.deletes = 0 /\ ~setting.reviewOnly =>
        /\ report = {}
        /\ loop.on => \A d \in Live : Position(d) < loop.offset => d \in loop.seen \cup loop.todo

\* Nobody but a reviewer takes a document for one that is no duplicate.
Marked(d) == Duplicate \in doc[d].reasons
MarkOf(p, s) ==
    /\ p \in Reviewers /\ Duplicate \in s.row.reasons => Marked(s.doc)
    /\ p = Backfill =>
         /\ s.pend.reasons \in {s.row.reasons, s.plan.reasons}
         /\ Marked(s.doc) => Duplicate \in s.plan.reasons
MarkInv ==
    /\ \A p \in Sessions : Open(p) => MarkOf(p, ses[p])
    /\ \A d \in loop.loaded : Marked(d) => Duplicate \in loop.cache[d].reasons

-----------------------------------------------------------------------------
(* What the helpers and the steps of sessions do.                          *)

LEMMA LeastNumber ==
  ASSUME NEW T \in SUBSET Nat, T # {}
  PROVE  \E x \in T : \A y \in T : x <= y
  <1>1. PICK R : R = {pair \in Nat \X Nat : pair[1] < pair[2]}
    OBVIOUS
  <1>2. IsWellFoundedOn(R, Nat)
    BY <1>1, NatLessThanWellFounded DEF OpToRel
  <1>3. PICK x \in T : \A y \in T : <<y, x>> \notin R
    BY <1>2, WFMin
  <1>4. ASSUME NEW y \in T PROVE x <= y
    <2>1. x \in Nat /\ y \in Nat /\ <<y, x>> \notin R
      BY <1>3
    <2>2. y < x => <<y, x>> \in R
      BY <1>1, <2>1
    <2> QED
      BY <2>1, <2>2
  <1> QED
    BY <1>4

LEMMA SessionTypes ==
  ASSUME EditsTypeInv
  PROVE  /\ \A p \in Sessions : Open(p) => ses[p] \in Session
         /\ \A p \in Sessions : ~Open(p) => ses[p] = Closed
         /\ Closed.pc = "closed" /\ \A s \in Session : s.pc # "closed"
         /\ Editors \subseteq Sessions /\ Reviewers \subseteq Sessions
         /\ Backfill \in Sessions
         /\ (\A e \in Editors : e \notin Reviewers /\ e # Backfill) /\ Backfill \notin Reviewers
  <1>1. Closed.pc = "closed" /\ \A s \in Session : s.pc # "closed"
    BY DEF Closed, Session
  <1>2. \A p \in Sessions : ses[p] \in {Closed} \cup Session
    BY DEF EditsTypeInv
  <1> QED
    BY <1>1, <1>2, SessionsAssumption DEF Open, Sessions

\* A request that is still to be made has every field typed.
LEMMA RequestTypes ==
  ASSUME EditsTypeInv
  PROVE  /\ setting.patches \subseteq Patches /\ setting.reviews \subseteq Reviews
         /\ \A q \in Patches :
              /\ q.text \in {Keep} \cup Texts /\ q.status \in {Keep} \cup Status
              /\ q.cat \in {Keep} \cup Cats /\ q.tags \in {Keep} \cup SUBSET Tags
              /\ q # Keep
         /\ \A q \in Reviews :
              /\ q.cat \in {Keep} \cup Cats /\ q.tags \in {Keep} \cup SUBSET Tags
              /\ q.remove \in SUBSET (Reasons \cup {Duplicate}) /\ q.approve \in BOOLEAN
              /\ q # Keep /\ q \notin Patches
         /\ Keep \notin Texts /\ Keep \notin Status /\ Keep \notin Cats
         /\ Keep \notin SUBSET Tags
  <1>1. setting.patches \subseteq Patches /\ setting.reviews \subseteq Reviews
    BY DEF EditsTypeInv, Setting
  <1> QED
    BY <1>1, RequestsAssumption

LEMMA FlushedEffect ==
  ASSUME EditsTypeInv, NEW s \in Session
  PROVE  /\ Flushed(s) \in Row
         /\ Flushed(s).live = doc[s.doc].live
         /\ Flushed(s).current = doc[s.doc].current
         /\ Flushed(s).text = IF s.pend.text # s.row.text THEN s.pend.text ELSE doc[s.doc].text
         /\ Flushed(s).cat = IF s.pend.cat # s.row.cat THEN s.pend.cat ELSE doc[s.doc].cat
         /\ Flushed(s).reasons = IF s.pend.reasons # s.row.reasons THEN s.pend.reasons
                                 ELSE doc[s.doc].reasons
         /\ Flushed(s).status = IF s.pend.status # s.row.status THEN s.pend.status
                                ELSE doc[s.doc].status
  <1>1. PICK row : row = doc[s.doc]
    OBVIOUS
  <1>2. row \in Row /\ s.pend \in Row /\ s.row \in Row
    BY <1>1 DEF EditsTypeInv, Session
  <1>3. DOMAIN row = {"live", "text", "cat", "reasons", "status", "current"}
    BY <1>2 DEF Row
  <1>4. PICK m : m = [f \in DOMAIN row |->
                        IF f \in Columns /\ s.pend[f] # s.row[f] THEN s.pend[f] ELSE row[f]]
    OBVIOUS
  <1>5. /\ m.live = row.live /\ m.current = row.current
        /\ m.text = IF s.pend.text # s.row.text THEN s.pend.text ELSE row.text
        /\ m.cat = IF s.pend.cat # s.row.cat THEN s.pend.cat ELSE row.cat
        /\ m.reasons = IF s.pend.reasons # s.row.reasons THEN s.pend.reasons ELSE row.reasons
        /\ m.status = IF s.pend.status # s.row.status THEN s.pend.status ELSE row.status
    BY <1>3, <1>4 DEF Columns
  <1>6. m \in Row
    BY <1>2, <1>3, <1>4, <1>5 DEF Row
  <1>7. Flushed(s) = m
    BY <1>1, <1>4 DEF Flushed
  <1> QED
    BY <1>1, <1>5, <1>6, <1>7

LEMMA AskedEffect ==
  ASSUME EditsTypeInv, NEW s \in Session
  PROVE  /\ Asked(s) \in [text : {Keep} \cup Texts, cat : {Keep} \cup Cats,
                          tags : {Keep} \cup SUBSET Tags]
         /\ Asked(s).text = IF s.req \in Patches THEN s.req.text ELSE Keep
         /\ s.req # Keep => Asked(s).cat = s.req.cat /\ Asked(s).tags = s.req.tags
  <1>1. s.req \in Patches \cup Reviews \cup {Keep} /\ s.plan \in Row /\ s.goal \in SUBSET Tags
    BY DEF Session
  <1>2. s.plan.cat \in Cats
    BY <1>1 DEF Row
  <1> QED
    BY <1>1, <1>2, RequestTypes DEF Asked

\* The flush of an edit: the columns that changed, and one more version.
LEMMA AppendEffect ==
  ASSUME EditsTypeInv, NEW s \in Session, NEW snapshot \in SUBSET Tags,
         AppendVersion(s, snapshot)
  PROVE  \E m \in Row, v \in Version :
            /\ doc' = [doc EXCEPT ![s.doc] = m]
            /\ m.live = doc[s.doc].live /\ m.current = s.row.current + 1
            /\ m.text = Flushed(s).text /\ m.cat = Flushed(s).cat
            /\ m.reasons = Flushed(s).reasons /\ m.status = Flushed(s).status
            /\ ver' = [ver EXCEPT ![s.doc] = Append(ver[s.doc], v)]
            /\ v.text = s.pend.text /\ v.cat = s.pend.cat /\ v.tags = snapshot
            /\ v.by = Asked(s)
  <1>1. PICK old : old = Flushed(s)
    OBVIOUS
  <1>2. old \in Row /\ old.live = doc[s.doc].live
    BY <1>1, FlushedEffect
  <1>3. s.pend \in Row /\ s.row \in Row /\ s.doc \in Docs
    BY DEF Session
  <1>4. PICK m : m = [old EXCEPT !.current = s.row.current + 1]
    OBVIOUS
  <1>5. s.row.current + 1 \in Nat
    BY <1>3 DEF Row
  <1>6. /\ m \in Row /\ m.live = old.live /\ m.current = s.row.current + 1
        /\ m.text = old.text /\ m.cat = old.cat
        /\ m.reasons = old.reasons /\ m.status = old.status
    BY <1>2, <1>4, <1>5 DEF Row
  <1>7. PICK v : v = [text |-> s.pend.text, cat |-> s.pend.cat, tags |-> snapshot,
                      by |-> Asked(s)]
    OBVIOUS
  <1>8. v \in Version
    BY <1>3, <1>7, AskedEffect DEF Version, Row
  <1>9. doc' = [doc EXCEPT ![s.doc] = m] /\ ver' = [ver EXCEPT ![s.doc] = Append(ver[s.doc], v)]
    BY <1>1, <1>4, <1>7, <1>3 DEF AppendVersion, EditsTypeInv
  <1> QED
    BY <1>1, <1>2, <1>6, <1>7, <1>8, <1>9

\* A session after its commit or rollback: the row is as it now is.
LEMMA ReloadEffect ==
  ASSUME EditsTypeInv, NEW s \in Session, doc'[s.doc] \in Row,
         NEW n, n = Reload(s)
  PROVE  /\ n \in Session
         /\ n.row = doc'[s.doc] /\ n.pend = doc'[s.doc] /\ n.mint = Keep /\ n.cleared = {}
         /\ n.pc = s.pc /\ n.doc = s.doc /\ n.req = s.req
         /\ n.plan = s.plan /\ n.before = s.before
         /\ n.goal = s.goal /\ n.replace = s.replace /\ n.want = s.want
  <1>1. PICK row : row = doc'[s.doc]
    OBVIOUS
  <1>2. n = [s EXCEPT !.row = row, !.pend = row, !.mint = Keep, !.cleared = {}]
    BY <1>1 DEF Reload
  <1> QED
    BY ZenonT(60), <1>1, <1>2 DEF Session

\* An event that is counted, and nothing else of the setting.
LEMMA CountEffect ==
  ASSUME EditsTypeInv, NEW kind \in Events, Count(kind)
  PROVE  /\ setting' \in Setting
         /\ setting'.docs = setting.docs /\ setting'.cats = setting.cats
         /\ setting'.tags = setting.tags /\ setting'.reviewOnly = setting.reviewOnly
         /\ used[kind] \in Nat /\ used'[kind] = used[kind] + 1
         /\ \A k \in Events : k # kind => used'[k] = used[k]
  <1>1. setting \in Setting /\ setting.used \in [Events -> Nat]
    BY DEF EditsTypeInv, Setting
  <1>2. PICK u : u = [setting.used EXCEPT ![kind] = setting.used[kind] + 1]
    OBVIOUS
  <1>3. u \in [Events -> Nat]
    BY <1>1, <1>2
  <1>4. setting' = [setting EXCEPT !.used = u]
    BY <1>1, <1>2 DEF Count, Setting
  <1>5. /\ setting' \in Setting /\ setting'.used = u
        /\ setting'.docs = setting.docs /\ setting'.cats = setting.cats
        /\ setting'.tags = setting.tags /\ setting'.reviewOnly = setting.reviewOnly
    BY <1>1, <1>3, <1>4 DEF Setting
  <1> QED
    BY <1>1, <1>2, <1>5 DEF used

\* A session that has just loaded a row, for a request.
Opened(n, p, d, q) ==
    /\ Goto(p, n)
    /\ n.pc = "category" /\ n.doc = d /\ n.row = doc[d] /\ n.req = q
    /\ n.before = tags[d] /\ n.cleared = {} /\ n.replace = FALSE

PatchOpened(n, d, q) ==
    /\ n.pend.text = Given(q.text, doc[d].text) /\ n.pend.cat = doc[d].cat
    /\ n.pend.reasons = doc[d].reasons
    /\ n.mint = IF q.cat \in names.cats THEN Keep ELSE q.cat

ReviewOpened(n, d) == n.pend = doc[d] /\ n.mint = Keep

LEMMA PatchLoadEffect ==
  ASSUME EditsTypeInv, NEW e \in Editors, NEW d \in Docs, NEW q, q \in setting.patches,
         PatchLoad(e, d, q)
  PROVE  /\ ~Open(e) /\ doc[d].live /\ Count("requests")
         /\ UNCHANGED <<rows, task, told, report>>
         /\ q \in Patches /\ \E n \in Session : Opened(n, e, d, q) /\ PatchOpened(n, d, q)
  <1>1. q \in Patches /\ q \in Patches \cup Reviews \cup {Keep}
    BY RequestTypes
  <1>2. PICK l : l = Load(d, q)
    OBVIOUS
  <1>3. /\ l \in Session /\ l.pc = "category" /\ l.doc = d /\ l.row = doc[d]
        /\ l.pend = doc[d] /\ l.req = q /\ l.before = tags[d] /\ l.cleared = {}
        /\ l.replace = FALSE /\ l.mint = Keep
    BY <1>1, <1>2 DEF EditsTypeInv, Load, Session
  <1>4. PICK n : n = [l EXCEPT !.pend.text = IF q.text = Keep THEN @ ELSE q.text,
                               !.pend.status = IF q.status = Keep THEN @ ELSE q.status,
                               !.mint = IF q.cat \in names.cats THEN Keep ELSE q.cat]
    OBVIOUS
  <1>5. l.pend \in Row /\ doc[d] \in Row
    BY <1>3 DEF Session
  <1>6. /\ n.pend.text = Given(q.text, doc[d].text) /\ n.pend.cat = doc[d].cat
        /\ n.pend.reasons = doc[d].reasons /\ n.pend \in Row
    BY ZenonT(60), <1>1, <1>3, <1>4, <1>5, RequestTypes DEF Session, Row, Given
  <1>7. /\ n.mint = IF q.cat \in names.cats THEN Keep ELSE q.cat
        /\ n.mint \in Cats \cup Tags \cup {Keep}
        /\ n.pc = "category" /\ n.doc = d /\ n.row = doc[d] /\ n.req = q
        /\ n.before = tags[d] /\ n.cleared = {} /\ n.replace = FALSE
    BY <1>1, <1>3, <1>4, RequestTypes DEF Session
  <1>8. n \in Session
    BY <1>3, <1>4, <1>6, <1>7 DEF Session
  <1>9. Goto(e, n)
    BY <1>2, <1>4 DEF PatchLoad, Goto
  <1>10. Opened(n, e, d, q) /\ PatchOpened(n, d, q)
    BY <1>6, <1>7, <1>9 DEF Opened, PatchOpened
  <1> QED
    BY <1>1, <1>8, <1>10 DEF PatchLoad, At, Open

LEMMA ReviewLoadEffect ==
  ASSUME EditsTypeInv, NEW r \in Reviewers, NEW d \in Docs, NEW q, q \in setting.reviews,
         ReviewLoad(r, d, q)
  PROVE  /\ ~Open(r) /\ doc[d].live /\ Count("requests")
         /\ UNCHANGED <<rows, task, told, report>>
         /\ q \in Reviews /\ \E n \in Session : Opened(n, r, d, q) /\ ReviewOpened(n, d)
  <1>1. q \in Reviews /\ q \in Patches \cup Reviews \cup {Keep}
    BY RequestTypes
  <1>2. PICK n : n = Load(d, q)
    OBVIOUS
  <1>3. /\ n \in Session /\ n.pc = "category" /\ n.doc = d /\ n.row = doc[d]
        /\ n.pend = doc[d] /\ n.req = q /\ n.before = tags[d] /\ n.cleared = {}
        /\ n.replace = FALSE /\ n.mint = Keep
    BY <1>1, <1>2 DEF EditsTypeInv, Load, Session
  <1>4. Opened(n, r, d, q) /\ ReviewOpened(n, d)
    BY <1>2, <1>3 DEF ReviewLoad, Opened, ReviewOpened
  <1> QED
    BY <1>1, <1>3, <1>4 DEF ReviewLoad, At, Open

LEMMA PatchCategoryTakenEffect ==
  ASSUME EditsTypeInv, NEW e \in Editors, PatchCategoryTaken(e)
  PROVE  /\ Open(e) /\ ses[e].mint \in names.cats
         /\ UNCHANGED <<rows, task, told, report, setting>>
         /\ \/ Goto(e, Closed)
            \/ \E n \in Session :
                 /\ Goto(e, n)
                 /\ n.pc = "category" /\ n.doc = ses[e].doc /\ n.req = ses[e].req
                 /\ n.row = doc[n.doc] /\ n.pend = doc[n.doc] /\ doc[n.doc].live
                 /\ n.mint = Keep /\ n.cleared = {}
  <1>1. /\ Open(e) /\ ses[e].mint \in names.cats /\ ses[e].pc = "category"
        /\ UNCHANGED <<rows, task, told, report, setting>>
    BY DEF PatchCategoryTaken, At, Open
  <1>2. PICK s \in Session : s = ses[e]
    BY <1>1, SessionTypes
  <1>3. doc' = doc /\ s.doc \in Docs /\ doc[s.doc] \in Row
    BY <1>1 DEF rows, EditsTypeInv, Session
  <1>4. CASE doc[s.doc].live
    <2>1. PICK n : n = Reload(s)
      OBVIOUS
    <2>2. /\ n \in Session /\ n.row = doc[s.doc] /\ n.pend = doc[s.doc] /\ n.mint = Keep
          /\ n.cleared = {} /\ n.pc = s.pc /\ n.doc = s.doc /\ n.req = s.req
      BY <1>3, <2>1, ReloadEffect
    <2>3. Goto(e, n)
      BY <1>2, <1>4, <2>1 DEF PatchCategoryTaken, Goto
    <2> QED
      BY <1>1, <1>2, <1>4, <2>2, <2>3
  <1>5. CASE ~doc[s.doc].live
    BY <1>1, <1>2, <1>5 DEF PatchCategoryTaken, Goto
  <1> QED
    BY <1>4, <1>5

\* An edit is committed: one row of documents is flushed, with a version, and
\* the index is told of it.
Committed(p, s, snapshot, newTags) ==
    /\ doc[s.doc].live /\ ~VersionTaken(s)
    /\ tags' = [tags EXCEPT ![s.doc] = newTags]
    /\ Goto(p, Closed)
    /\ \E m \in Row, v \in Version :
         /\ doc' = [doc EXCEPT ![s.doc] = m]
         /\ m.live = doc[s.doc].live /\ m.current = s.row.current + 1
         /\ m.text = Flushed(s).text /\ m.cat = Flushed(s).cat
         /\ m.reasons = Flushed(s).reasons /\ m.status = Flushed(s).status
         /\ ver' = [ver EXCEPT ![s.doc] = Append(ver[s.doc], v)]
         /\ v.text = s.pend.text /\ v.cat = s.pend.cat /\ v.tags = snapshot
         /\ v.by = Asked(s)

LEMMA PatchCommitEffect ==
  ASSUME EditsTypeInv, NEW e \in Editors, PatchCommit(e), ses[e].req \in Patches
  PROVE  /\ Open(e) /\ UNCHANGED <<task, report, setting>>
         /\ \/ UNCHANGED <<rows, told>> /\ Goto(e, Closed)
            \/ /\ names' \in [cats : SUBSET Cats, tags : SUBSET Tags]
               /\ names.cats \subseteq names'.cats /\ names.tags \subseteq names'.tags
               /\ Tell({ses[e].doc})
               /\ \E s \in Session, newTags \in SUBSET Tags :
                    /\ Committed(e, s, newTags, newTags)
                    /\ newTags = Given(ses[e].req.tags, tags[s.doc])
                    /\ s.doc = ses[e].doc /\ s.row = ses[e].row /\ s.req = ses[e].req
                    /\ s.pend.text = ses[e].pend.text
                    /\ s.pend.cat = Given(s.req.cat, ses[e].pend.cat)
                    /\ s.pend.reasons = ses[e].pend.reasons
  <1>1. Open(e) /\ UNCHANGED <<task, report, setting>>
    BY DEF PatchCommit, At, Open
  <1>2. PICK o \in Session : o = ses[e]
    BY <1>1, SessionTypes
  <1>3. PICK q \in Patches : q = o.req
    BY <1>2
  <1>4. PICK s : s = [o EXCEPT !.pend.cat = IF q.cat = Keep THEN @ ELSE q.cat]
    OBVIOUS
  <1>5. o.pend \in Row /\ o.row \in Row /\ o.doc \in Docs
    BY DEF Session
  <1>6. /\ s.pend \in Row /\ s.pend.cat = Given(q.cat, o.pend.cat)
        /\ s.pend.text = o.pend.text /\ s.pend.reasons = o.pend.reasons
        /\ s.doc = o.doc /\ s.row = o.row /\ s.req = o.req
    BY <1>4, <1>5, RequestTypes DEF Session, Row, Given
  <1>7. s \in Session
    BY <1>4, <1>6 DEF Session
  <1>8. PICK newTags : newTags = IF q.tags = Keep THEN tags[o.doc] ELSE q.tags
    OBVIOUS
  <1>9. newTags \in SUBSET Tags /\ newTags = Given(q.tags, tags[o.doc])
    BY <1>5, <1>8, RequestTypes DEF EditsTypeInv, Given
  <1>10. CASE Ends(e)
    BY <1>1, <1>10 DEF Ends, Goto
  <1>11. CASE ~Ends(e)
    <2>1. /\ doc[o.doc].live /\ ~VersionTaken(o)
          /\ AppendVersion(s, newTags) /\ tags' = [tags EXCEPT ![o.doc] = newTags]
          /\ names' = [cats |-> names.cats \cup ({q.cat} \ {Keep}),
                       tags |-> names.tags \cup newTags]
          /\ Tell({o.doc}) /\ Goto(e, Closed)
      BY <1>2, <1>3, <1>4, <1>8, <1>11 DEF PatchCommit
    <2>2. ~VersionTaken(s)
      BY <1>6, <2>1 DEF VersionTaken
    <2>3. /\ names' \in [cats : SUBSET Cats, tags : SUBSET Tags]
          /\ names.cats \subseteq names'.cats /\ names.tags \subseteq names'.tags
      BY <1>9, <2>1, RequestTypes DEF EditsTypeInv
    <2>4. Committed(e, s, newTags, newTags)
      BY <1>6, <1>7, <1>9, <2>1, <2>2, AppendEffect DEF Committed, Goto
    <2> QED
      BY <1>1, <1>2, <1>3, <1>6, <1>7, <1>9, <2>1, <2>3, <2>4
  <1> QED
    BY <1>10, <1>11

\* The parts of a session that most of its steps leave alone.
Same(n, s) ==
    /\ n.doc = s.doc /\ n.req = s.req /\ n.plan = s.plan /\ n.before = s.before

LEMMA ReviewCategoryEffect ==
  ASSUME EditsTypeInv, NEW r \in Reviewers, ReviewCategory(r), ses[r].req \in Reviews
  PROVE  /\ Open(r) /\ ses[r].pc = "category"
         /\ UNCHANGED <<doc, tags, ver, told, task, report, setting>>
         /\ names' \in [cats : SUBSET Cats, tags : SUBSET Tags]
         /\ names.cats \subseteq names'.cats /\ names'.tags = names.tags
         /\ \/ Goto(r, Closed)
            \/ \E n \in Session, b \in Row :
                 /\ Goto(r, n)
                 /\ n.pc = "tags" /\ Same(n, ses[r])
                 /\ n.goal = ses[r].goal /\ n.replace = ses[r].replace
                 /\ \/ b = doc[n.doc] /\ n.row = b /\ n.mint = Keep /\ n.cleared = {}
                       /\ n.req.cat # Keep /\ n.req.cat \notin names.cats
                    \/ b = ses[r].pend /\ n.row = ses[r].row /\ n.mint = ses[r].mint
                       /\ n.cleared = ses[r].cleared
                 /\ n.pend.text = b.text /\ n.pend.cat = Given(n.req.cat, b.cat)
                 /\ n.pend.reasons \subseteq b.reasons
  <1>1. /\ Open(r) /\ ses[r].pc = "category"
        /\ UNCHANGED <<doc, tags, ver, told, task, report, setting>>
    BY DEF ReviewCategory, At, Open
  <1>2. PICK s \in Session : s = ses[r]
    BY <1>1, SessionTypes
  <1>3. PICK q \in Reviews : q = s.req
    BY <1>2
  <1>4. /\ names' \in [cats : SUBSET Cats, tags : SUBSET Tags]
        /\ names.cats \subseteq names'.cats /\ names'.tags = names.tags
    BY ZenonT(60), <1>2, <1>3, RequestTypes DEF ReviewCategory, EditsTypeInv
  <1>5. PICK new \in BOOLEAN : new = (q.cat # Keep /\ q.cat \notin names.cats)
    OBVIOUS
  <1>6. PICK now : now = IF new THEN Reload(s) ELSE s
    OBVIOUS
  <1>7. doc' = doc /\ s.doc \in Docs /\ doc[s.doc] \in Row /\ s.pend \in Row
    BY <1>1 DEF EditsTypeInv, Session
  <1>8. /\ now \in Session /\ Same(now, s) /\ now.goal = s.goal /\ now.replace = s.replace
        /\ \/ new /\ now.pend = doc[s.doc] /\ now.row = doc[s.doc] /\ now.mint = Keep
              /\ now.cleared = {}
           \/ now = s
    <2>1. CASE new
      BY <1>6, <1>7, <2>1, ReloadEffect DEF Same
    <2>2. CASE ~new
      BY <1>6, <2>2 DEF Same
    <2> QED
      BY <2>1, <2>2
  <1>9. PICK b \in Row : b = now.pend
    BY <1>8 DEF Session
  <1>10. PICK p : p = [b EXCEPT !.cat = IF q.cat = Keep THEN @ ELSE q.cat,
                                !.reasons = @ \ Answered(q)]
    OBVIOUS
  <1>11. /\ p \in Row /\ p.text = b.text /\ p.cat = Given(q.cat, b.cat)
         /\ p.reasons \subseteq b.reasons
    BY <1>10, RequestTypes DEF Row, Given
  <1>12. PICK changed \in BOOLEAN : changed = (p # b)
    OBVIOUS
  <1>13. PICK n : n = [now EXCEPT !.pc = "tags", !.pend = p, !.changed = changed]
    OBVIOUS
  <1>14. /\ n \in Session /\ n.pc = "tags" /\ n.pend = p /\ Same(n, now)
         /\ n.goal = now.goal /\ n.replace = now.replace /\ n.row = now.row
         /\ n.mint = now.mint /\ n.cleared = now.cleared
    BY <1>8, <1>11, <1>13 DEF Session, Same
  <1>15. Goto(r, IF new /\ ~doc[s.doc].live THEN Closed ELSE n)
    BY ZenonT(60), <1>2, <1>3, <1>5, <1>6, <1>9, <1>10, <1>12, <1>13 DEF ReviewCategory
  <1>16. CASE new /\ ~doc[s.doc].live
    BY <1>1, <1>4, <1>15, <1>16 DEF Goto
  <1>17. CASE ~(new /\ ~doc[s.doc].live)
    <2>1. Goto(r, n)
      BY <1>15, <1>17 DEF Goto
    <2>2. Same(n, ses[r]) /\ n.goal = s.goal /\ n.replace = s.replace /\ n.req = q
      BY <1>2, <1>3, <1>8, <1>14 DEF Same
    <2>3. \/ b = doc[n.doc] /\ n.row = b /\ n.mint = Keep /\ n.cleared = {}
             /\ q.cat # Keep /\ q.cat \notin names.cats
          \/ b = s.pend /\ n.row = s.row /\ n.mint = s.mint /\ n.cleared = s.cleared
      BY <1>5, <1>8, <1>9, <1>14 DEF Same
    <2> QED
      BY <1>1, <1>2, <1>4, <1>11, <1>14, <2>1, <2>2, <2>3
  <1> QED
    BY <1>16, <1>17

LEMMA ReviewTagsEffect ==
  ASSUME EditsTypeInv, NEW r \in Reviewers, ReviewTags(r), ses[r].req \in Reviews
  PROVE  /\ Open(r) /\ ses[r].pc = "tags"
         /\ UNCHANGED <<rows, told, task, report, setting>>
         /\ \E n \in Session :
              /\ Goto(r, n)
              /\ Same(n, ses[r]) /\ n.row = ses[r].row /\ n.pend = ses[r].pend
              /\ n.mint = ses[r].mint
              /\ \/ /\ n.pc = "commit" /\ n.req.tags \in {Keep, n.before}
                    /\ n.replace = ses[r].replace /\ n.goal = ses[r].goal
                    /\ n.cleared = ses[r].cleared
                 \/ /\ n.pc = "lookup" /\ n.goal = n.req.tags /\ n.replace = TRUE
                    /\ n.goal # Keep /\ n.cleared = tags[n.doc]
  <1>1. /\ Open(r) /\ ses[r].pc = "tags"
        /\ UNCHANGED <<rows, told, task, report, setting>>
    BY DEF ReviewTags, At, Open
  <1>2. PICK s \in Session : s = ses[r]
    BY <1>1, SessionTypes
  <1>3. PICK q \in Reviews : q = s.req
    BY <1>2
  <1>4. CASE q.tags = Keep \/ q.tags = s.before
    <2>1. PICK n : n = [s EXCEPT !.pc = "commit"]
      OBVIOUS
    <2>2. /\ n \in Session /\ Same(n, s) /\ n.row = s.row /\ n.pend = s.pend
          /\ n.mint = s.mint /\ n.pc = "commit" /\ n.req = q /\ n.before = s.before
          /\ n.replace = s.replace /\ n.goal = s.goal /\ n.cleared = s.cleared
      BY <1>3, <2>1 DEF Session, Same
    <2>3. Goto(r, n)
      BY <1>2, <1>3, <1>4, <2>1 DEF ReviewTags, Goto
    <2> QED
      BY <1>1, <1>2, <1>4, <2>2, <2>3
  <1>5. CASE ~(q.tags = Keep \/ q.tags = s.before)
    <2>0. s.doc \in Docs /\ tags[s.doc] \in SUBSET Tags /\ q.tags \in SUBSET Tags
      BY <1>5, RequestTypes DEF Session, EditsTypeInv
    <2>1. PICK n : n = [s EXCEPT !.pc = "lookup", !.want = q.tags,
                          !.goal = q.tags, !.replace = TRUE, !.changed = TRUE,
                          !.cleared = tags[s.doc]]
      OBVIOUS
    <2>2. /\ n \in Session /\ Same(n, s) /\ n.row = s.row /\ n.pend = s.pend
          /\ n.mint = s.mint /\ n.pc = "lookup" /\ n.req = q /\ n.doc = s.doc
          /\ n.replace = TRUE /\ n.goal = q.tags /\ n.cleared = tags[s.doc]
      BY <1>3, <2>0, <2>1 DEF Session, Same
    <2>3. Goto(r, n)
      BY <1>2, <1>3, <1>5, <2>1 DEF ReviewTags, Goto
    <2> QED
      BY <1>1, <1>2, <1>5, <2>2, <2>3
  <1> QED
    BY <1>4, <1>5

LEMMA LookUpEffect ==
  ASSUME EditsTypeInv, NEW p \in Reviewers \cup {Backfill}, LookUp(p)
  PROVE  /\ Open(p) /\ ses[p].pc = "lookup"
         /\ UNCHANGED <<rows, told, task, report, setting>>
         /\ \E n \in Session :
              /\ Goto(p, n)
              /\ Same(n, ses[p]) /\ n.row = ses[p].row /\ n.pend = ses[p].pend
              /\ n.goal = ses[p].goal /\ n.replace = ses[p].replace
              /\ n.cleared = ses[p].cleared
              /\ \/ /\ n.pc = IF p = Backfill THEN "store" ELSE "commit"
                    /\ n.mint = ses[p].mint
                 \/ n.pc = "mint" /\ n.mint \in Tags \ names.tags
  <1>1. /\ Open(p) /\ ses[p].pc = "lookup"
        /\ UNCHANGED <<rows, told, task, report, setting>>
    BY DEF LookUp, At, Open
  <1>2. PICK s \in Session : s = ses[p]
    BY <1>1, SessionTypes DEF Sessions
  <1>3. CASE s.want \ names.tags = {}
    <2>1. PICK n : n = [s EXCEPT !.pc = IF p = Backfill THEN "store" ELSE "commit",
                                 !.want = {}]
      OBVIOUS
    <2>2. /\ n \in Session /\ Same(n, s) /\ n.row = s.row /\ n.pend = s.pend
          /\ n.goal = s.goal /\ n.replace = s.replace /\ n.cleared = s.cleared
          /\ n.mint = s.mint /\ n.pc = IF p = Backfill THEN "store" ELSE "commit"
      BY ZenonT(60), <2>1 DEF Session, Same
    <2>3. Goto(p, n)
      BY <1>2, <1>3, <2>1 DEF LookUp, Goto
    <2> QED
      BY <1>1, <1>2, <2>2, <2>3
  <1>4. CASE s.want \ names.tags # {}
    <2>1. PICK t \in s.want \ names.tags :
             Goto(p, [s EXCEPT !.pc = "mint", !.mint = t, !.want = @ \ {t}])
      BY <1>2, <1>4 DEF LookUp
    <2>2. PICK n : n = [s EXCEPT !.pc = "mint", !.mint = t, !.want = @ \ {t}]
      OBVIOUS
    <2>3. t \in Tags \ names.tags
      BY <2>1 DEF Session
    <2>4. /\ n \in Session /\ Same(n, s) /\ n.row = s.row /\ n.pend = s.pend
          /\ n.goal = s.goal /\ n.replace = s.replace /\ n.cleared = s.cleared
          /\ n.pc = "mint" /\ n.mint = t
      BY <2>2, <2>3 DEF Session, Same
    <2>5. Goto(p, n)
      BY <2>1, <2>2 DEF Goto
    <2> QED
      BY <1>1, <1>2, <2>3, <2>4, <2>5
  <1> QED
    BY <1>3, <1>4

\* What a backfill keeps of its loop when its session commits or rolls back.
LoopKept ==
    /\ task' \in [queued : Nat, loop : Loop] /\ task'.queued = task.queued
    /\ task'.loop.on = loop.on /\ task'.loop.offset = loop.offset
    /\ task'.loop.todo = loop.todo /\ task'.loop.cache = loop.cache
    /\ task'.loop.seen = loop.seen /\ task'.loop.matched = loop.matched
    /\ loop.done \subseteq task'.loop.done
    /\ task'.loop.loaded \subseteq loop.loaded
    /\ loop.on \/ task' = task

LEMMA ExpireEffect ==
  ASSUME EditsTypeInv, NEW p, Expire(p), p # Backfill \/ loop.on
  PROVE  /\ LoopKept /\ task'.loop.done = loop.done
         /\ p = Backfill => task'.loop.loaded = {}
         /\ p # Backfill => task' = task
  <1>1. PICK l \in Loop : l = task.loop /\ task \in [queued : Nat, loop : Loop]
    BY DEF EditsTypeInv
  <1>2. CASE p = Backfill
    <2>1. PICK k : k = [l EXCEPT !.loaded = {}]
      OBVIOUS
    <2>2. task' = [task EXCEPT !.loop = k]
      BY <1>1, <1>2, <2>1 DEF Expire, Loop
    <2>3. /\ k \in Loop /\ k.loaded = {} /\ k.on = l.on /\ k.offset = l.offset
          /\ k.todo = l.todo /\ k.cache = l.cache /\ k.done = l.done
          /\ k.seen = l.seen /\ k.matched = l.matched
      BY <1>1, <2>1 DEF Loop
    <2> QED
      BY <1>1, <1>2, <2>2, <2>3 DEF LoopKept, loop
  <1>3. CASE p # Backfill
    BY <1>1, <1>3 DEF Expire, LoopKept, loop, Loop
  <1> QED
    BY <1>2, <1>3

LEMMA FlushedSame ==
  ASSUME EditsTypeInv, NEW s \in Session, s.pend = s.row
  PROVE  Flushed(s) = doc[s.doc]
  <1>1. doc[s.doc] \in Row
    BY DEF EditsTypeInv, Session
  <1>2. Flushed(s) = [f \in DOMAIN doc[s.doc] |-> doc[s.doc][f]]
    BY DEF Flushed
  <1> QED
    BY <1>1, <1>2 DEF Row

LEMMA MintEffect ==
  ASSUME EditsTypeInv, NEW p \in Reviewers \cup {Backfill}, Mint(p),
         p # Backfill \/ loop.on, ses[p].mint \in Tags
  PROVE  /\ Open(p) /\ ses[p].pc = "mint" /\ ses[p].mint \notin names.tags
         /\ UNCHANGED <<ver, told, report, setting>>
         /\ LoopKept /\ task'.loop.done = loop.done
         /\ p = Backfill => task'.loop.loaded = {}
         /\ p # Backfill => task' = task
         /\ names'.cats = names.cats
         /\ \E s \in Session, m \in Row :
              /\ s = ses[p]
              /\ names' \in [cats : SUBSET Cats, tags : SUBSET Tags]
              /\ names.tags \subseteq names'.tags
              /\ doc' = [doc EXCEPT ![s.doc] = m]
              /\ m.live = doc[s.doc].live /\ m.current = doc[s.doc].current
              /\ m.reasons \in {doc[s.doc].reasons, s.pend.reasons}
              /\ s.pend.reasons = s.row.reasons => m.reasons = doc[s.doc].reasons
              /\ s.pend = s.row => m = doc[s.doc]
              /\ tags' = [tags EXCEPT ![s.doc] = tags[s.doc] \ s.cleared]
              /\ \/ ~doc[s.doc].live /\ Goto(p, Closed)
                 \/ \E n \in Session :
                      /\ doc[s.doc].live /\ Goto(p, n)
                      /\ n.pc = "lookup" /\ Same(n, s) /\ n.row = m /\ n.pend = m
                      /\ n.mint = Keep /\ n.cleared = {}
                      /\ n.goal = s.goal /\ n.replace = s.replace
  <1>1. /\ Open(p) /\ ses[p].pc = "mint" /\ ses[p].mint \notin names.tags
        /\ UNCHANGED <<ver, told, report, setting>>
    BY DEF Mint, At, Open
  <1>2. /\ LoopKept /\ task'.loop.done = loop.done
        /\ p = Backfill => task'.loop.loaded = {}
        /\ p # Backfill => task' = task
    BY ExpireEffect DEF Mint
  <1>3. PICK s \in Session : s = ses[p]
    BY <1>1, SessionTypes DEF Sessions
  <1>4. names \in [cats : SUBSET Cats, tags : SUBSET Tags] /\ s.mint \in Tags
    BY <1>3 DEF EditsTypeInv
  <1>5. PICK old : old = doc[s.doc]
    OBVIOUS
  <1>6. old \in Row /\ s.doc \in Docs /\ s.pend \in Row /\ s.row \in Row
    BY <1>5 DEF EditsTypeInv, Session
  <1>7. PICK m : m = IF old.live THEN Flushed(s) ELSE old
    OBVIOUS
  <1>8. /\ m \in Row /\ m.live = old.live /\ m.current = old.current
        /\ m.reasons \in {old.reasons, s.pend.reasons}
        /\ s.pend.reasons = s.row.reasons => m.reasons = old.reasons
        /\ s.pend = s.row => m = old
    BY <1>5, <1>6, <1>7, FlushedEffect, FlushedSame
  <1>9. doc' = [doc EXCEPT ![s.doc] = m]
    BY <1>3, <1>5, <1>6, <1>7 DEF Mint, EditsTypeInv
  <1>10. tags' = [tags EXCEPT ![s.doc] = tags[s.doc] \ s.cleared]
    BY <1>3, <1>6 DEF Mint, EditsTypeInv
  <1>11. names' = [names EXCEPT !.tags = IF old.live \/ s.pend = s.row
                                         THEN names.tags \cup {s.mint} ELSE names.tags]
    BY <1>3, <1>4, <1>5 DEF Mint
  <1>12. /\ names' \in [cats : SUBSET Cats, tags : SUBSET Tags]
         /\ names.tags \subseteq names'.tags /\ names'.cats = names.cats
    BY <1>4, <1>11
  <1>13. CASE ~old.live
    <2>1. Goto(p, Closed)
      BY <1>3, <1>5, <1>13 DEF Mint, Goto
    <2> QED
      BY <1>1, <1>2, <1>3, <1>5, <1>8, <1>9, <1>10, <1>12, <1>13, <2>1
  <1>14. CASE old.live
    <2>1. PICK o : o = Reload(s)
      OBVIOUS
    <2>2. doc'[s.doc] = m
      BY <1>6, <1>9 DEF EditsTypeInv
    <2>3. /\ o \in Session /\ o.row = m /\ o.pend = m /\ o.mint = Keep /\ o.cleared = {}
          /\ Same(o, s) /\ o.goal = s.goal /\ o.replace = s.replace
      BY <1>8, <2>1, <2>2, ReloadEffect DEF Same
    <2>4. PICK n : n = [o EXCEPT !.pc = "lookup"]
      OBVIOUS
    <2>5. /\ n \in Session /\ n.pc = "lookup" /\ Same(n, s) /\ n.row = m /\ n.pend = m
          /\ n.mint = Keep /\ n.cleared = {} /\ n.goal = s.goal /\ n.replace = s.replace
      BY <2>3, <2>4 DEF Session, Same
    <2>6. Goto(p, n)
      BY <1>3, <1>5, <1>14, <2>1, <2>4 DEF Mint, Goto
    <2> QED
      BY <1>1, <1>2, <1>3, <1>5, <1>8, <1>9, <1>10, <1>12, <1>14, <2>5, <2>6
  <1> QED
    BY <1>13, <1>14

LEMMA MintTakenEffect ==
  ASSUME EditsTypeInv, NEW p \in Reviewers \cup {Backfill}, MintTaken(p),
         p # Backfill \/ loop.on
  PROVE  /\ Open(p) /\ ses[p].pc = "mint" /\ ses[p].mint \in names.tags
         /\ UNCHANGED <<rows, told, report, setting>>
         /\ LoopKept /\ task'.loop.done = loop.done
         /\ p = Backfill => task'.loop.loaded = {}
         /\ p # Backfill => task' = task
         /\ \/ Goto(p, Closed)
            \/ \E n \in Session :
                 /\ doc[n.doc].live /\ Goto(p, n)
                 /\ n.pc = "lookup" /\ Same(n, ses[p])
                 /\ n.row = doc[n.doc] /\ n.pend = doc[n.doc]
                 /\ n.mint = Keep /\ n.cleared = {}
                 /\ n.goal = ses[p].goal /\ n.replace = ses[p].replace
  <1>1. /\ Open(p) /\ ses[p].pc = "mint" /\ ses[p].mint \in names.tags
        /\ UNCHANGED <<rows, told, report, setting>>
    BY DEF MintTaken, At, Open
  <1>2. /\ LoopKept /\ task'.loop.done = loop.done
        /\ p = Backfill => task'.loop.loaded = {}
        /\ p # Backfill => task' = task
    BY ExpireEffect DEF MintTaken
  <1>3. PICK s \in Session : s = ses[p]
    BY <1>1, SessionTypes DEF Sessions
  <1>4. doc' = doc /\ s.doc \in Docs /\ doc[s.doc] \in Row
    BY <1>1 DEF rows, EditsTypeInv, Session
  <1>5. CASE doc[s.doc].live
    <2>1. PICK o : o = Reload(s)
      OBVIOUS
    <2>2. /\ o \in Session /\ o.row = doc[s.doc] /\ o.pend = doc[s.doc] /\ o.mint = Keep
          /\ o.cleared = {} /\ Same(o, s) /\ o.goal = s.goal /\ o.replace = s.replace
      BY <1>4, <2>1, ReloadEffect DEF Same
    <2>3. PICK n : n = [o EXCEPT !.pc = "lookup"]
      OBVIOUS
    <2>4. /\ n \in Session /\ n.pc = "lookup" /\ Same(n, s) /\ n.doc = s.doc
          /\ n.row = doc[s.doc] /\ n.pend = doc[s.doc]
          /\ n.mint = Keep /\ n.cleared = {} /\ n.goal = s.goal /\ n.replace = s.replace
      BY <2>2, <2>3 DEF Session, Same
    <2>5. Goto(p, n)
      BY <1>3, <1>5, <2>1, <2>3 DEF MintTaken, Goto
    <2> QED
      BY <1>1, <1>2, <1>3, <1>5, <2>4, <2>5
  <1>6. CASE ~doc[s.doc].live
    BY <1>1, <1>2, <1>3, <1>6 DEF MintTaken, Goto
  <1> QED
    BY <1>5, <1>6

LEMMA ReviewCommitEffect ==
  ASSUME EditsTypeInv, NEW r \in Reviewers, ReviewCommit(r), ses[r].req \in Reviews
  PROVE  /\ Open(r) /\ ses[r].pc = "commit" /\ UNCHANGED <<task, report, setting>>
         /\ \/ UNCHANGED <<rows, told>> /\ Goto(r, Closed)
            \/ /\ names' = names /\ Tell({ses[r].doc})
               /\ \E s \in Session :
                    /\ Committed(r, s, IF s.replace THEN s.goal ELSE s.before, StoredTags(s))
                    /\ StoredTags(s) \in SUBSET Tags
                    /\ Same(s, ses[r]) /\ s.row = ses[r].row
                    /\ s.replace = ses[r].replace /\ s.goal = ses[r].goal
                    /\ s.cleared = ses[r].cleared
                    /\ s.pend.text = ses[r].pend.text /\ s.pend.cat = ses[r].pend.cat
                    /\ s.pend.reasons \subseteq ses[r].pend.reasons
  <1>1. Open(r) /\ ses[r].pc = "commit" /\ UNCHANGED <<task, report, setting>>
    BY DEF ReviewCommit, At, Open
  <1>2. PICK o \in Session : o = ses[r]
    BY <1>1, SessionTypes
  <1>3. o.pend \in Row /\ o.doc \in Docs /\ o.req \in Reviews
    BY <1>2 DEF Session
  <1>4. PICK left : left = IF o.req.approve THEN {} ELSE o.pend.reasons
    OBVIOUS
  <1>5. PICK b : b = [o.pend EXCEPT !.reasons = left,
                        !.status = IF left = {} THEN "RESOLVED" ELSE "NEEDS_REVIEW"]
    OBVIOUS
  <1>6. /\ b \in Row /\ b.text = o.pend.text /\ b.cat = o.pend.cat
        /\ b.reasons \subseteq o.pend.reasons
    BY <1>3, <1>4, <1>5 DEF Row, Status
  <1>7. b = Reviewed(o)
    BY <1>4, <1>5 DEF Reviewed
  <1>8. PICK s : s = [o EXCEPT !.pend = b]
    OBVIOUS
  <1>9. /\ s \in Session /\ s.pend = b /\ Same(s, o) /\ s.row = o.row
        /\ s.replace = o.replace /\ s.goal = o.goal /\ s.cleared = o.cleared
    BY <1>6, <1>8 DEF Session, Same
  <1>10. CASE Ends(r)
    BY <1>1, <1>10 DEF Ends, Goto
  <1>11. CASE ~Ends(r)
    <2>1. /\ doc[o.doc].live /\ ~VersionTaken(o)
          /\ AppendVersion(s, IF o.replace THEN o.goal ELSE o.before)
          /\ tags' = [tags EXCEPT ![o.doc] = StoredTags(o)]
          /\ Tell({o.doc}) /\ Goto(r, Closed) /\ UNCHANGED names
      BY <1>2, <1>7, <1>8, <1>11 DEF ReviewCommit
    <2>2. ~VersionTaken(s) /\ StoredTags(s) = StoredTags(o) /\ s.before = o.before
      BY <1>9, <2>1 DEF VersionTaken, StoredTags, Same
    <2>3. PICK snapshot : snapshot = IF o.replace THEN o.goal ELSE o.before
      OBVIOUS
    <2>4. snapshot \in SUBSET Tags /\ StoredTags(o) \in SUBSET Tags
      BY <1>3, <2>3 DEF Session, StoredTags, EditsTypeInv
    <2>5. Committed(r, s, snapshot, StoredTags(s))
      BY <1>9, <2>1, <2>2, <2>3, <2>4, AppendEffect DEF Committed, Goto, Same
    <2> QED
      BY <1>1, <1>2, <1>6, <1>9, <2>1, <2>2, <2>3, <2>4, <2>5
  <1> QED
    BY <1>10, <1>11

LEMMA BackfillCommitEffect ==
  ASSUME EditsTypeInv, BackfillCommit, loop.on
  PROVE  /\ Open(Backfill) /\ ses[Backfill].pc = "commit"
         /\ UNCHANGED <<told, report, setting>>
         /\ LoopKept /\ task'.loop.loaded = {} /\ Goto(Backfill, Closed)
         /\ \/ UNCHANGED rows /\ VersionTaken(ses[Backfill])
            \/ /\ names' = names /\ task'.loop.done = loop.done \cup {ses[Backfill].doc}
               /\ \E s \in Session :
                    /\ s = ses[Backfill]
                    /\ Committed(Backfill, s, IF s.replace THEN s.goal ELSE s.before,
                                 tags[s.doc])
  <1>1. /\ Open(Backfill) /\ ses[Backfill].pc = "commit"
        /\ UNCHANGED <<told, report, setting>> /\ Goto(Backfill, Closed)
    BY DEF BackfillCommit, At, Open, Goto
  <1>2. PICK s \in Session : s = ses[Backfill]
    BY <1>1, SessionTypes
  <1>3. PICK l \in Loop : l = task.loop /\ task \in [queued : Nat, loop : Loop]
    BY DEF EditsTypeInv
  <1>4. CASE VersionTaken(s)
    <2>1. PICK k : k = [l EXCEPT !.loaded = {}]
      OBVIOUS
    <2>2. task' = [task EXCEPT !.loop = k] /\ UNCHANGED rows
      BY <1>2, <1>3, <1>4, <2>1 DEF BackfillCommit, Loop
    <2>3. /\ k \in Loop /\ k.loaded = {} /\ k.on = l.on /\ k.offset = l.offset
          /\ k.todo = l.todo /\ k.cache = l.cache /\ k.done = l.done
          /\ k.seen = l.seen /\ k.matched = l.matched
      BY <1>3, <2>1 DEF Loop
    <2> QED
      BY <1>1, <1>2, <1>3, <1>4, <2>2, <2>3 DEF LoopKept, loop
  <1>5. CASE ~VersionTaken(s)
    <2>1. PICK k : k = [l EXCEPT !.loaded = {}, !.done = l.done \cup {s.doc}]
      OBVIOUS
    <2>2. task' = [task EXCEPT !.loop = k]
      BY <1>2, <1>3, <1>5, <2>1 DEF BackfillCommit, Loop
    <2>3. /\ k \in Loop /\ k.loaded = {} /\ k.on = l.on /\ k.offset = l.offset
          /\ k.todo = l.todo /\ k.cache = l.cache /\ k.done = l.done \cup {s.doc}
          /\ k.seen = l.seen /\ k.matched = l.matched
      BY <1>3, <2>1 DEF Loop, Session
    <2>4. LoopKept /\ task'.loop.loaded = {} /\ task'.loop.done = loop.done \cup {s.doc}
      BY <1>3, <2>2, <2>3 DEF LoopKept, loop
    <2>5. PICK snapshot : snapshot = IF s.replace THEN s.goal ELSE s.before
      OBVIOUS
    <2>6. /\ doc[s.doc].live /\ AppendVersion(s, snapshot) /\ UNCHANGED <<tags, names>>
          /\ snapshot \in SUBSET Tags
      BY <1>2, <1>5, <2>5 DEF BackfillCommit, Session
    <2>7. tags' = [tags EXCEPT ![s.doc] = tags[s.doc]]
      BY <2>6 DEF EditsTypeInv
    <2>8. Committed(Backfill, s, snapshot, tags[s.doc])
      BY <1>1, <1>5, <2>6, <2>7, AppendEffect DEF Committed
    <2> QED
      BY <1>1, <1>2, <2>4, <2>5, <2>6, <2>8
  <1> QED
    BY <1>4, <1>5

LEMMA UpcomingEffect ==
  ASSUME EditsTypeInv, loop.todo # {}
  PROVE  Upcoming \in loop.todo /\ Upcoming \in Docs
  <1>1. loop.todo \in SUBSET Docs /\ loop.todo \in SUBSET Nat
    BY DocsAssumption DEF EditsTypeInv, Loop, loop
  <1>2. \E d \in loop.todo : \A o \in loop.todo : d <= o
    BY <1>1, LeastNumber
  <1> QED
    BY <1>1, <1>2 DEF Upcoming

LEMMA ReclassifiedEffect ==
  ASSUME NEW row \in Row, NEW out \in [cat : Cats, tags : SUBSET Tags, reasons : SUBSET Reasons],
         NEW n, n = Reclassified(row, out)
  PROVE  /\ n \in Row /\ n.text = row.text /\ n.live = row.live /\ n.current = row.current
         /\ n.cat = out.cat /\ n.reasons = out.reasons \cup (row.reasons \cap {Duplicate})
         /\ n.status = IF n.reasons = {} THEN "NONE" ELSE "NEEDS_REVIEW"
  <1>1. PICK left : left = out.reasons \cup (row.reasons \cap {Duplicate})
    OBVIOUS
  <1>2. n = [row EXCEPT !.cat = out.cat, !.reasons = left,
                        !.status = IF left = {} THEN "NONE" ELSE "NEEDS_REVIEW"]
    BY <1>1 DEF Reclassified
  <1>3. left \in SUBSET (Reasons \cup {Duplicate}) /\ out.cat \in Cats
    BY <1>1
  <1>4. /\ n.text = row.text /\ n.live = row.live /\ n.current = row.current
        /\ n.cat = out.cat /\ n.reasons = left
        /\ n.status = IF left = {} THEN "NONE" ELSE "NEEDS_REVIEW"
    BY <1>2 DEF Row
  <1>5. n \in Row
    BY <1>2, <1>3 DEF Row, Status
  <1> QED
    BY <1>1, <1>4, <1>5

LEMMA SameRow ==
  ASSUME NEW r \in Row, NEW n \in Row,
         r.live = n.live, r.text = n.text, r.cat = n.cat, r.reasons = n.reasons,
         r.status = n.status, r.current = n.current
  PROVE  r = n
  BY DEF Row

\* What a reclassification reads of a document, and what it starts to write.
Reads(d, page, row) ==
    /\ task' \in [queued : Nat, loop : Loop] /\ task'.queued = task.queued
    /\ task'.loop.on /\ task'.loop.offset = loop.offset
    /\ task'.loop.cache = loop.cache /\ task'.loop.done = loop.done
    /\ task'.loop.matched = loop.matched
    /\ task'.loop.todo = loop.todo \ {d} /\ task'.loop.seen = loop.seen \cup {d}
    /\ task'.loop.loaded \subseteq loop.loaded
    /\ page = doc[d] \/ (d \in loop.loaded /\ page = loop.cache[d])
    /\ row = doc[d] \/ (d \in loop.loaded /\ row = loop.cache[d])

Starts(n, d, out, row, plan) ==
    /\ doc[d].live /\ Goto(Backfill, n)
    /\ n.doc = d /\ n.req = Keep /\ n.row = row /\ n.plan = plan
    /\ n.before = tags[d] /\ n.mint = Keep /\ n.goal = out.tags
    /\ IF out.tags # tags[d]
       THEN n.pc = "lookup" /\ n.replace = TRUE /\ n.pend = row /\ n.cleared = tags[d]
       ELSE n.pc = "commit" /\ n.replace = FALSE /\ n.pend = plan /\ n.cleared = {}

LEMMA BackfillReadEffect ==
  ASSUME EditsTypeInv, Roles, BackfillRead
  PROVE  /\ loop.on /\ ~Open(Backfill)
         /\ UNCHANGED <<doc, tags, ver, told, report, setting>>
         /\ names' \in [cats : SUBSET Cats, tags : SUBSET Tags]
         /\ names.cats \subseteq names'.cats /\ names'.tags = names.tags
         /\ \E d \in loop.todo, page, row, plan \in Row :
              /\ d \in Docs /\ Reads(d, page, row)
              /\ plan = Reclassified(row, Rule[page.text])
              /\ \/ /\ Goto(Backfill, Closed)
                    /\ plan = row /\ Rule[page.text].tags = tags[d]
                 \/ \E n \in Session : Starts(n, d, Rule[page.text], row, plan)
  <1>1. /\ loop.on /\ ~Open(Backfill) /\ loop.todo # {}
        /\ UNCHANGED <<doc, tags, ver, told, report, setting>>
    BY DEF BackfillRead, At, Open
  <1>2. PICK d \in Docs : d \in loop.todo /\ d = Upcoming
    BY <1>1, UpcomingEffect
  <1>3. PICK l \in Loop : l = task.loop /\ task \in [queued : Nat, loop : Loop] /\ l = loop
    BY DEF EditsTypeInv, loop
  <1>4. doc[d] \in Row /\ (d \in l.loaded => l.cache[d] \in Row) /\ tags[d] \in SUBSET Tags
    BY <1>3 DEF EditsTypeInv, Roles
  <1>5. PICK page \in Row : page = PageRow(d)
    BY <1>3, <1>4 DEF PageRow
  <1>6. PICK row \in Row : row = RowNow(d)
    BY <1>4, <1>5 DEF RowNow
  <1>7. PICK out \in [cat : Cats, tags : SUBSET Tags, reasons : SUBSET Reasons] :
           out = Rule[page.text]
    BY RuleAssumption DEF Row
  <1>8. PICK plan \in Row : plan = Goal(d) /\ plan = Reclassified(row, Rule[page.text])
    BY <1>5, <1>6, <1>7, ReclassifiedEffect DEF Goal
  <1>9. /\ page = doc[d] \/ (d \in loop.loaded /\ page = loop.cache[d])
        /\ row = doc[d] \/ (d \in loop.loaded /\ row = loop.cache[d])
    BY <1>3, <1>5, <1>6 DEF PageRow, RowNow
  <1>10. /\ names' \in [cats : SUBSET Cats, tags : SUBSET Tags]
         /\ names.cats \subseteq names'.cats /\ names'.tags = names.tags
    <2>1. names' = [names EXCEPT !.cats = @ \cup {out.cat}]
      BY <1>2, <1>5, <1>7 DEF BackfillRead
    <2> QED
      BY <2>1 DEF EditsTypeInv
  <1>11. PICK loaded \in SUBSET l.loaded :
           task' = [task EXCEPT !.loop.todo = @ \ {d}, !.loop.seen = @ \cup {d},
                                !.loop.loaded = loaded]
    BY <1>2, <1>3 DEF BackfillRead, Loop
  <1>12. /\ task' \in [queued : Nat, loop : Loop] /\ task'.queued = task.queued
         /\ task'.loop.on /\ task'.loop.offset = loop.offset
         /\ task'.loop.cache = loop.cache /\ task'.loop.done = loop.done
         /\ task'.loop.matched = loop.matched
         /\ task'.loop.todo = loop.todo \ {d} /\ task'.loop.seen = loop.seen \cup {d}
         /\ task'.loop.loaded \subseteq loop.loaded
    <2>1. PICK k : k = [l EXCEPT !.todo = @ \ {d}, !.seen = @ \cup {d}, !.loaded = loaded]
      OBVIOUS
    <2>2. task' = [task EXCEPT !.loop = k]
      BY <1>3, <1>11, <2>1 DEF Loop
    <2>3. /\ k \in Loop /\ k.on = l.on /\ k.offset = l.offset
          /\ k.cache = l.cache /\ k.done = l.done /\ k.matched = l.matched
          /\ k.todo = l.todo \ {d} /\ k.seen = l.seen \cup {d} /\ k.loaded = loaded
      BY <2>1 DEF Loop
    <2> QED
      BY <1>1, <1>3, <1>11, <2>2, <2>3
  <1>13. Reads(d, page, row)
    BY <1>9, <1>12 DEF Reads
  <1>14. CASE Unchanged(d)
    <2>1. Goto(Backfill, Closed)
      BY <1>2, <1>14 DEF BackfillRead, Goto
    <2>2. plan = row /\ Rule[page.text].tags = tags[d]
      BY <1>5, <1>6, <1>7, <1>8, <1>14 DEF Unchanged, NewTags
    <2> QED
      BY <1>1, <1>2, <1>8, <1>10, <1>13, <2>1, <2>2
  <1>15. CASE ~Unchanged(d)
    <2>1. PICK b : b = Load(d, Keep)
      OBVIOUS
    <2>2. /\ b \in Session /\ b.doc = d /\ b.req = Keep /\ b.before = tags[d] /\ b.mint = Keep
      BY <1>4, <2>1 DEF Load, Session
    <2>3. PICK replace \in BOOLEAN : replace = (out.tags # tags[d])
      OBVIOUS
    <2>4. PICK n : n = [b EXCEPT !.row = row, !.plan = plan,
                          !.pend = IF replace THEN row ELSE plan,
                          !.goal = out.tags, !.replace = replace,
                          !.want = IF replace THEN out.tags ELSE {},
                          !.cleared = IF replace THEN tags[d] ELSE {},
                          !.pc = IF replace THEN "lookup" ELSE "commit"]
      OBVIOUS
    <2>5. /\ n \in Session /\ n.doc = d /\ n.req = Keep /\ n.row = row /\ n.plan = plan
          /\ n.before = tags[d] /\ n.mint = Keep /\ n.goal = out.tags
          /\ n.replace = replace
          /\ n.pc = (IF replace THEN "lookup" ELSE "commit")
          /\ n.pend = (IF replace THEN row ELSE plan)
          /\ n.cleared = (IF replace THEN tags[d] ELSE {})
      BY ZenonT(60), <1>4, <2>2, <2>3, <2>4 DEF Session
    <2>6. Goto(Backfill, n)
      BY <1>2, <1>5, <1>6, <1>7, <1>8, <1>15, <2>1, <2>3, <2>4 DEF BackfillRead, NewTags
    <2>7. doc[d].live
      BY <1>2, <1>15 DEF BackfillRead, Readable
    <2>8. Goto(Backfill, n)
      BY <2>6 DEF Goto
    <2>9. Starts(n, d, Rule[page.text], row, plan)
      BY <1>7, <2>3, <2>5, <2>7, <2>8 DEF Starts
    <2> QED
      BY <1>1, <1>2, <1>8, <1>10, <1>13, <2>5, <2>9
  <1> QED
    BY <1>14, <1>15

\* The tags of a reclassification are stored, and its columns set.
LEMMA StoreTagsEffect ==
  ASSUME EditsTypeInv, StoreTags, loop.on
  PROVE  /\ Open(Backfill) /\ ses[Backfill].pc = "store"
         /\ UNCHANGED <<doc, ver, names, told, report, setting>>
         /\ LoopKept /\ task'.loop.done = loop.done /\ task'.loop.loaded = {}
         /\ \E s \in Session :
              /\ s = ses[Backfill] /\ doc[s.doc].live
              /\ \/ TagTaken(s) /\ tags' = tags /\ Goto(Backfill, Closed)
                 \/ \E n \in Session :
                      /\ tags' = [tags EXCEPT ![s.doc] = StoredTags(s)]
                      /\ StoredTags(s) \in SUBSET Tags
                      /\ Goto(Backfill, n)
                      /\ n.pc = "commit" /\ Same(n, s) /\ n.row = doc[s.doc]
                      /\ n.mint = Keep /\ n.cleared = {}
                      /\ n.goal = s.goal /\ n.replace = s.replace
                      /\ n.pend.live = doc[s.doc].live /\ n.pend.text = doc[s.doc].text
                      /\ n.pend.cat = s.plan.cat /\ n.pend.reasons = s.plan.reasons
                      /\ n.pend.status = s.plan.status
                      /\ n.pend.current = doc[s.doc].current
  <1>1. /\ Open(Backfill) /\ ses[Backfill].pc = "store"
        /\ UNCHANGED <<doc, ver, names, told, report, setting>>
        /\ doc[ses[Backfill].doc].live
    BY DEF StoreTags, At, Open
  <1>2. LoopKept /\ task'.loop.done = loop.done /\ task'.loop.loaded = {}
    BY ExpireEffect DEF StoreTags
  <1>3. PICK s \in Session : s = ses[Backfill]
    BY <1>1, SessionTypes
  <1>4. s.doc \in Docs /\ doc[s.doc] \in Row /\ s.plan \in Row /\ doc' = doc
    BY <1>1 DEF Session, EditsTypeInv
  <1>5. CASE TagTaken(s)
    BY <1>1, <1>2, <1>3, <1>5 DEF StoreTags, Goto
  <1>6. CASE ~TagTaken(s)
    <2>1. PICK o : o = Reload(s)
      OBVIOUS
    <2>2. /\ o \in Session /\ o.row = doc[s.doc] /\ o.mint = Keep /\ o.cleared = {}
          /\ Same(o, s) /\ o.goal = s.goal /\ o.replace = s.replace
      BY <1>4, <2>1, ReloadEffect DEF Same
    <2>3. PICK b : b = [doc[s.doc] EXCEPT !.cat = s.plan.cat,
                          !.reasons = s.plan.reasons, !.status = s.plan.status]
      OBVIOUS
    <2>4. /\ b \in Row /\ b.live = doc[s.doc].live /\ b.text = doc[s.doc].text
          /\ b.cat = s.plan.cat /\ b.reasons = s.plan.reasons
          /\ b.status = s.plan.status /\ b.current = doc[s.doc].current
      BY <1>4, <2>3 DEF Row
    <2>5. PICK n : n = [o EXCEPT !.pc = "commit", !.pend = b]
      OBVIOUS
    <2>6. /\ n \in Session /\ n.pc = "commit" /\ n.pend = b /\ n.row = doc[s.doc]
          /\ n.mint = Keep /\ n.cleared = {} /\ Same(n, s)
          /\ n.goal = s.goal /\ n.replace = s.replace
      BY <2>2, <2>4, <2>5 DEF Session, Same
    <2>7. Goto(Backfill, n) /\ tags' = [tags EXCEPT ![s.doc] = StoredTags(s)]
      BY <1>3, <1>6, <2>1, <2>3, <2>5 DEF StoreTags, Goto
    <2>8. StoredTags(s) \in SUBSET Tags
      BY <1>4 DEF StoredTags, Session, EditsTypeInv
    <2> QED
      BY <1>1, <1>2, <1>3, <2>4, <2>6, <2>7, <2>8
  <1> QED
    BY <1>5, <1>6

LEMMA NoLoopType ==
  /\ NoLoop \in Loop /\ NoLoop.on = FALSE /\ NoLoop.offset = 0 /\ NoLoop.todo = {}
  /\ NoLoop.loaded = {} /\ NoLoop.done = {} /\ NoLoop.seen = {} /\ NoLoop.matched = {}
  BY DEF NoLoop, Loop

LEMMA StartBackfillEffect ==
  ASSUME EditsTypeInv, StartBackfill
  PROVE  /\ ~loop.on /\ task.queued > 0
         /\ UNCHANGED <<rows, ses, told, report, setting>>
         /\ task' \in [queued : Nat, loop : Loop] /\ task'.loop.on
         /\ task'.loop.offset = 0 /\ task'.loop.todo = {} /\ task'.loop.loaded = {}
         /\ task'.loop.done = {} /\ task'.loop.seen = {} /\ task'.loop.matched = Matching
  <1>1. PICK k : k = [NoLoop EXCEPT !.on = TRUE, !.matched = Matching]
    OBVIOUS
  <1>2. /\ k \in Loop /\ k.on = TRUE /\ k.offset = 0 /\ k.todo = {} /\ k.loaded = {}
        /\ k.done = {} /\ k.seen = {} /\ k.matched = Matching
    BY <1>1 DEF NoLoop, Loop, Matching
  <1>3. task.queued \in Nat
    BY DEF EditsTypeInv
  <1>4. /\ task.queued > 0 /\ ~loop.on /\ task' = [queued |-> task.queued - 1, loop |-> k]
        /\ UNCHANGED <<rows, ses, told, report, setting>>
    BY <1>1 DEF StartBackfill
  <1> QED
    BY <1>2, <1>3, <1>4

LEMMA NextPageEffect ==
  ASSUME EditsTypeInv, NextPage
  PROVE  /\ loop.on /\ ~Open(Backfill) /\ loop.todo = {}
         /\ UNCHANGED <<rows, ses, told, report, setting>>
         /\ task' \in [queued : Nat, loop : Loop] /\ task'.loop.on
         /\ task'.queued = task.queued
         /\ task'.loop.offset = loop.offset + BatchSize
         /\ task'.loop.todo = PageOf(loop.offset) /\ task'.loop.loaded = PageOf(loop.offset)
         /\ task'.loop.cache = doc /\ task'.loop.done = loop.done
         /\ task'.loop.seen = loop.seen /\ task'.loop.matched = loop.matched
  <1>1. PICK l \in Loop : l = task.loop /\ task \in [queued : Nat, loop : Loop] /\ l = loop
    BY DEF EditsTypeInv, loop
  <1>2. PICK page \in SUBSET Docs : page = PageOf(loop.offset)
    BY DEF PageOf, Matching
  <1>3. PICK k : k = [l EXCEPT !.todo = page, !.loaded = page, !.cache = doc,
                               !.offset = l.offset + BatchSize]
    OBVIOUS
  <1>4. doc \in [Docs -> Row] /\ l.offset + BatchSize \in Nat
    BY <1>1, BatchAssumption DEF EditsTypeInv, Loop
  <1>5. /\ k \in Loop /\ k.on = l.on /\ k.offset = l.offset + BatchSize
        /\ k.todo = page /\ k.loaded = page /\ k.cache = doc /\ k.done = l.done
        /\ k.seen = l.seen /\ k.matched = l.matched
    BY <1>1, <1>2, <1>3, <1>4 DEF Loop
  <1>6. task' = [task EXCEPT !.loop = k]
    BY <1>1, <1>2, <1>3 DEF NextPage, Loop
  <1>7. /\ loop.on /\ ~Open(Backfill) /\ loop.todo = {}
        /\ UNCHANGED <<rows, ses, told, report, setting>>
    BY DEF NextPage, At, Open
  <1> QED
    BY <1>1, <1>2, <1>5, <1>6, <1>7

LEMMA FinishBackfillEffect ==
  ASSUME EditsTypeInv, FinishBackfill
  PROVE  /\ loop.on /\ ~Open(Backfill) /\ loop.todo = {} /\ PageOf(loop.offset) = {}
         /\ UNCHANGED <<rows, ses, setting>>
         /\ Tell({d \in loop.done : doc[d].live})
         /\ report' = {d \in loop.matched \ loop.seen : Matches(d)}
         /\ report' \in SUBSET Docs
         /\ task' \in [queued : Nat, loop : Loop]
         /\ task'.loop = NoLoop /\ task'.queued = task.queued
  <1>1. /\ loop.on /\ ~Open(Backfill) /\ loop.todo = {} /\ PageOf(loop.offset) = {}
        /\ UNCHANGED <<rows, ses, setting>>
        /\ Tell({d \in loop.done : doc[d].live})
        /\ report' = {d \in loop.matched \ loop.seen : Matches(d)}
        /\ task' = [task EXCEPT !.loop = NoLoop]
    BY DEF FinishBackfill, At, Open
  <1>2. task \in [queued : Nat, loop : Loop] /\ loop.matched \in SUBSET Docs
    BY DEF EditsTypeInv, loop, Loop
  <1>3. report' \in SUBSET Docs
    BY <1>1, <1>2
  <1>4. /\ task' \in [queued : Nat, loop : Loop]
        /\ task'.loop = NoLoop /\ task'.queued = task.queued
    BY <1>1, <1>2, NoLoopType
  <1> QED
    BY <1>1, <1>3, <1>4

LEMMA BackfillEndsEffect ==
  ASSUME EditsTypeInv, BackfillDies \/ BackfillKilled
  PROVE  /\ loop.on /\ UNCHANGED <<rows, told, report>>
         /\ Goto(Backfill, Closed)
         /\ task' \in [queued : Nat, loop : Loop] /\ task'.loop = NoLoop
         /\ BackfillDies => setting' = setting /\ task'.queued = task.queued
         /\ BackfillKilled => Count("kills") /\ task'.queued = task.queued + 1
  <1>1. task \in [queued : Nat, loop : Loop]
    BY DEF EditsTypeInv
  <1>2. CASE BackfillDies
    <2>1. /\ loop.on /\ UNCHANGED <<rows, told, report, setting>>
          /\ Goto(Backfill, Closed) /\ task' = [task EXCEPT !.loop = NoLoop]
      BY <1>2 DEF BackfillDies, Goto
    <2>2. ~BackfillKilled \/ (Count("kills") /\ task'.queued = task.queued + 1)
      BY DEF BackfillKilled
    <2> QED
      BY <1>1, <2>1, <2>2, NoLoopType
  <1>3. CASE BackfillKilled
    <2>1. /\ loop.on /\ UNCHANGED <<rows, told, report>> /\ Count("kills")
          /\ Goto(Backfill, Closed)
          /\ task' = [queued |-> task.queued + 1, loop |-> NoLoop]
      BY <1>3 DEF BackfillKilled, Goto
    <2>2. ~BackfillDies \/ (setting' = setting /\ task'.queued = task.queued)
      BY <1>1 DEF BackfillDies
    <2> QED
      BY <1>1, <2>1, <2>2, NoLoopType
  <1> QED
    BY <1>2, <1>3

LEMMA DeleteDocumentEffect ==
  ASSUME EditsTypeInv, NEW d \in Docs, DeleteDocument(d)
  PROVE  /\ doc[d].live /\ Count("deletes")
         /\ UNCHANGED <<ver, names, ses, task, told, report>>
         /\ tags' = [tags EXCEPT ![d] = {}]
         /\ \E m \in Row : /\ doc' = [doc EXCEPT ![d] = m] /\ ~m.live
                           /\ m.current = doc[d].current /\ m.reasons = doc[d].reasons
  <1>1. doc[d] \in Row
    BY DEF EditsTypeInv
  <1>2. PICK m : m = [doc[d] EXCEPT !.live = FALSE]
    OBVIOUS
  <1>3. m \in Row /\ m.live = FALSE /\ m.current = doc[d].current /\ m.reasons = doc[d].reasons
    BY <1>1, <1>2 DEF Row
  <1>4. doc' = [doc EXCEPT ![d] = m]
    BY <1>2 DEF DeleteDocument
  <1> QED
    BY <1>3, <1>4 DEF DeleteDocument

\* The index is told what it would read of a document now.
LEMMA TellEffect ==
  ASSUME EditsTypeInv, NEW ds, Tell(ds),
         doc' \in [Docs -> Row], tags' \in [Docs -> SUBSET Tags]
  PROVE  /\ told' \in [Docs -> Entry]
         /\ \A d \in Docs : d \in ds =>
              told'[d] = [text |-> doc'[d].text, cat |-> doc'[d].cat,
                          tags |-> tags'[d], status |-> doc'[d].status]
         /\ \A d \in Docs \ ds : told'[d] = told[d]
  <1>1. \A d \in Docs : d \in ds =>
              told'[d] = [text |-> doc'[d].text, cat |-> doc'[d].cat,
                          tags |-> tags'[d], status |-> doc'[d].status]
    BY DEF Tell
  <1>2. \A d \in Docs \ ds : told'[d] = told[d] /\ told[d] \in Entry
    BY DEF Tell, EditsTypeInv
  <1>3. \A d \in Docs : [text |-> doc'[d].text, cat |-> doc'[d].cat,
                         tags |-> tags'[d], status |-> doc'[d].status] \in Entry
    BY DEF Entry, Row
  <1>4. told' = [d \in Docs |-> told'[d]]
    BY DEF Tell
  <1>5. told' \in [Docs -> Entry]
    BY <1>1, <1>2, <1>3, <1>4
  <1> QED
    BY <1>1, <1>2, <1>5

-----------------------------------------------------------------------------
(* Types, roles and version numbers.                                       *)

Moves ==
    /\ doc' \in [Docs -> Row] /\ ver' \in [Docs -> Seq(Version)]
    /\ tags' \in [Docs -> SUBSET Tags]
    /\ \A d \in Docs : /\ doc'[d].current = Len(ver'[d]) /\ ver'[d] # <<>>
                       /\ Len(ver[d]) <= Len(ver'[d])

LoopFine ==
    /\ task' \in [queued : Nat, loop : Loop]
    /\ ~task'.loop.on => task'.loop = NoLoop
    /\ task'.loop.loaded # {} => task'.loop.cache \in [Docs -> Row]
    /\ \A d \in task'.loop.loaded : task'.loop.cache[d].current <= Len(ver[d])

LEMMA NothingMoves ==
  ASSUME EditsInv, doc' = doc, ver' = ver, tags' = tags
  PROVE  Moves
  <1>1. /\ doc \in [Docs -> Row] /\ ver \in [Docs -> Seq(Version)]
        /\ tags \in [Docs -> SUBSET Tags]
        /\ \A d \in Docs : doc[d].current = Len(ver[d]) /\ ver[d] # <<>>
    BY DEF EditsInv, EditsTypeInv, Numbered
  <1>2. \A d \in Docs : Len(ver[d]) <= Len(ver[d])
    BY <1>1
  <1> QED
    BY <1>1, <1>2 DEF Moves

LEMMA KeptFine ==
  ASSUME EditsInv, LoopKept \/ task' = task
  PROVE  LoopFine /\ (loop.on => task'.loop.on)
  <1>1. /\ task \in [queued : Nat, loop : Loop] /\ (~loop.on => loop = NoLoop)
        /\ loop.loaded # {} => loop.cache \in [Docs -> Row]
        /\ \A d \in loop.loaded : loop.cache[d].current <= Len(ver[d])
    BY DEF EditsInv, EditsTypeInv, Roles, Numbered
  <1>2. CASE task' = task
    BY <1>1, <1>2 DEF LoopFine, loop
  <1>3. CASE LoopKept /\ loop.on
    BY <1>1, <1>3 DEF LoopFine, LoopKept
  <1> QED
    BY <1>2, <1>3 DEF LoopKept

LEMMA CommitMoves ==
  ASSUME EditsInv, NEW p, NEW s \in Session, NEW snapshot, NEW newTags \in SUBSET Tags,
         Committed(p, s, snapshot, newTags), s.row.current <= Len(ver[s.doc])
  PROVE  /\ Moves /\ s.row.current = Len(ver[s.doc])
         /\ s.row.current = doc[s.doc].current
  <1>1. /\ doc \in [Docs -> Row] /\ ver \in [Docs -> Seq(Version)]
        /\ tags \in [Docs -> SUBSET Tags]
        /\ \A d \in Docs : doc[d].current = Len(ver[d]) /\ ver[d] # <<>>
    BY DEF EditsInv, EditsTypeInv, Numbered
  <1>2. s.doc \in Docs /\ s.row.current \in Nat
    BY DEF Session, Row
  <1>3. PICK m \in Row, v \in Version :
          /\ doc' = [doc EXCEPT ![s.doc] = m] /\ m.current = s.row.current + 1
          /\ ver' = [ver EXCEPT ![s.doc] = Append(ver[s.doc], v)]
          /\ tags' = [tags EXCEPT ![s.doc] = newTags]
          /\ ~VersionTaken(s)
    BY DEF Committed
  <1>4. ver[s.doc] \in Seq(Version) /\ Len(ver[s.doc]) \in Nat
    BY <1>1, <1>2
  <1>5. s.row.current = Len(ver[s.doc])
    BY <1>2, <1>3, <1>4 DEF VersionTaken
  <1>6. PICK w : w = Append(ver[s.doc], v)
    OBVIOUS
  <1>7. w \in Seq(Version) /\ Len(w) = Len(ver[s.doc]) + 1 /\ w # <<>>
    BY <1>4, <1>6
  <1>8. ASSUME NEW d \in Docs
        PROVE  /\ doc'[d].current = Len(ver'[d]) /\ ver'[d] # <<>>
               /\ Len(ver[d]) <= Len(ver'[d])
    <2>1. Len(ver[d]) \in Nat
      BY <1>1
    <2>2. CASE d = s.doc
      BY <1>1, <1>2, <1>3, <1>4, <1>5, <1>6, <1>7, <2>2
    <2>3. CASE d # s.doc
      BY <1>1, <1>3, <2>1, <2>3
    <2> QED
      BY <2>2, <2>3
  <1>9. /\ doc' \in [Docs -> Row] /\ ver' \in [Docs -> Seq(Version)]
        /\ tags' \in [Docs -> SUBSET Tags]
    BY <1>1, <1>3, <1>6, <1>7
  <1> QED
    BY <1>1, <1>2, <1>5, <1>8, <1>9 DEF Moves

LEMMA SessionStep ==
  ASSUME EditsInv, Moves, LoopFine, NEW p \in Sessions, NEW n \in {Closed} \cup Session,
         Goto(p, n),
         names' \in [cats : SUBSET Cats, tags : SUBSET Tags], told' \in [Docs -> Entry],
         report' \in SUBSET Docs, setting' \in Setting,
         n # Closed => Role(p, n) /\ Timely(n)',
         p = Backfill => n = Closed \/ task'.loop.on,
         p # Backfill /\ loop.on => task'.loop.on
  PROVE  EditsInv'
  <1>1. ses \in [Sessions -> {Closed} \cup Session] /\ ses' \in [Sessions -> {Closed} \cup Session]
    BY DEF EditsInv, EditsTypeInv, Goto
  <1>2. EditsTypeInv'
    BY <1>1 DEF EditsTypeInv, Moves, LoopFine
  <1>3. \A q \in Sessions : ses'[q] = IF q = p THEN n ELSE ses[q]
    BY <1>1 DEF Goto
  <1>4. n.pc # "closed" => n # Closed
    BY DEF Closed
  <1>5. Roles'
    <2>1. \A q \in Sessions : ses'[q].pc # "closed" => Role(q, ses'[q])
      BY <1>3, <1>4 DEF EditsInv, Roles, Open
    <2>2. ses'[Backfill].pc # "closed" => task'.loop.on
      BY <1>3, <1>4 DEF EditsInv, Roles, Open, Sessions
    <2> QED
      BY <2>1, <2>2 DEF Roles, Open, LoopFine, loop
  <1>6. Numbered'
    <2>1. ASSUME NEW q \in Sessions, ses'[q].pc # "closed"
          PROVE  ses'[q].row.current <= Len(ver'[ses'[q].doc])
      <3>1. CASE q = p
        BY <1>3, <1>4, <2>1, <3>1 DEF Timely
      <3>2. CASE q # p
        <4>1. ses'[q] = ses[q] /\ ses[q] \in Session
          BY <1>1, <1>3, <2>1, <3>2 DEF Closed
        <4>2. ses[q].row.current \in Nat /\ ses[q].doc \in Docs
          BY <4>1 DEF Session, Row
        <4>3. ses[q].row.current <= Len(ver[ses[q].doc])
          BY <2>1, <4>1 DEF EditsInv, Numbered, Open
        <4>4. /\ Len(ver[ses[q].doc]) <= Len(ver'[ses[q].doc])
              /\ Len(ver[ses[q].doc]) \in Nat /\ Len(ver'[ses[q].doc]) \in Nat
          BY <4>2 DEF Moves, EditsInv, EditsTypeInv
        <4> QED
          BY <4>1, <4>2, <4>3, <4>4
      <3> QED
        BY <3>1, <3>2
    <2>2. ASSUME NEW d \in task'.loop.loaded
          PROVE  task'.loop.cache[d].current <= Len(ver'[d])
      <3>1. d \in Docs /\ task'.loop.cache[d] \in Row
        BY <2>2 DEF LoopFine, Loop
      <3>2. task'.loop.cache[d].current \in Nat /\ task'.loop.cache[d].current <= Len(ver[d])
        BY <2>2, <3>1 DEF LoopFine, Row
      <3>3. /\ Len(ver[d]) <= Len(ver'[d]) /\ Len(ver[d]) \in Nat /\ Len(ver'[d]) \in Nat
        BY <3>1 DEF Moves, EditsInv, EditsTypeInv
      <3> QED
        BY <3>2, <3>3
    <2> QED
      BY <2>1, <2>2 DEF Numbered, Open, Moves, loop
  <1> QED
    BY <1>2, <1>5, <1>6 DEF EditsInv

\* A step that leaves documents, versions and tags alone.
LEMMA StillStep ==
  ASSUME EditsInv, NEW p \in Sessions, NEW n \in {Closed} \cup Session, Goto(p, n),
         UNCHANGED <<doc, tags, ver, told, report>>,
         names' \in [cats : SUBSET Cats, tags : SUBSET Tags], setting' \in Setting,
         LoopKept \/ task' = task, p = Backfill => loop.on,
         n # Closed => Role(p, n) /\ Timely(n)'
  PROVE  EditsInv'
  <1>1. told' \in [Docs -> Entry] /\ report' \in SUBSET Docs
    BY DEF EditsInv, EditsTypeInv
  <1>2. Moves
    BY NothingMoves
  <1>3. LoopFine /\ (loop.on => task'.loop.on)
    BY KeptFine
  <1> QED
    BY <1>1, <1>2, <1>3, SessionStep

\* What an open session is entitled to.
LEMMA OpenSession ==
  ASSUME EditsInv, NEW p \in Sessions, Open(p)
  PROVE  /\ ses[p] \in Session /\ Role(p, ses[p]) /\ ses[p].doc \in Docs
         /\ ses[p].row \in Row /\ ses[p].pend \in Row
         /\ ses[p].row.current <= Len(ver[ses[p].doc])
         /\ p = Backfill => loop.on
  BY SessionTypes DEF EditsInv, Roles, Numbered, Session

LEMMA EditsInitial ==
  ASSUME Init
  PROVE  EditsInv
  <1>1. setting \in Settings /\ setting \in Setting
    BY SettingsAssumption DEF Init
  <1>2. PICK c \in setting.cats, t \in [Docs -> Texts],
             s \in [Docs -> {"NONE", "NEEDS_REVIEW"}], g \in [Docs -> SUBSET setting.tags],
             r \in SUBSET (Reasons \cup {Duplicate}) \ {{}} :
          /\ \A d \in Docs \ setting.docs :
                s[d] = "NONE" /\ g[d] = {} /\ t[d] = CHOOSE x \in Texts : TRUE
          /\ doc = [d \in Docs |->
               [live |-> d \in setting.docs, text |-> t[d], cat |-> c,
                reasons |-> IF s[d] = "NONE" THEN {} ELSE r, status |-> s[d],
                current |-> 1]]
          /\ tags = g
    BY DEF Init
  <1>3. c \in Cats /\ setting.tags \subseteq Tags
    BY <1>1, <1>2 DEF Setting
  <1>4. doc \in [Docs -> Row] /\ tags \in [Docs -> SUBSET Tags]
    <2>1. ASSUME NEW d \in Docs
          PROVE  doc[d] \in Row /\ tags[d] \in SUBSET Tags
      BY <1>2, <1>3 DEF Row, Status
    <2> QED
      BY <1>2, <2>1
  <1>5. /\ ver = [d \in Docs |->
                <<[text |-> doc[d].text, cat |-> doc[d].cat, tags |-> tags[d],
                   by |-> [text |-> Keep, cat |-> Keep, tags |-> Keep]]>>]
        /\ names = [cats |-> setting.cats, tags |-> setting.tags]
        /\ ses = [p \in Sessions |-> Closed]
        /\ task = [queued |-> 0, loop |-> NoLoop]
        /\ told = [d \in Docs |-> Searched(d)]
        /\ report = {}
    BY DEF Init
  <1>6. ASSUME NEW d \in Docs
        PROVE  /\ ver[d] \in Seq(Version) /\ Len(ver[d]) = 1 /\ ver[d] # <<>>
               /\ doc[d].current = 1 /\ told[d] \in Entry
    <2>1. [text |-> doc[d].text, cat |-> doc[d].cat, tags |-> tags[d],
           by |-> [text |-> Keep, cat |-> Keep, tags |-> Keep]] \in Version
      BY <1>4 DEF Version, Row
    <2>2. Searched(d) \in Entry
      BY <1>4 DEF Searched, Entry, Row
    <2> QED
      BY <1>2, <1>5, <2>1, <2>2
  <1>7. ver \in [Docs -> Seq(Version)] /\ told \in [Docs -> Entry]
    BY <1>5, <1>6
  <1>8. names \in [cats : SUBSET Cats, tags : SUBSET Tags]
    BY <1>1, <1>3, <1>5 DEF Setting
  <1>9. task \in [queued : Nat, loop : Loop] /\ task.loop = NoLoop
    BY <1>5, NoLoopType
  <1>10. EditsTypeInv
    BY <1>1, <1>4, <1>5, <1>7, <1>8, <1>9 DEF EditsTypeInv
  <1>11. \A p \in Sessions : ~Open(p)
    BY <1>5 DEF Open, Closed
  <1>12. Backfill \in Sessions
    BY DEF Sessions
  <1>13. Roles /\ Numbered
    BY <1>6, <1>9, <1>11, <1>12, NoLoopType DEF Roles, Numbered, loop
  <1> QED
    BY <1>10, <1>13 DEF EditsInv

\* A step that leaves the sessions alone.
LEMMA SameSessions ==
  ASSUME EditsInv, Moves, LoopFine, ses' = ses,
         names' \in [cats : SUBSET Cats, tags : SUBSET Tags], told' \in [Docs -> Entry],
         report' \in SUBSET Docs, setting' \in Setting,
         Open(Backfill) /\ loop.on => task'.loop.on
  PROVE  EditsInv'
  <1>1. ses \in [Sessions -> {Closed} \cup Session] /\ Backfill \in Sessions
    BY DEF EditsInv, EditsTypeInv, Sessions
  <1>2. PICK n \in {Closed} \cup Session : n = ses[Backfill]
    BY <1>1
  <1>3. Goto(Backfill, n)
    BY <1>1, <1>2 DEF Goto
  <1>4. ASSUME n # Closed
        PROVE  Role(Backfill, n) /\ Timely(n)' /\ task'.loop.on
    <2>1. Open(Backfill)
      BY <1>1, <1>2, <1>4, SessionTypes DEF EditsInv
    <2>2. /\ Role(Backfill, n) /\ loop.on /\ n.row.current <= Len(ver[n.doc])
          /\ n.doc \in Docs /\ n.row \in Row
      BY <1>1, <1>2, <2>1, OpenSession
    <2>3. /\ Len(ver[n.doc]) <= Len(ver'[n.doc]) /\ n.row.current \in Nat
          /\ Len(ver[n.doc]) \in Nat /\ Len(ver'[n.doc]) \in Nat
      BY <2>2 DEF Moves, EditsInv, EditsTypeInv, Row
    <2>4. Timely(n)'
      BY <2>2, <2>3 DEF Timely
    <2> QED
      BY <2>1, <2>2, <2>4
  <1> QED
    BY <1>1, <1>3, <1>4, SessionStep

LEMMA EditorRole ==
  ASSUME NEW e \in Editors, NEW s, s.pc = "category", s.req \in Patches,
         s.pend.reasons = s.row.reasons
  PROVE  Role(e, s)
  BY SessionsAssumption DEF Role

LEMMA ReviewerRole ==
  ASSUME NEW r \in Reviewers, NEW s,
         s.pc \in {"category", "tags", "lookup", "mint", "commit"},
         s.req \in Reviews, s.pend.reasons \subseteq s.row.reasons,
         s.pc = "mint" => s.mint \in Tags
  PROVE  Role(r, s)
  BY SessionsAssumption DEF Role

LEMMA BackfillRole ==
  ASSUME NEW s, s.pc \in {"lookup", "mint", "store", "commit"}, s.req = Keep,
         s.pc = "mint" => s.mint \in Tags
  PROVE  Role(Backfill, s)
  BY SessionsAssumption DEF Role

LEMMA EditsInductive ==
  ASSUME EditsInv, [Next]_vars
  PROVE  EditsInv'
  <1>0. EditsTypeInv /\ Roles /\ Numbered
    BY DEF EditsInv
  <1>1. /\ names \in [cats : SUBSET Cats, tags : SUBSET Tags] /\ told \in [Docs -> Entry]
        /\ report \in SUBSET Docs /\ setting \in Setting /\ Closed \in {Closed} \cup Session
        /\ doc \in [Docs -> Row] /\ tags \in [Docs -> SUBSET Tags]
        /\ \A d \in Docs : doc[d].current = Len(ver[d])
        /\ Editors \subseteq Sessions /\ Reviewers \subseteq Sessions /\ Backfill \in Sessions
        /\ (\A e \in Editors : e \notin Reviewers /\ e # Backfill) /\ Backfill \notin Reviewers
    BY <1>0, SessionTypes DEF EditsTypeInv, Numbered
  <1>2. ASSUME UNCHANGED vars PROVE EditsInv'
    <2>1. EditsTypeInv'
      BY <1>0, <1>2 DEF vars, rows, EditsTypeInv
    <2>2. Roles'
      BY <1>0, <1>2 DEF vars, rows, Roles, Open, loop
    <2>3. Numbered'
      BY <1>0, <1>2 DEF vars, rows, Numbered, Open, loop
    <2> QED
      BY <2>1, <2>2, <2>3 DEF EditsInv
  <1>3. ASSUME NEW e \in Editors, NEW d \in Docs, NEW q, q \in setting.patches, PatchLoad(e, d, q)
        PROVE  EditsInv'
    <2>1. PICK n \in Session : Opened(n, e, d, q) /\ PatchOpened(n, d, q)
      BY <1>0, <1>3, PatchLoadEffect
    <2>2. /\ UNCHANGED <<doc, tags, ver, names, task, told, report>> /\ setting' \in Setting
          /\ q \in Patches
      BY <1>0, <1>3, PatchLoadEffect, CountEffect DEF rows, Events
    <2>3. /\ Goto(e, n) /\ n.pc = "category" /\ n.doc = d /\ n.row = doc[d] /\ n.req = q
          /\ n.pend.reasons = doc[d].reasons
      BY <2>1 DEF Opened, PatchOpened
    <2>4. Role(e, n)
      BY <2>2, <2>3, EditorRole
    <2>5. Timely(n)'
      BY <1>1, <2>2, <2>3 DEF Timely, Row
    <2> QED
      BY <1>1, <2>2, <2>3, <2>4, <2>5, StillStep
  <1>4. ASSUME NEW e \in Editors, PatchCategoryTaken(e)
        PROVE  EditsInv'
    <2>1. /\ Open(e) /\ UNCHANGED <<doc, tags, ver, names, task, told, report, setting>>
      BY <1>0, <1>4, PatchCategoryTakenEffect DEF rows
    <2>2. Role(e, ses[e]) /\ ses[e].doc \in Docs
      BY <1>0, <1>1, <2>1, OpenSession
    <2>3. PICK n \in {Closed} \cup Session :
            /\ Goto(e, n)
            /\ n # Closed => /\ n.pc = "category" /\ n.doc = ses[e].doc /\ n.req = ses[e].req
                             /\ n.row = doc[n.doc] /\ n.pend = doc[n.doc]
      BY <1>0, <1>1, <1>4, PatchCategoryTakenEffect
    <2>4. ASSUME n # Closed
          PROVE  Role(e, n) /\ Timely(n)'
      <3>1. /\ n.pc = "category" /\ n.doc = ses[e].doc /\ n.req = ses[e].req
            /\ n.row = doc[n.doc] /\ n.pend = doc[n.doc]
        BY <2>3, <2>4
      <3>2. Role(e, n)
        BY <2>2, <3>1, EditorRole DEF Role
      <3>3. Timely(n)'
        BY <1>1, <2>1, <2>2, <3>1 DEF Timely, Row
      <3> QED
        BY <3>2, <3>3
    <2> QED
      BY <1>0, <1>1, <2>1, <2>3, <2>4, StillStep
  <1>5. ASSUME NEW e \in Editors, PatchCommit(e)
        PROVE  EditsInv'
    <2>1. Open(e)
      BY <1>0, <1>5 DEF PatchCommit, At, Open
    <2>2. /\ ses[e].req \in Patches /\ ses[e].row.current <= Len(ver[ses[e].doc])
      BY <1>0, <1>1, <2>1, OpenSession DEF Role
    <2>3. UNCHANGED <<task, report, setting>>
      BY <1>0, <1>5, <2>2, PatchCommitEffect
    <2>4. CASE UNCHANGED <<rows, told>> /\ Goto(e, Closed)
      BY <1>0, <1>1, <2>3, <2>4, StillStep DEF rows
    <2>5. CASE ~(UNCHANGED <<rows, told>> /\ Goto(e, Closed))
      <3>1. PICK s \in Session, newTags \in SUBSET Tags :
              /\ Committed(e, s, newTags, newTags)
              /\ s.doc = ses[e].doc /\ s.row = ses[e].row
              /\ names' \in [cats : SUBSET Cats, tags : SUBSET Tags]
              /\ Tell({ses[e].doc})
        BY <1>0, <1>5, <2>2, <2>5, PatchCommitEffect
      <3>2. Moves
        BY <1>0, <2>2, <3>1, CommitMoves
      <3>3. told' \in [Docs -> Entry] /\ Goto(e, Closed)
        BY <1>0, <3>1, <3>2, TellEffect DEF Moves, Committed
      <3> QED
        BY <1>0, <1>1, <2>3, <3>1, <3>2, <3>3, KeptFine, SessionStep
    <2> QED
      BY <1>0, <2>4, <2>5
  <1>6. ASSUME NEW r \in Reviewers, NEW d \in Docs, NEW q, q \in setting.reviews, ReviewLoad(r, d, q)
        PROVE  EditsInv'
    <2>1. PICK n \in Session : Opened(n, r, d, q) /\ ReviewOpened(n, d)
      BY <1>0, <1>6, ReviewLoadEffect
    <2>2. /\ UNCHANGED <<doc, tags, ver, names, task, told, report>> /\ setting' \in Setting
          /\ q \in Reviews
      BY <1>0, <1>6, ReviewLoadEffect, CountEffect DEF rows, Events
    <2>3. /\ Goto(r, n) /\ n.pc = "category" /\ n.doc = d /\ n.row = doc[d] /\ n.req = q
          /\ n.pend = doc[d]
      BY <2>1 DEF Opened, ReviewOpened
    <2>4. Role(r, n)
      BY <2>2, <2>3, ReviewerRole
    <2>5. Timely(n)'
      BY <1>1, <2>2, <2>3 DEF Timely, Row
    <2> QED
      BY <1>1, <2>2, <2>3, <2>4, <2>5, StillStep
  <1>7. ASSUME NEW r \in Reviewers, ReviewCategory(r)
        PROVE  EditsInv'
    <2>1. Open(r)
      BY <1>0, <1>7 DEF ReviewCategory, At, Open
    <2>2. /\ ses[r].req \in Reviews /\ ses[r].row.current <= Len(ver[ses[r].doc])
          /\ ses[r].pend.reasons \subseteq ses[r].row.reasons /\ ses[r].doc \in Docs
      BY <1>0, <1>1, <2>1, OpenSession DEF Role
    <2>3. /\ UNCHANGED <<doc, tags, ver, told, task, report, setting>>
          /\ names' \in [cats : SUBSET Cats, tags : SUBSET Tags]
      BY <1>0, <1>7, <2>2, ReviewCategoryEffect
    <2>4. CASE Goto(r, Closed)
      BY <1>0, <1>1, <2>3, <2>4, StillStep
    <2>5. CASE ~Goto(r, Closed)
      <3>1. PICK n \in Session, b \in Row :
              /\ Goto(r, n) /\ n.pc = "tags" /\ Same(n, ses[r])
              /\ \/ b = doc[n.doc] /\ n.row = b
                 \/ b = ses[r].pend /\ n.row = ses[r].row
              /\ n.pend.reasons \subseteq b.reasons
        BY <1>0, <1>7, <2>2, <2>5, ReviewCategoryEffect
      <3>2. n.doc = ses[r].doc /\ n.req \in Reviews /\ n.pend.reasons \subseteq n.row.reasons
        BY <2>2, <3>1 DEF Same
      <3>3. Role(r, n)
        BY <3>1, <3>2, ReviewerRole
      <3>4. Timely(n)'
        BY <1>1, <2>2, <2>3, <3>1, <3>2 DEF Timely, Row
      <3> QED
        BY <1>1, <2>3, <3>1, <3>3, <3>4, StillStep
    <2> QED
      BY <1>0, <2>4, <2>5
  <1>8. ASSUME NEW r \in Reviewers, ReviewTags(r)
        PROVE  EditsInv'
    <2>1. Open(r)
      BY <1>0, <1>8 DEF ReviewTags, At, Open
    <2>2. /\ ses[r].req \in Reviews /\ ses[r].row.current <= Len(ver[ses[r].doc])
          /\ ses[r].pend.reasons \subseteq ses[r].row.reasons
      BY <1>0, <1>1, <2>1, OpenSession DEF Role
    <2>3. UNCHANGED <<doc, tags, ver, names, told, task, report, setting>>
      BY <1>0, <1>8, <2>2, ReviewTagsEffect DEF rows
    <2>4. PICK n \in {Closed} \cup Session :
            /\ n \in Session /\ Goto(r, n) /\ Same(n, ses[r])
            /\ n.row = ses[r].row /\ n.pend = ses[r].pend /\ n.pc \in {"commit", "lookup"}
      BY ZenonT(60), <1>0, <1>8, <2>2, ReviewTagsEffect
    <2>5. Role(r, n)
      BY <2>2, <2>4, ReviewerRole DEF Same
    <2>6. Timely(n)'
      BY <2>2, <2>3, <2>4 DEF Timely, Same
    <2> QED
      BY <1>1, <2>3, <2>4, <2>5, <2>6, StillStep
  <1>9. ASSUME NEW r \in Reviewers, ReviewCommit(r)
        PROVE  EditsInv'
    <2>1. Open(r)
      BY <1>0, <1>9 DEF ReviewCommit, At, Open
    <2>2. /\ ses[r].req \in Reviews /\ ses[r].row.current <= Len(ver[ses[r].doc])
      BY <1>0, <1>1, <2>1, OpenSession DEF Role
    <2>3. UNCHANGED <<task, report, setting>>
      BY <1>0, <1>9, <2>2, ReviewCommitEffect
    <2>4. CASE UNCHANGED <<rows, told>> /\ Goto(r, Closed)
      BY <1>0, <1>1, <2>3, <2>4, StillStep DEF rows
    <2>5. CASE ~(UNCHANGED <<rows, told>> /\ Goto(r, Closed))
      <3>1. PICK s \in Session :
              /\ Committed(r, s, IF s.replace THEN s.goal ELSE s.before, StoredTags(s))
              /\ StoredTags(s) \in SUBSET Tags /\ Same(s, ses[r]) /\ s.row = ses[r].row
              /\ names' = names /\ Tell({ses[r].doc})
        BY <1>0, <1>9, <2>2, <2>5, ReviewCommitEffect
      <3>5. PICK snapshot : snapshot = IF s.replace THEN s.goal ELSE s.before
        OBVIOUS
      <3>6. PICK newTags \in SUBSET Tags : newTags = StoredTags(s)
        BY <3>1
      <3>2. Committed(r, s, snapshot, newTags)
        BY <3>1, <3>5, <3>6
      <3>3. Moves
        BY <1>0, <2>2, <3>1, <3>2, CommitMoves DEF Same
      <3>4. told' \in [Docs -> Entry] /\ Goto(r, Closed)
        BY <1>0, <3>1, <3>2, <3>3, TellEffect DEF Moves, Committed
      <3> QED
        BY <1>0, <1>1, <2>3, <3>1, <3>3, <3>4, KeptFine, SessionStep
    <2> QED
      BY <1>0, <2>4, <2>5
  <1>10. ASSUME NEW p \in Reviewers \cup {Backfill}, LookUp(p)
         PROVE  EditsInv'
    <2>1. Open(p)
      BY <1>0, <1>10 DEF LookUp, At, Open
    <2>2. Role(p, ses[p]) /\ ses[p].row.current <= Len(ver[ses[p].doc]) /\ p \in Sessions
          /\ (p = Backfill => loop.on)
      BY <1>0, <1>1, <2>1, OpenSession
    <2>3. UNCHANGED <<doc, tags, ver, names, told, task, report, setting>>
      BY <1>0, <1>10, LookUpEffect DEF rows
    <2>4. PICK n \in {Closed} \cup Session :
            /\ n \in Session /\ Goto(p, n) /\ Same(n, ses[p])
            /\ n.row = ses[p].row /\ n.pend = ses[p].pend
            /\ \/ n.pc = IF p = Backfill THEN "store" ELSE "commit"
               \/ n.pc = "mint" /\ n.mint \in Tags
      BY <1>0, <1>10, LookUpEffect
    <2>5. Role(p, n)
      <3>1. CASE p \in Reviewers
        BY <1>1, <2>2, <2>4, <3>1, ReviewerRole DEF Role, Same
      <3>2. CASE p = Backfill
        BY <2>2, <2>4, <3>2, BackfillRole DEF Role, Same
      <3> QED
        BY <1>10, <3>1, <3>2
    <2>6. Timely(n)'
      BY <2>2, <2>3, <2>4 DEF Timely, Same
    <2> QED
      BY <1>1, <2>2, <2>3, <2>4, <2>5, <2>6, StillStep
  <1>11. ASSUME NEW p \in Reviewers \cup {Backfill}, Mint(p)
         PROVE  EditsInv'
    <2>1. Open(p) /\ ses[p].pc = "mint"
      BY <1>0, <1>11 DEF Mint, At, Open
    <2>2. Role(p, ses[p]) /\ ses[p].mint \in Tags /\ (p = Backfill => loop.on) /\ p \in Sessions
          /\ ses[p].doc \in Docs
      BY <1>0, <1>1, <2>1, OpenSession DEF Role
    <2>3. UNCHANGED <<ver, told, report, setting>> /\ (LoopKept \/ task' = task)
      BY <1>0, <1>11, <2>2, MintEffect
    <2>4. PICK s \in Session, m \in Row :
            /\ s = ses[p] /\ names' \in [cats : SUBSET Cats, tags : SUBSET Tags]
            /\ doc' = [doc EXCEPT ![s.doc] = m] /\ m.current = doc[s.doc].current
            /\ tags' = [tags EXCEPT ![s.doc] = tags[s.doc] \ s.cleared]
            /\ \/ Goto(p, Closed)
               \/ \E n \in Session :
                      /\ Goto(p, n)
                      /\ n.pc = "lookup" /\ Same(n, s) /\ n.row = m /\ n.pend = m
      BY <1>0, <1>11, <2>2, MintEffect
    <2>5. PICK n \in {Closed} \cup Session :
            /\ Goto(p, n)
            /\ n # Closed => n.pc = "lookup" /\ Same(n, s) /\ n.row = m /\ n.pend = m
      BY <1>0, <1>1, <2>4
    <2>6. Moves
      <3>1. ver \in [Docs -> Seq(Version)] /\ \A d \in Docs : ver[d] # <<>>
        BY <1>0 DEF EditsTypeInv, Numbered
      <3>2. \A d \in Docs : doc'[d].current = doc[d].current /\ Len(ver[d]) <= Len(ver[d])
        BY <1>0, <1>1, <2>4, <3>1
      <3>3. doc' \in [Docs -> Row] /\ tags' \in [Docs -> SUBSET Tags]
        BY <1>0, <1>1, <2>4
      <3> QED
        BY <1>0, <1>1, <2>3, <3>1, <3>2, <3>3 DEF Moves
    <2>7. ASSUME n # Closed
          PROVE  Role(p, n) /\ Timely(n)'
      <3>1. n.pc = "lookup" /\ n.doc = s.doc /\ n.req = s.req /\ n.row = m /\ n.pend = m
        BY <2>5, <2>7 DEF Same
      <3>5. (p \in Reviewers => ses[p].req \in Reviews) /\ (p = Backfill => ses[p].req = Keep)
        BY <2>2 DEF Role
      <3>2. p \in Reviewers => Role(p, n)
        BY <2>4, <3>1, <3>5, ReviewerRole
      <3>3. p = Backfill => Role(p, n)
        BY <2>4, <3>1, <3>5, BackfillRole
      <3>4. Timely(n)'
        BY <1>1, <2>2, <2>3, <2>4, <3>1 DEF Timely, Row
      <3> QED
        BY <1>11, <3>2, <3>3, <3>4
    <2>8. LoopFine /\ (loop.on => task'.loop.on)
      BY <1>0, <2>3, KeptFine
    <2> QED
      BY <1>0, <1>1, <2>2, <2>3, <2>4, <2>5, <2>6, <2>7, <2>8, SessionStep
  <1>12. ASSUME NEW p \in Reviewers \cup {Backfill}, MintTaken(p)
         PROVE  EditsInv'
    <2>1. Open(p) /\ ses[p].pc = "mint"
      BY <1>0, <1>12 DEF MintTaken, At, Open
    <2>2. Role(p, ses[p]) /\ (p = Backfill => loop.on) /\ p \in Sessions /\ ses[p].doc \in Docs
      BY <1>0, <1>1, <2>1, OpenSession
    <2>3. UNCHANGED <<doc, tags, ver, names, told, report, setting>> /\ (LoopKept \/ task' = task)
      BY <1>0, <1>12, <2>2, MintTakenEffect DEF rows
    <2>4. PICK n \in {Closed} \cup Session :
            /\ Goto(p, n)
            /\ n # Closed => /\ n.pc = "lookup" /\ Same(n, ses[p])
                             /\ n.row = doc[n.doc] /\ n.pend = doc[n.doc]
      BY <1>0, <1>1, <1>12, <2>2, MintTakenEffect
    <2>5. ASSUME n # Closed
          PROVE  Role(p, n) /\ Timely(n)'
      <3>1. /\ n.pc = "lookup" /\ n.doc = ses[p].doc /\ n.req = ses[p].req
            /\ n.row = doc[n.doc] /\ n.pend = doc[n.doc]
        BY <2>4, <2>5 DEF Same
      <3>5. (p \in Reviewers => ses[p].req \in Reviews) /\ (p = Backfill => ses[p].req = Keep)
        BY <2>2 DEF Role
      <3>2. p \in Reviewers => Role(p, n)
        BY <3>1, <3>5, ReviewerRole
      <3>3. p = Backfill => Role(p, n)
        BY <3>1, <3>5, BackfillRole
      <3>4. Timely(n)'
        BY <1>1, <2>2, <2>3, <3>1 DEF Timely, Row
      <3> QED
        BY <1>12, <3>2, <3>3, <3>4
    <2> QED
      BY <1>0, <1>1, <2>2, <2>3, <2>4, <2>5, StillStep

  <1>14. ASSUME RequestBackfill
         PROVE  EditsInv'
    <2>1. /\ UNCHANGED <<doc, tags, ver, names, ses, told, report>> /\ setting' \in Setting
      BY <1>0, <1>14, CountEffect DEF RequestBackfill, rows, Events
    <2>2. task' \in [queued : Nat, loop : Loop] /\ task'.loop = task.loop
      BY <1>0, <1>14 DEF RequestBackfill, EditsTypeInv
    <2>3. LoopFine /\ (loop.on => task'.loop.on)
      BY <1>0, <2>2 DEF LoopFine, Roles, Numbered, loop
    <2> QED
      BY <1>0, <1>1, <2>1, <2>3, NothingMoves, SameSessions
  <1>15. ASSUME StartBackfill
         PROVE  EditsInv'
    <2>1. /\ UNCHANGED <<doc, tags, ver, names, ses, told, report, setting>>
          /\ task' \in [queued : Nat, loop : Loop] /\ task'.loop.on /\ task'.loop.loaded = {}
      BY <1>0, <1>15, StartBackfillEffect DEF rows
    <2>2. LoopFine
      BY <1>0, <2>1 DEF LoopFine
    <2> QED
      BY <1>0, <1>1, <2>1, <2>2, NothingMoves, SameSessions
  <1>16. ASSUME NextPage
         PROVE  EditsInv'
    <2>1. /\ UNCHANGED <<doc, tags, ver, names, ses, told, report, setting>>
          /\ task' \in [queued : Nat, loop : Loop] /\ task'.loop.on /\ task'.loop.cache = doc
      BY <1>0, <1>16, NextPageEffect DEF rows
    <2>2. \A d \in Docs : doc[d].current <= Len(ver[d])
      BY <1>0, <1>1 DEF Row
    <2>3. LoopFine
      BY <1>0, <1>1, <2>1, <2>2 DEF LoopFine, Loop
    <2> QED
      BY <1>0, <1>1, <2>1, <2>3, NothingMoves, SameSessions
  <1>17. ASSUME BackfillRead
         PROVE  EditsInv'
    <2>1. /\ loop.on /\ UNCHANGED <<doc, tags, ver, told, report, setting>>
          /\ names' \in [cats : SUBSET Cats, tags : SUBSET Tags]
      BY <1>0, <1>17, BackfillReadEffect
    <2>2. PICK d \in loop.todo, page, row, plan \in Row :
            /\ d \in Docs /\ Reads(d, page, row)
            /\ \/ Goto(Backfill, Closed)
               \/ \E n \in Session : Starts(n, d, Rule[page.text], row, plan)
      BY <1>0, <1>17, BackfillReadEffect
    <2>3. LoopFine /\ task'.loop.on
      <3>1. /\ \A o \in loop.loaded : loop.cache[o].current <= Len(ver[o])
            /\ loop.loaded # {} => loop.cache \in [Docs -> Row]
        BY <1>0 DEF Roles, Numbered
      <3> QED
        BY <1>0, <2>2, <3>1 DEF LoopFine, Reads
    <2>4. row.current <= Len(ver[d])
      BY <1>0, <1>1, <2>2 DEF Reads, Numbered, Row
    <2>5. CASE Goto(Backfill, Closed)
      BY <1>0, <1>1, <2>1, <2>3, <2>5, NothingMoves, SessionStep
    <2>6. CASE \E n \in Session : Starts(n, d, Rule[page.text], row, plan)
      <3>1. PICK n \in Session : Starts(n, d, Rule[page.text], row, plan)
        BY <1>0, <2>6
      <3>2. n.pc \in {"lookup", "commit"} /\ n.req = Keep /\ n.row = row /\ n.doc = d
        BY <3>1 DEF Starts
      <3>4. Role(Backfill, n)
        BY <3>2, BackfillRole
      <3>5. Timely(n)'
        BY <2>1, <2>4, <3>2 DEF Timely
      <3>3. Goto(Backfill, n)
        BY <1>0, <3>1 DEF Starts
      <3> QED
        BY <1>1, <2>1, <2>3, <3>3, <3>4, <3>5, NothingMoves, SessionStep
    <2> QED
      BY <1>0, <2>2, <2>5, <2>6
  <1>18. ASSUME StoreTags
         PROVE  EditsInv'
    <2>1. Open(Backfill)
      BY <1>0, <1>18 DEF StoreTags, At, Open
    <2>2. loop.on /\ Role(Backfill, ses[Backfill]) /\ ses[Backfill].doc \in Docs
      BY <1>0, <1>1, <2>1, OpenSession
    <2>3. UNCHANGED <<doc, ver, names, told, report, setting>> /\ LoopKept
      BY <1>0, <1>18, <2>2, StoreTagsEffect
    <2>4. PICK s \in Session, n \in {Closed} \cup Session, g \in SUBSET Tags :
            /\ s = ses[Backfill] /\ Goto(Backfill, n)
            /\ tags' = tags \/ tags' = [tags EXCEPT ![s.doc] = g]
            /\ n # Closed => n.pc = "commit" /\ Same(n, s) /\ n.row = doc[s.doc]
      <3>1. PICK s \in Session :
              /\ s = ses[Backfill]
              /\ \/ tags' = tags /\ Goto(Backfill, Closed)
                 \/ \E n \in Session :
                      /\ tags' = [tags EXCEPT ![s.doc] = StoredTags(s)]
                      /\ StoredTags(s) \in SUBSET Tags
                      /\ Goto(Backfill, n)
                      /\ n.pc = "commit" /\ Same(n, s) /\ n.row = doc[s.doc]
        BY <1>0, <1>18, <2>2, StoreTagsEffect
      <3>2. {} \in SUBSET Tags
        OBVIOUS
      <3> QED
        BY <1>0, <1>1, <3>1, <3>2
    <2>5. Moves
      <3>1. tags' \in [Docs -> SUBSET Tags]
        BY <1>0, <1>1, <2>4
      <3>2. \A d \in Docs : Len(ver[d]) <= Len(ver[d])
        BY <1>0 DEF EditsTypeInv
      <3> QED
        BY <1>0, <1>1, <2>3, <3>1, <3>2 DEF Moves, EditsTypeInv, Numbered
    <2>6. ASSUME n # Closed
          PROVE  Role(Backfill, n) /\ Timely(n)'
      <3>1. /\ n.pc = "commit" /\ n.doc = ses[Backfill].doc /\ n.req = Keep
            /\ n.row = doc[n.doc]
        BY <2>2, <2>4, <2>6 DEF Role, Same
      <3> QED
        BY <1>1, <2>2, <2>3, <3>1, BackfillRole DEF Timely, Row
    <2> QED
      BY <1>0, <1>1, <2>2, <2>3, <2>4, <2>5, <2>6, KeptFine, SessionStep
  <1>19. ASSUME BackfillCommit
         PROVE  EditsInv'
    <2>1. Open(Backfill)
      BY <1>0, <1>19 DEF BackfillCommit, At, Open
    <2>2. loop.on /\ ses[Backfill].row.current <= Len(ver[ses[Backfill].doc])
      BY <1>0, <1>1, <2>1, OpenSession
    <2>3. /\ UNCHANGED <<told, report, setting>> /\ LoopKept
          /\ Goto(Backfill, Closed)
      BY <1>0, <1>19, <2>2, BackfillCommitEffect
    <2>4. CASE UNCHANGED rows
      BY <1>0, <1>1, <2>3, <2>4, NothingMoves, KeptFine, SessionStep DEF rows
    <2>5. CASE ~(UNCHANGED rows)
      <3>1. PICK s \in Session :
              /\ s = ses[Backfill] /\ names' = names
              /\ Committed(Backfill, s, IF s.replace THEN s.goal ELSE s.before, tags[s.doc])
        BY <1>0, <1>19, <2>2, <2>5, BackfillCommitEffect
      <3>2. PICK snapshot : Committed(Backfill, s, snapshot, tags[s.doc])
        BY <1>0, <3>1
      <3>3. tags[s.doc] \in SUBSET Tags
        BY <1>0, <1>1 DEF Session
      <3>4. Moves
        BY <1>0, <2>2, <3>1, <3>2, <3>3, CommitMoves
      <3> QED
        BY <1>0, <1>1, <2>3, <3>1, <3>4, KeptFine, SessionStep
    <2> QED
      BY <1>0, <2>4, <2>5
  <1>20. ASSUME FinishBackfill
         PROVE  EditsInv'
    <2>1. /\ UNCHANGED <<doc, tags, ver, names, ses, setting>> /\ ~Open(Backfill)
          /\ Tell({d \in loop.done : doc[d].live}) /\ report' \in SUBSET Docs
          /\ task' \in [queued : Nat, loop : Loop] /\ task'.loop = NoLoop
      BY <1>0, <1>20, FinishBackfillEffect DEF rows
    <2>2. told' \in [Docs -> Entry]
      BY <1>0, <1>1, <2>1, TellEffect
    <2>3. LoopFine /\ ses[Backfill] = Closed
      BY <1>0, <1>1, <2>1, NoLoopType, SessionTypes DEF LoopFine
    <2> QED
      BY <1>0, <1>1, <2>1, <2>2, <2>3, NothingMoves, SameSessions
  <1>21. ASSUME BackfillDies \/ BackfillKilled
         PROVE  EditsInv'
    <2>1. /\ UNCHANGED <<doc, tags, ver, names, told, report>>
          /\ Goto(Backfill, Closed)
          /\ task' \in [queued : Nat, loop : Loop] /\ task'.loop = NoLoop
      BY <1>0, <1>21, BackfillEndsEffect DEF rows
    <2>2. setting' \in Setting
      BY <1>0, <1>1, <1>21, BackfillEndsEffect, CountEffect DEF Events
    <2>3. LoopFine
      BY <1>0, <2>1, NoLoopType DEF LoopFine
    <2> QED
      BY <1>0, <1>1, <2>1, <2>2, <2>3, NothingMoves, SessionStep
  <1>22. ASSUME NEW d \in Docs, DeleteDocument(d)
         PROVE  EditsInv'
    <2>1. /\ UNCHANGED <<ver, names, ses, task, told, report>> /\ setting' \in Setting
          /\ tags' = [tags EXCEPT ![d] = {}]
      BY <1>0, <1>22, DeleteDocumentEffect, CountEffect DEF Events
    <2>2. PICK m \in Row : doc' = [doc EXCEPT ![d] = m] /\ m.current = doc[d].current
      BY <1>0, <1>22, DeleteDocumentEffect
    <2>3. Moves
      <3>1. ver \in [Docs -> Seq(Version)] /\ \A o \in Docs : ver[o] # <<>>
        BY <1>0 DEF EditsTypeInv, Numbered
      <3>2. \A o \in Docs : doc'[o].current = doc[o].current /\ Len(ver[o]) <= Len(ver[o])
        BY <1>0, <1>1, <2>2, <3>1
      <3>3. doc' \in [Docs -> Row] /\ tags' \in [Docs -> SUBSET Tags]
        BY <1>0, <1>1, <2>1, <2>2
      <3> QED
        BY <1>0, <1>1, <2>1, <3>1, <3>2, <3>3 DEF Moves
    <2> QED
      BY <1>0, <1>1, <2>1, <2>3, KeptFine, SameSessions
  <1> QED
    BY <1>0, <1>2, <1>3, <1>4, <1>5, <1>6, <1>7, <1>8, <1>9, <1>10, <1>11, <1>12, <1>14, <1>15,
       <1>16, <1>17, <1>18, <1>19, <1>20, <1>21, <1>22 DEF Next

LEMMA EditsAlways == Spec => []EditsInv
  <1>1. Init => EditsInv
    BY EditsInitial
  <1>2. EditsInv /\ [Next]_vars => EditsInv'
    BY EditsInductive
  <1> QED
    BY <1>1, <1>2, PTL DEF Spec

\* Documents, versions, sessions, the backfill's loop and the index are what their
\* columns and attributes allow, and every document has a version.
THEOREM EditsTypeCorrect == Spec => []TypeOK
  <1>1. EditsInv => TypeOK
    <2>1. ASSUME EditsInv
          PROVE  TypeOK
      <3>1. /\ doc \in [Docs -> Row] /\ tags \in [Docs -> SUBSET Tags]
            /\ names.cats \subseteq Cats /\ names.tags \subseteq Tags
            /\ task.queued \in Nat /\ report \subseteq Docs /\ setting \in Setting
        BY <2>1 DEF EditsInv, EditsTypeInv
      <3>2. \A d \in Docs : Len(ver[d]) >= 1
        <4>1. \A d \in Docs : ver[d] \in Seq(Version) /\ ver[d] # <<>>
          BY <2>1 DEF EditsInv, EditsTypeInv, Numbered
        <4> QED
          BY <4>1
      <3>3. \A p \in Sessions : At(p, "closed") \/ ses[p] \in Session
        BY <2>1, SessionTypes DEF EditsInv, Open, At
      <3>4. \A d \in Docs : told[d].tags \subseteq Tags
        BY <2>1 DEF EditsInv, EditsTypeInv, Entry
      <3> QED
        BY <3>1, <3>2, <3>3, <3>4 DEF TypeOK
    <2> QED
      BY <2>1
  <1> QED
    BY <1>1, EditsAlways, PTL

-----------------------------------------------------------------------------
(* How the setting may change.                                             *)

LEMMA UsedGrows ==
  ASSUME EditsTypeInv, Next
  PROVE  /\ setting'.docs = setting.docs /\ setting'.cats = setting.cats
         /\ setting'.tags = setting.tags /\ setting'.reviewOnly = setting.reviewOnly
         /\ \A k \in Events : /\ used[k] \in Nat /\ used'[k] \in Nat
                              /\ used[k] <= used'[k]
  <1>1. \A k \in Events : used[k] \in Nat
    BY DEF EditsTypeInv, Setting, used
  <1>2. CASE setting' = setting
    BY <1>1, <1>2 DEF used
  <1>3. CASE \E kind \in Events : Count(kind)
    <2>1. PICK kind \in Events : Count(kind)
      BY <1>3
    <2>2. /\ setting'.docs = setting.docs /\ setting'.cats = setting.cats
          /\ setting'.tags = setting.tags /\ setting'.reviewOnly = setting.reviewOnly
          /\ used'[kind] = used[kind] + 1
          /\ \A k \in Events : k # kind => used'[k] = used[k]
      BY SMTT(60), <2>1, CountEffect
    <2> QED
      BY <1>1, <2>1, <2>2
  <1>4. \/ setting' = setting
        \/ Count("requests") \/ Count("backfills") \/ Count("kills") \/ Count("deletes")
    BY ZenonT(60) DEF Next, PatchLoad, PatchCategoryTaken, PatchCommit, ReviewLoad, ReviewCategory,
           ReviewTags, ReviewCommit, LookUp, Mint, MintTaken, RequestBackfill, StartBackfill,
           NextPage, BackfillRead, StoreTags, BackfillCommit, FinishBackfill, BackfillDies,
           BackfillKilled, DeleteDocument
  <1> QED
    BY <1>2, <1>3, <1>4 DEF Events

\* No step but a deletion makes a document appear or disappear.
LEMMA LivesKept ==
  ASSUME EditsInv, Next, ~\E d \in Docs : DeleteDocument(d)
  PROVE  \A d \in Docs : doc'[d].live = doc[d].live
  <1>0. EditsTypeInv /\ doc \in [Docs -> Row]
    BY DEF EditsInv, EditsTypeInv
  <1>1. Editors \subseteq Sessions /\ Reviewers \subseteq Sessions /\ Backfill \in Sessions
    BY DEF Sessions
  <1>2. CASE doc' = doc
    BY <1>2
  <1>3. CASE \E d \in Docs, m \in Row : doc' = [doc EXCEPT ![d] = m] /\ m.live = doc[d].live
    BY <1>0, <1>3
  <1>4. ASSUME NEW p, NEW s, s.doc \in Docs, NEW snapshot, NEW newTags,
               Committed(p, s, snapshot, newTags)
        PROVE  \E d \in Docs, m \in Row : doc' = [doc EXCEPT ![d] = m] /\ m.live = doc[d].live
    BY <1>4 DEF Committed
  <1>5. ASSUME NEW e \in Editors, PatchCommit(e), doc' # doc
        PROVE  \E d \in Docs, m \in Row : doc' = [doc EXCEPT ![d] = m] /\ m.live = doc[d].live
    <2>1. Open(e)
      BY <1>5 DEF PatchCommit, At, Open
    <2>2. ses[e].req \in Patches /\ ses[e].doc \in Docs
      BY <1>1, <2>1, OpenSession DEF Role
    <2>3. PICK s \in Session, newTags \in SUBSET Tags : Committed(e, s, newTags, newTags)
      BY <1>0, <1>5, <2>2, PatchCommitEffect DEF rows
    <2> QED
      BY <1>4, <2>3 DEF Session
  <1>6. ASSUME NEW r \in Reviewers, ReviewCommit(r), doc' # doc
        PROVE  \E d \in Docs, m \in Row : doc' = [doc EXCEPT ![d] = m] /\ m.live = doc[d].live
    <2>1. Open(r)
      BY <1>6 DEF ReviewCommit, At, Open
    <2>2. ses[r].req \in Reviews
      BY <1>1, <2>1, OpenSession DEF Role
    <2>3. PICK s \in Session :
            Committed(r, s, IF s.replace THEN s.goal ELSE s.before, StoredTags(s))
      BY <1>0, <1>6, <2>2, ReviewCommitEffect DEF rows
    <2> QED
      BY <1>4, <2>3 DEF Session
  <1>7. ASSUME BackfillCommit, doc' # doc
        PROVE  \E d \in Docs, m \in Row : doc' = [doc EXCEPT ![d] = m] /\ m.live = doc[d].live
    <2>1. Open(Backfill)
      BY <1>7 DEF BackfillCommit, At, Open
    <2>2. loop.on
      BY <1>1, <2>1, OpenSession
    <2>3. PICK s \in Session :
            Committed(Backfill, s, IF s.replace THEN s.goal ELSE s.before, tags[s.doc])
      BY <1>0, <1>7, <2>2, BackfillCommitEffect DEF rows
    <2> QED
      BY <1>4, <2>3 DEF Session
  <1>8. ASSUME NEW p \in Reviewers \cup {Backfill}, Mint(p)
        PROVE  \E d \in Docs, m \in Row : doc' = [doc EXCEPT ![d] = m] /\ m.live = doc[d].live
    <2>1. Open(p) /\ ses[p].pc = "mint" /\ p \in Sessions
      BY <1>1, <1>8 DEF Mint, At, Open
    <2>2. ses[p].mint \in Tags /\ (p = Backfill => loop.on)
      BY <2>1, OpenSession DEF Role
    <2>3. PICK s \in Session, m \in Row :
            doc' = [doc EXCEPT ![s.doc] = m] /\ m.live = doc[s.doc].live
      BY <1>0, <1>8, <2>2, MintEffect
    <2> QED
      BY <2>3 DEF Session
  <1>9. \/ doc' = doc
        \/ \E e \in Editors : PatchCommit(e)
        \/ \E r \in Reviewers : ReviewCommit(r)
        \/ \E p \in Reviewers \cup {Backfill} : Mint(p)
        \/ BackfillCommit
    BY ZenonT(60) DEF Next, PatchLoad, PatchCategoryTaken, ReviewLoad, ReviewCategory,
           ReviewTags, LookUp, MintTaken, RequestBackfill, StartBackfill,
           NextPage, BackfillRead, StoreTags, FinishBackfill, BackfillDies,
           BackfillKilled, rows
  <1> QED
    BY <1>2, <1>3, <1>5, <1>6, <1>7, <1>8, <1>9

\* The steps that move the backfill's loop on.
LoopStill ==
    /\ task'.loop.on = loop.on /\ task'.loop.offset = loop.offset
    /\ task'.loop.todo = loop.todo /\ task'.loop.seen = loop.seen
    /\ task'.loop.matched = loop.matched

LEMMA LoopSteps ==
  ASSUME EditsInv, Next
  PROVE  \/ LoopStill /\ report' = report
         \/ StartBackfill \/ NextPage \/ BackfillRead \/ FinishBackfill
         \/ BackfillDies \/ BackfillKilled
  <1>0. EditsTypeInv
    BY DEF EditsInv
  <1>1. Editors \subseteq Sessions /\ Reviewers \subseteq Sessions /\ Backfill \in Sessions
    BY DEF Sessions
  <1>2. CASE task' = task /\ report' = report
    BY <1>2 DEF LoopStill, loop
  <1>3. CASE LoopKept /\ report' = report
    BY <1>3 DEF LoopKept, LoopStill
  <1>4. ASSUME RequestBackfill
        PROVE  LoopStill /\ report' = report
    <2>1. report' = report /\ task'.loop = task.loop
      BY <1>0, <1>4 DEF RequestBackfill, EditsTypeInv
    <2> QED
      BY <2>1 DEF LoopStill, loop
  <1>5. ASSUME NEW p \in Reviewers \cup {Backfill}, Mint(p) \/ MintTaken(p)
        PROVE  LoopKept /\ report' = report
    <2>1. Open(p) /\ ses[p].pc = "mint" /\ p \in Sessions
      BY <1>1, <1>5 DEF Mint, MintTaken, At, Open
    <2>2. ses[p].mint \in Tags /\ (p = Backfill => loop.on)
      BY <2>1, OpenSession DEF Role
    <2> QED
      BY <1>0, <1>5, <2>2, MintEffect, MintTakenEffect
  <1>6. ASSUME StoreTags \/ BackfillCommit
        PROVE  LoopKept /\ report' = report
    <2>1. Open(Backfill)
      BY <1>6 DEF StoreTags, BackfillCommit, At, Open
    <2>2. loop.on
      BY SMTT(60), <1>1, <2>1, OpenSession
    <2> QED
      BY <1>0, <1>6, <2>2, StoreTagsEffect, BackfillCommitEffect
  <1>7. \/ task' = task /\ report' = report
        \/ RequestBackfill
        \/ \E p \in Reviewers \cup {Backfill} : Mint(p) \/ MintTaken(p)
        \/ StoreTags \/ BackfillCommit
        \/ StartBackfill \/ NextPage \/ BackfillRead \/ FinishBackfill
        \/ BackfillDies \/ BackfillKilled
    BY ZenonT(60) DEF Next, PatchLoad, PatchCategoryTaken, PatchCommit, ReviewLoad, ReviewCategory,
           ReviewTags, ReviewCommit, LookUp, DeleteDocument
  <1> QED
    BY <1>2, <1>3, <1>4, <1>5, <1>6, <1>7

-----------------------------------------------------------------------------
(* The pages of a backfill.                                                *)

LEMMA PositionType ==
  ASSUME NEW d \in Docs
  PROVE  /\ IsFiniteSet({o \in Matching : o < d}) /\ Position(d) \in Nat
         /\ Matching \subseteq Docs /\ Matching \subseteq Nat
  <1>1. Matching \subseteq Docs /\ Matching \subseteq Nat
    BY DocsAssumption DEF Matching
  <1>2. IsFiniteSet({o \in Matching : o < d})
    BY <1>1, DocsAssumption, FS_Subset
  <1> QED
    BY <1>1, <1>2, FS_CardinalityType DEF Position

LEMMA PositionGrows ==
  ASSUME NEW d \in Matching, NEW e \in Docs, d < e
  PROVE  Position(d) < Position(e)
  <1>1. PICK A : A = {o \in Matching : o < d}
    OBVIOUS
  <1>2. PICK B : B = {o \in Matching : o < e}
    OBVIOUS
  <1>3. d \in Docs /\ d \in Nat /\ e \in Nat /\ Matching \subseteq Nat
    BY PositionType, DocsAssumption DEF Matching
  <1>4. A \in SUBSET B /\ d \in B /\ d \notin A
    <2>1. \A o \in A : o \in Matching /\ o \in Nat /\ o < d
      BY <1>1, <1>3
    <2>2. \A o \in A : o < e
      BY <1>3, <2>1
    <2>3. d \in B /\ d \notin A
      BY <1>1, <1>2, <1>3
    <2> QED
      BY <1>2, <2>1, <2>2, <2>3
  <1>5. /\ IsFiniteSet(B) /\ Position(d) = Cardinality(A) /\ Position(e) = Cardinality(B)
        /\ Position(d) \in Nat /\ Position(e) \in Nat
    BY <1>1, <1>2, <1>3, PositionType DEF Position
  <1>6. Cardinality(A) <= Cardinality(B) /\ (Cardinality(B) = Cardinality(A) => B = A)
    BY <1>4, <1>5, FS_Subset
  <1> QED
    BY <1>4, <1>5, <1>6

\* A page with no row: every document that matches is in an earlier position.
LEMMA EmptyPage ==
  ASSUME NEW offset \in Nat, PageOf(offset) = {}
  PROVE  \A d \in Matching : Position(d) < offset
  <1> DEFINE Beyond == {d \in Matching : Position(d) >= offset}
  <1>0. \A d \in Matching : d \in Docs /\ Position(d) \in Nat
    BY PositionType DEF Matching
  <1> SUFFICES ASSUME Beyond # {} PROVE FALSE
    BY <1>0
  <1>1. Beyond \in SUBSET Nat
    BY DocsAssumption DEF Matching
  <1>2. PICK x \in Beyond : \A y \in Beyond : x <= y
    BY <1>1, LeastNumber
  <1>3. x \in Matching /\ x \in Docs /\ x \in Nat /\ Position(x) \in Nat /\ Position(x) >= offset
    BY <1>1, <1>2, PositionType DEF Matching
  <1>4. x \notin PageOf(offset)
    OBVIOUS
  <1>5. Position(x) > offset
    BY <1>3, <1>4, BatchAssumption DEF PageOf
  <1>6. PICK A : A = {o \in Matching : o < x}
    OBVIOUS
  <1>7. \A o \in A : o \in Docs /\ o \in Nat /\ Position(o) \in 0 .. offset - 1
    <2>1. ASSUME NEW o \in A
          PROVE  o \in Docs /\ o \in Nat /\ Position(o) \in 0 .. offset - 1
      <3>1. o \in Matching /\ o < x /\ o \in Docs /\ o \in Nat /\ Position(o) \in Nat
        BY <1>6, <2>1, PositionType, DocsAssumption DEF Matching
      <3>2. o \notin Beyond
        BY <1>2, <1>3, <3>1
      <3> QED
        BY <3>1, <3>2
    <2> QED
      BY <2>1
  <1>8. PICK f : f = [o \in A |-> Position(o)]
    OBVIOUS
  <1>9. f \in Injection(A, 0 .. offset - 1)
    <2>1. f \in [A -> 0 .. offset - 1]
      BY <1>7, <1>8
    <2>2. ASSUME NEW a \in A, NEW b \in A, f[a] = f[b]
          PROVE  a = b
      <3>1. /\ a \in Nat /\ b \in Nat /\ a \in Docs /\ b \in Docs
            /\ a \in Matching /\ b \in Matching /\ Position(a) = Position(b)
            /\ Position(a) \in Nat
        BY <1>6, <1>7, <1>8, <2>2
      <3>2. ~(a < b) /\ ~(b < a)
        BY <3>1, PositionGrows
      <3> QED
        BY <3>1, <3>2
    <2> QED
      BY <2>1, <2>2 DEF Injection, IsInjective
  <1>10. IsFiniteSet(0 .. offset - 1) /\ Cardinality(0 .. offset - 1) = offset
    BY FS_Interval
  <1>11. Cardinality(A) <= offset
    BY <1>9, <1>10, FS_Injection
  <1> QED
    BY <1>3, <1>5, <1>6, <1>11 DEF Position

\* While nothing is deleted, and the backfill takes the whole archive, every
\* document keeps its position.
LEMMA PositionsKept ==
  ASSUME EditsInv, Next, used'.deletes = 0
  PROVE  /\ used.deletes = 0 /\ setting'.reviewOnly = setting.reviewOnly
         /\ Live' = Live /\ \A d \in Docs : doc'[d].live = doc[d].live
         /\ ~setting.reviewOnly =>
              /\ Matching = Live
              /\ \A d \in Docs : Position(d)' = Position(d)
  <1>0. EditsTypeInv
    BY DEF EditsInv
  <1>1. used["deletes"] \in Nat /\ used["deletes"] <= used'["deletes"]
        /\ setting'.reviewOnly = setting.reviewOnly
    BY <1>0, UsedGrows DEF Events
  <1>2. used.deletes = 0
    BY <1>1
  <1>3. ASSUME NEW d \in Docs, DeleteDocument(d)
        PROVE  FALSE
    BY <1>0, <1>2, <1>3, DeleteDocumentEffect, CountEffect DEF Events
  <1>4. \A d \in Docs : doc'[d].live = doc[d].live
    BY <1>3, LivesKept
  <1>5. Live' = Live
    BY <1>4 DEF Live
  <1>6. ASSUME ~setting.reviewOnly
        PROVE  Matching = Live /\ Matching' = Live
    <2>1. Matching = Live
      BY <1>6 DEF Matching, Matches, Live
    <2>2. Matching' = Live'
      BY <1>1, <1>6 DEF Matching, Matches, Live
    <2> QED
      BY <1>5, <2>1, <2>2
  <1>7. ASSUME ~setting.reviewOnly, NEW d \in Docs
        PROVE  Position(d)' = Position(d)
    BY <1>6, <1>7 DEF Position
  <1> QED
    BY <1>1, <1>2, <1>4, <1>5, <1>6, <1>7

LEMMA PagesInductive ==
  ASSUME EditsInv, PagesInv, [Next]_vars
  PROVE  PagesInv'
  <1>0. EditsTypeInv /\ Roles
    BY DEF EditsInv
  <1>1. CASE UNCHANGED vars
    <2>1. UNCHANGED <<doc, setting, task, report>>
      BY <1>1 DEF vars, rows
    <2>2. Live' = Live /\ Matching' = Matching
      BY <2>1 DEF Live, Matching, Matches
    <2>3. \A d \in Docs : Position(d)' = Position(d)
      BY <2>2 DEF Position
    <2> QED
      BY <2>1, <2>2, <2>3 DEF PagesInv, used, loop, Live
  <1>2. CASE Next
    <2> SUFFICES ASSUME used'.deletes = 0, ~setting'.reviewOnly
                 PROVE  /\ report' = {}
                        /\ task'.loop.on =>
                             \A d \in Live' : Position(d)' < task'.loop.offset =>
                                d \in task'.loop.seen \cup task'.loop.todo
      BY DEF PagesInv, loop
    <2>1. /\ used.deletes = 0 /\ ~setting.reviewOnly /\ Live' = Live /\ Matching = Live
          /\ \A d \in Docs : Position(d)' = Position(d)
      BY <1>2, PositionsKept
    <2>2. report = {} /\ (loop.on => \A d \in Live : Position(d) < loop.offset =>
                                        d \in loop.seen \cup loop.todo)
      BY <2>1 DEF PagesInv
    <2>3. \A d \in Live : d \in Docs /\ Position(d) \in Nat
      BY PositionType DEF Live
    <2>4. loop \in Loop
      BY <1>0 DEF EditsTypeInv, loop
    <2>5. CASE LoopStill /\ report' = report
      BY <2>1, <2>2, <2>3, <2>5 DEF LoopStill
    <2>6. CASE StartBackfill
      BY <1>0, <2>1, <2>2, <2>3, <2>6, StartBackfillEffect
    <2>7. CASE NextPage
      <3>1. /\ loop.on /\ loop.todo = {} /\ report' = report
            /\ task'.loop.offset = loop.offset + BatchSize
            /\ task'.loop.todo = PageOf(loop.offset) /\ task'.loop.seen = loop.seen
        BY <1>0, <2>7, NextPageEffect
      <3>2. ASSUME NEW d \in Live, Position(d) < loop.offset + BatchSize
            PROVE  d \in loop.seen \cup PageOf(loop.offset)
        <4>1. CASE Position(d) < loop.offset
          BY <2>2, <3>1, <4>1
        <4>2. CASE ~(Position(d) < loop.offset)
          <5>1. Position(d) \in loop.offset .. loop.offset + BatchSize - 1
            BY <2>3, <2>4, <3>2, <4>2, BatchAssumption DEF Loop
          <5> QED
            BY <2>1, <5>1 DEF PageOf
        <4> QED
          BY <4>1, <4>2
      <3> QED
        BY <2>1, <2>2, <2>3, <3>1, <3>2
    <2>8. CASE BackfillRead
      <3>1. loop.on /\ report' = report
        BY <1>0, <2>8, BackfillReadEffect
      <3>2. PICK d \in loop.todo, page, row, plan \in Row : Reads(d, page, row)
        BY <1>0, <2>8, BackfillReadEffect
      <3>3. /\ task'.loop.offset = loop.offset
            /\ task'.loop.seen \cup task'.loop.todo = loop.seen \cup loop.todo
        BY <3>2 DEF Reads
      <3> QED
        BY <2>1, <2>2, <2>3, <3>1, <3>3
    <2>9. CASE FinishBackfill
      <3>1. /\ loop.on /\ loop.todo = {} /\ PageOf(loop.offset) = {}
            /\ report' = {d \in loop.matched \ loop.seen : Matches(d)}
            /\ task'.loop = NoLoop
        BY <1>0, <2>9, FinishBackfillEffect
      <3>2. \A d \in Matching : Position(d) < loop.offset
        BY <2>4, <3>1, EmptyPage DEF Loop
      <3>3. \A d \in loop.matched : Matches(d) => d \in loop.seen
        BY <2>1, <2>2, <2>4, <3>1, <3>2 DEF Matching, Loop
      <3> QED
        BY <3>1, <3>3, NoLoopType
    <2>10. CASE BackfillDies \/ BackfillKilled
      <3>1. report' = report /\ task'.loop = NoLoop
        BY <1>0, <2>10, BackfillEndsEffect
      <3> QED
        BY <2>2, <3>1, NoLoopType
    <2> QED
      BY <1>2, <2>5, <2>6, <2>7, <2>8, <2>9, <2>10, LoopSteps
  <1> QED
    BY <1>1, <1>2

LEMMA PagesAlways == Spec => [](EditsInv /\ PagesInv)
  <1>1. Init => EditsInv /\ PagesInv
    <2>1. Init => report = {} /\ ~loop.on
      BY NoLoopType DEF Init, loop
    <2> QED
      BY <2>1, EditsInitial DEF PagesInv
  <1>2. EditsInv /\ PagesInv /\ [Next]_vars => (EditsInv /\ PagesInv)'
    BY EditsInductive, PagesInductive
  <1> QED
    BY <1>1, <1>2, PTL DEF Spec

\* A backfill of the whole archive passes over no document while none is deleted,
\* whatever editors and reviewers change between its pages.
THEOREM BackfillPassesOverNone == Spec => []BackfillCovers
  <1>1. PagesInv => BackfillCovers
    BY DEF PagesInv, BackfillCovers
  <1> QED
    BY <1>1, PagesAlways, PTL

-----------------------------------------------------------------------------
(* The backfill alone with the documents.                                  *)

LEMMA RulesRowEffect ==
  ASSUME EditsTypeInv, NEW d \in Docs, NEW n, n = RulesRow(d)
  PROVE  LET out == Rule[doc[d].text] IN
         /\ n \in Row /\ n.text = doc[d].text /\ n.live = doc[d].live
         /\ n.current = doc[d].current /\ n.cat = out.cat
         /\ n.reasons = out.reasons \cup (doc[d].reasons \cap {Duplicate})
         /\ n.status = IF n.reasons = {} THEN "NONE" ELSE "NEEDS_REVIEW"
  <1>1. PICK row \in Row : row = doc[d]
    BY DEF EditsTypeInv
  <1>2. PICK out \in [cat : Cats, tags : SUBSET Tags, reasons : SUBSET Reasons] :
          out = Rule[row.text]
    BY RuleAssumption DEF Row
  <1>3. n = Reclassified(row, out)
    BY <1>1, <1>2 DEF RulesRow
  <1> QED
    BY <1>1, <1>2, <1>3, ReclassifiedEffect

LEMMA AloneLives ==
  ASSUME EditsInv, AloneInv, Alone
  PROVE  ~BackfillDies
  <1>1. EditsTypeInv /\ loop.todo \subseteq Live /\ (Open(Backfill) => AtWork(ses[Backfill]))
    BY DEF EditsInv, AloneInv
  <1>2. ~(At(Backfill, "closed") /\ loop.todo # {} /\ ~Readable(Upcoming))
    BY <1>1, UpcomingEffect DEF Readable, Live
  <1>3. ASSUME ses[Backfill].pc \in {"store", "commit"} /\ ~doc[ses[Backfill].doc].live
        PROVE  FALSE
    <2>1. Open(Backfill)
      BY <1>3 DEF Open
    <2> QED
      BY <1>1, <1>3, <2>1 DEF AtWork
  <1> QED
    BY <1>2, <1>3 DEF BackfillDies

\* The steps left to it.  None of its documents disappears, so it does not die;
\* nobody inserts the tag it is about to insert.
LEMMA AloneSteps ==
  ASSUME EditsInv, AloneInv, Next, Alone'
  PROVE  /\ Alone
         /\ \/ RequestBackfill \/ StartBackfill \/ NextPage \/ BackfillRead
            \/ LookUp(Backfill) \/ Mint(Backfill) \/ StoreTags \/ BackfillCommit
            \/ FinishBackfill \/ BackfillKilled
  <1>0. EditsTypeInv
    BY DEF EditsInv
  <1>1. /\ used["requests"] \in Nat /\ used["requests"] <= used'["requests"]
        /\ used["deletes"] \in Nat /\ used["deletes"] <= used'["deletes"]
        /\ used'["requests"] = 0 /\ used'["deletes"] = 0
    BY <1>0, UsedGrows DEF Events, Alone
  <1>2. Alone
    BY <1>1 DEF Alone
  <1>3. /\ \A p \in Sessions : Open(p) => p = Backfill
        /\ loop.todo \subseteq Live
        /\ Open(Backfill) => AtWork(ses[Backfill])
    BY <1>2 DEF AloneInv
  <1>4. /\ Editors \subseteq Sessions /\ Reviewers \subseteq Sessions /\ Backfill \in Sessions
        /\ (\A e \in Editors : e # Backfill) /\ (\A r \in Reviewers : r # Backfill)
    BY <1>0, SessionTypes
  <1>5. ~Count("requests") /\ ~Count("deletes")
    BY <1>0, <1>1, CountEffect DEF Events
  <1>6. ASSUME NEW p \in Editors \cup Reviewers
        PROVE  ses[p].pc = "closed"
    BY <1>3, <1>4 DEF Open
  <1>7. ASSUME MintTaken(Backfill)
        PROVE  FALSE
    <2>1. Open(Backfill) /\ ses[Backfill].pc = "mint" /\ ses[Backfill].mint \in names.tags
      BY <1>7 DEF MintTaken, At, Open
    <2> QED
      BY <1>3, <2>1 DEF AtWork
  <1>8. ~BackfillDies
    BY <1>2, AloneLives
  <1>9. ASSUME NEW e \in Editors
        PROVE  /\ \A d \in Docs, q \in setting.patches : ~PatchLoad(e, d, q)
               /\ ~PatchCategoryTaken(e) /\ ~PatchCommit(e)
    BY ZenonT(60), <1>5, <1>6 DEF PatchLoad, PatchCategoryTaken, PatchCommit, At
  <1>10. ASSUME NEW r \in Reviewers
         PROVE  /\ \A d \in Docs, q \in setting.reviews : ~ReviewLoad(r, d, q)
                /\ ~ReviewCategory(r) /\ ~ReviewTags(r) /\ ~ReviewCommit(r)
                /\ ~LookUp(r) /\ ~Mint(r) /\ ~MintTaken(r)
    BY <1>5, <1>6 DEF ReviewLoad, ReviewCategory, ReviewTags, ReviewCommit, LookUp, Mint,
                      MintTaken, At
  <1>11. \A d \in Docs : ~DeleteDocument(d)
    BY <1>5 DEF DeleteDocument
  <1> QED
    BY <1>2, <1>7, <1>8, <1>9, <1>10, <1>11 DEF Next

\* What a step of the backfill has to keep.
LEMMA AloneStep ==
  ASSUME EditsTypeInv, NEW n \in {Closed} \cup Session, Goto(Backfill, n),
         \A p \in Sessions : Open(p) => p = Backfill,
         \A d \in task'.loop.loaded : task'.loop.cache[d] = doc'[d],
         task'.loop.todo \subseteq Live',
         n # Closed => AtWork(n)',
         \A d \in task'.loop.seen : (n # Closed /\ n.doc = d) \/ Ruled(d)'
  PROVE  AloneInv'
  <1>1. /\ ses \in [Sessions -> {Closed} \cup Session] /\ Backfill \in Sessions
        /\ Closed.pc = "closed" /\ \A s \in Session : s.pc # "closed"
    BY SessionTypes DEF EditsTypeInv
  <1>2. ses'[Backfill] = n /\ \A p \in Sessions : p # Backfill => ses'[p] = ses[p]
    BY <1>1 DEF Goto
  <1>3. \A p \in Sessions : Open(p)' => p = Backfill
    BY <1>2 DEF Open
  <1>4. Open(Backfill)' <=> n # Closed
    BY <1>1, <1>2 DEF Open
  <1>5. Open(Backfill)' => AtWork(ses[Backfill])'
    BY <1>2, <1>4 DEF AtWork, RulesRow
  <1>6. \A d \in task'.loop.seen : BackfillAt(d)' \/ Ruled(d)'
    BY <1>2, <1>4 DEF BackfillAt
  <1> QED
    BY <1>3, <1>5, <1>6 DEF AloneInv, loop

\* The document it is at, and what it has prepared for it.
LEMMA WorkKnown ==
  ASSUME EditsInv, AloneInv, Alone, Open(Backfill), NEW s, s = ses[Backfill]
  PROVE  /\ s \in Session /\ loop.on /\ Role(Backfill, s) /\ s.doc \in Docs
         /\ s.row \in Row /\ s.pend \in Row /\ s.plan \in Row
         /\ doc[s.doc].live /\ s.doc \in loop.seen
         /\ s.row = doc[s.doc] /\ s.plan = RulesRow(s.doc)
         /\ s.goal = Rule[doc[s.doc].text].tags
         /\ IF s.pc = "commit"
            THEN s.pend = s.plan /\ tags[s.doc] = s.goal /\ (~s.replace => s.before = s.goal)
            ELSE s.pend = doc[s.doc] /\ s.replace /\ s.cleared = tags[s.doc]
  <1>1. Backfill \in Sessions
    BY DEF Sessions
  <1>2. /\ s \in Session /\ loop.on /\ Role(Backfill, s) /\ s.doc \in Docs
        /\ s.row \in Row /\ s.pend \in Row
    BY <1>1, OpenSession
  <1> QED
    BY <1>2 DEF AloneInv, AtWork, Session

\* The insert of a tag changes nothing in the row, and the row is read again.
LEMMA AloneMint ==
  ASSUME EditsInv, AloneInv, Alone, Mint(Backfill), NEW s, s = ses[Backfill]
  PROVE  /\ Open(Backfill) /\ s.pc = "mint" /\ LoopKept /\ task'.loop.loaded = {}
         /\ UNCHANGED <<doc, ver, told>>
         /\ tags'[s.doc] = {} /\ \A d \in Docs : d # s.doc => tags'[d] = tags[d]
         /\ \E n \in Session :
              /\ Goto(Backfill, n)
              /\ n.pc = "lookup" /\ n.doc = s.doc /\ n.plan = s.plan
              /\ n.row = doc[s.doc] /\ n.pend = doc[s.doc]
              /\ n.cleared = {} /\ n.goal = s.goal /\ n.replace = s.replace
  <1>0. EditsTypeInv /\ tags \in [Docs -> SUBSET Tags] /\ doc \in [Docs -> Row]
    BY DEF EditsInv, EditsTypeInv
  <1>1. Open(Backfill) /\ s.pc = "mint"
    BY DEF Mint, At, Open
  <1>2. /\ s \in Session /\ loop.on /\ Role(Backfill, s) /\ s.doc \in Docs /\ doc[s.doc].live
        /\ s.pend = doc[s.doc] /\ s.row = doc[s.doc] /\ s.cleared = tags[s.doc]
    BY <1>1, WorkKnown
  <1>3. Backfill \in Reviewers \cup {Backfill} /\ ses[Backfill].mint \in Tags
    BY <1>1, <1>2 DEF Role
  <1>4. LoopKept /\ task'.loop.loaded = {} /\ UNCHANGED <<ver, told>>
    BY <1>0, <1>2, <1>3, MintEffect
  <1>5. PICK t \in Session, m \in Row :
          /\ t = ses[Backfill]
          /\ names' \in [cats : SUBSET Cats, tags : SUBSET Tags]
          /\ names.tags \subseteq names'.tags
          /\ doc' = [doc EXCEPT ![t.doc] = m]
          /\ m.live = doc[t.doc].live /\ m.current = doc[t.doc].current
          /\ m.reasons \in {doc[t.doc].reasons, t.pend.reasons}
          /\ t.pend.reasons = t.row.reasons => m.reasons = doc[t.doc].reasons
          /\ t.pend = t.row => m = doc[t.doc]
          /\ tags' = [tags EXCEPT ![t.doc] = tags[t.doc] \ t.cleared]
          /\ \/ ~doc[t.doc].live /\ Goto(Backfill, Closed)
             \/ \E n \in Session :
                  /\ doc[t.doc].live /\ Goto(Backfill, n)
                  /\ n.pc = "lookup" /\ Same(n, t) /\ n.row = m /\ n.pend = m
                  /\ n.mint = Keep /\ n.cleared = {}
                  /\ n.goal = t.goal /\ n.replace = t.replace
    BY <1>0, <1>2, <1>3, MintEffect
  <1>6. t = s
    BY <1>5
  <1>7. m = doc[s.doc]
    BY <1>2, <1>5, <1>6
  <1>8. PICK n \in Session :
          /\ Goto(Backfill, n)
          /\ n.pc = "lookup" /\ Same(n, s) /\ n.row = m /\ n.pend = m
          /\ n.cleared = {} /\ n.goal = s.goal /\ n.replace = s.replace
    BY <1>2, <1>5, <1>6
  <1>9. doc' = doc /\ tags'[s.doc] = {} /\ \A d \in Docs : d # s.doc => tags'[d] = tags[d]
    BY <1>0, <1>2, <1>5, <1>6, <1>7
  <1>10. n.doc = s.doc /\ n.plan = s.plan
    BY <1>8 DEF Same
  <1> QED
    BY <1>1, <1>4, <1>7, <1>8, <1>9, <1>10

\* No tag is refused: the document has none left.
LEMMA AloneStore ==
  ASSUME EditsInv, AloneInv, Alone, StoreTags, NEW s, s = ses[Backfill]
  PROVE  /\ Open(Backfill) /\ s.pc = "store" /\ LoopKept /\ task'.loop.loaded = {}
         /\ UNCHANGED <<doc, ver, told>>
         /\ tags'[s.doc] = s.goal /\ \A d \in Docs : d # s.doc => tags'[d] = tags[d]
         /\ \E n \in Session :
              /\ Goto(Backfill, n)
              /\ n.pc = "commit" /\ n.doc = s.doc /\ n.plan = s.plan
              /\ n.row = doc[s.doc] /\ n.pend = s.plan
              /\ n.goal = s.goal /\ n.replace = s.replace
  <1>0. EditsTypeInv /\ tags \in [Docs -> SUBSET Tags] /\ doc \in [Docs -> Row]
    BY DEF EditsInv, EditsTypeInv
  <1>1. Open(Backfill) /\ s.pc = "store"
    BY DEF StoreTags, At, Open
  <1>2. /\ s \in Session /\ loop.on /\ s.doc \in Docs /\ doc[s.doc].live
        /\ s.plan \in Row /\ s.plan = RulesRow(s.doc)
        /\ s.replace /\ s.cleared = tags[s.doc]
    BY <1>1, WorkKnown
  <1>3. LoopKept /\ task'.loop.loaded = {} /\ UNCHANGED <<doc, ver, told>>
    BY <1>0, <1>2, StoreTagsEffect
  <1>4. ~TagTaken(s) /\ StoredTags(s) = s.goal
    BY <1>2 DEF TagTaken, StoredTags
  <1>9. PICK t \in Session :
          /\ t = ses[Backfill] /\ doc[t.doc].live
          /\ \/ TagTaken(t) /\ tags' = tags /\ Goto(Backfill, Closed)
             \/ \E n \in Session :
                  /\ tags' = [tags EXCEPT ![t.doc] = StoredTags(t)]
                  /\ StoredTags(t) \in SUBSET Tags
                  /\ Goto(Backfill, n)
                  /\ n.pc = "commit" /\ Same(n, t) /\ n.row = doc[t.doc]
                  /\ n.mint = Keep /\ n.cleared = {}
                  /\ n.goal = t.goal /\ n.replace = t.replace
                  /\ n.pend.live = doc[t.doc].live /\ n.pend.text = doc[t.doc].text
                  /\ n.pend.cat = t.plan.cat /\ n.pend.reasons = t.plan.reasons
                  /\ n.pend.status = t.plan.status
                  /\ n.pend.current = doc[t.doc].current
    BY <1>0, <1>2, StoreTagsEffect
  <1>10. t = s
    BY <1>9
  <1>5. PICK n \in Session :
          /\ tags' = [tags EXCEPT ![s.doc] = StoredTags(s)]
          /\ StoredTags(s) \in SUBSET Tags
          /\ Goto(Backfill, n)
          /\ n.pc = "commit" /\ Same(n, s) /\ n.row = doc[s.doc]
          /\ n.mint = Keep /\ n.cleared = {}
          /\ n.goal = s.goal /\ n.replace = s.replace
          /\ n.pend.live = doc[s.doc].live /\ n.pend.text = doc[s.doc].text
          /\ n.pend.cat = s.plan.cat /\ n.pend.reasons = s.plan.reasons
          /\ n.pend.status = s.plan.status
          /\ n.pend.current = doc[s.doc].current
    BY ZenonT(60), <1>4, <1>9, <1>10
  <1>6. /\ n.doc = s.doc /\ n.plan = s.plan /\ tags'[s.doc] = s.goal
        /\ \A d \in Docs : d # s.doc => tags'[d] = tags[d]
    BY <1>0, <1>2, <1>4, <1>5 DEF Same
  <1>7. s.plan.live = doc[s.doc].live /\ s.plan.text = doc[s.doc].text
        /\ s.plan.current = doc[s.doc].current
    BY <1>0, <1>2, RulesRowEffect
  <1>11. n.pend \in Row /\ s.plan \in Row
    BY <1>2 DEF Session
  <1>12. /\ n.pend.live = s.plan.live /\ n.pend.text = s.plan.text
         /\ n.pend.cat = s.plan.cat /\ n.pend.reasons = s.plan.reasons
         /\ n.pend.status = s.plan.status /\ n.pend.current = s.plan.current
    BY <1>5, <1>7
  <1>8. n.pend = s.plan
    BY <1>11, <1>12, SameRow
  <1> QED
    BY <1>1, <1>3, <1>5, <1>6, <1>8

\* No version is refused, and the row is the rules' row, numbered.
LEMMA AloneCommit ==
  ASSUME EditsInv, AloneInv, Alone, BackfillCommit, NEW s, s = ses[Backfill]
  PROVE  /\ Open(Backfill) /\ s.pc = "commit" /\ LoopKept /\ task'.loop.loaded = {}
         /\ task'.loop.done = loop.done \cup {s.doc}
         /\ Goto(Backfill, Closed) /\ UNCHANGED <<tags, told>>
         /\ \E m \in Row, v \in Version :
              /\ doc' = [doc EXCEPT ![s.doc] = m] /\ m.live = doc[s.doc].live
              /\ m.text = s.plan.text /\ m.cat = s.plan.cat
              /\ m.reasons = s.plan.reasons /\ m.status = s.plan.status
              /\ ver' = [ver EXCEPT ![s.doc] = Append(ver[s.doc], v)]
              /\ v.text = m.text /\ v.cat = m.cat /\ v.tags = tags[s.doc]
  <1>0. EditsTypeInv /\ tags \in [Docs -> SUBSET Tags] /\ doc \in [Docs -> Row]
    BY DEF EditsInv, EditsTypeInv
  <1>1. Open(Backfill) /\ s.pc = "commit"
    BY DEF BackfillCommit, At, Open
  <1>2. /\ s \in Session /\ loop.on /\ s.doc \in Docs /\ s.row = doc[s.doc] /\ s.pend = s.plan
        /\ tags[s.doc] = s.goal /\ (~s.replace => s.before = s.goal)
    BY <1>1, WorkKnown
  <1>3. ~VersionTaken(s)
    <2>1. s.row.current = Len(ver[s.doc]) /\ ver[s.doc] \in Seq(Version)
      BY <1>2 DEF EditsInv, EditsTypeInv, Numbered
    <2> QED
      BY <2>1 DEF VersionTaken
  <1>4. /\ LoopKept /\ task'.loop.loaded = {} /\ Goto(Backfill, Closed) /\ told' = told
        /\ task'.loop.done = loop.done \cup {s.doc}
        /\ Committed(Backfill, s, IF s.replace THEN s.goal ELSE s.before, tags[s.doc])
    BY <1>0, <1>2, <1>3, BackfillCommitEffect
  <1>5. Committed(Backfill, s, tags[s.doc], tags[s.doc])
    BY <1>2, <1>4
  <1>6. PICK m \in Row, v \in Version :
          /\ doc' = [doc EXCEPT ![s.doc] = m] /\ m.live = doc[s.doc].live
          /\ m.text = Flushed(s).text /\ m.cat = Flushed(s).cat
          /\ m.reasons = Flushed(s).reasons /\ m.status = Flushed(s).status
          /\ ver' = [ver EXCEPT ![s.doc] = Append(ver[s.doc], v)]
          /\ v.text = s.pend.text /\ v.cat = s.pend.cat /\ v.tags = tags[s.doc]
    BY <1>5 DEF Committed
  <1>7. tags' = tags
    BY <1>0, <1>2, <1>5 DEF Committed
  <1>8. /\ m.text = s.plan.text /\ m.cat = s.plan.cat
        /\ m.reasons = s.plan.reasons /\ m.status = s.plan.status
    BY <1>0, <1>2, <1>6, FlushedEffect
  <1>9. v.text = m.text /\ v.cat = m.cat
    BY <1>2, <1>6, <1>8
  <1>10. \E k \in Row, w \in Version :
           /\ doc' = [doc EXCEPT ![s.doc] = k] /\ k.live = doc[s.doc].live
           /\ k.text = s.plan.text /\ k.cat = s.plan.cat
           /\ k.reasons = s.plan.reasons /\ k.status = s.plan.status
           /\ ver' = [ver EXCEPT ![s.doc] = Append(ver[s.doc], w)]
           /\ w.text = k.text /\ w.cat = k.cat /\ w.tags = tags[s.doc]
    BY <1>6, <1>8, <1>9
  <1> QED
    BY <1>1, <1>4, <1>7, <1>10

LEMMA AloneInductive ==
  ASSUME EditsInv, AloneInv, [Next]_vars
  PROVE  AloneInv'
  <1>0. /\ EditsTypeInv /\ Roles /\ doc \in [Docs -> Row] /\ tags \in [Docs -> SUBSET Tags]
        /\ loop \in Loop /\ Rule \in [Texts -> [cat : Cats, tags : SUBSET Tags, reasons : SUBSET Reasons]]
    BY RuleAssumption DEF EditsInv, EditsTypeInv, loop
  <1>1. CASE UNCHANGED vars
    BY <1>1 DEF vars, rows, AloneInv, Alone, used, Open, loop, Live, AtWork, BackfillAt,
                Ruled, RulesRow
  <1>2. CASE Next
    <2> SUFFICES ASSUME Alone'
                 PROVE  AloneInv'
      BY DEF AloneInv
    <2>0. /\ Backfill \in Sessions /\ ses \in [Sessions -> {Closed} \cup Session]
          /\ \A p \in Sessions : ~Open(p) => ses[p] = Closed
          /\ Closed.pc = "closed" /\ \A s \in Session : s.pc # "closed"
      BY <1>0, SessionTypes DEF EditsTypeInv
    <2>1. /\ \A p \in Sessions : Open(p) => p = Backfill
          /\ \A d \in loop.loaded : loop.cache[d] = doc[d]
          /\ loop.todo \subseteq Live
          /\ Open(Backfill) => AtWork(ses[Backfill])
          /\ \A d \in loop.seen : BackfillAt(d) \/ Ruled(d)
      BY <1>2, AloneSteps DEF AloneInv
    <2>2. CASE RequestBackfill \/ StartBackfill
      <3>1. UNCHANGED <<rows, ses>>
        BY <1>0, <2>2 DEF RequestBackfill, StartBackfill
      <3>2. \/ task'.loop = loop
            \/ task'.loop.loaded = {} /\ task'.loop.todo = {} /\ task'.loop.seen = {} /\ ~loop.on
        BY <1>0, <2>2, StartBackfillEffect DEF RequestBackfill, EditsTypeInv, loop
      <3>3. ~loop.on => ~Open(Backfill)
        BY <1>0 DEF Roles
      <3> QED
        BY <2>1, <3>1, <3>2, <3>3 DEF rows, AloneInv, Open, loop, Live, AtWork, BackfillAt,
                Ruled, RulesRow
    <2>3. CASE NextPage
      <3>1. /\ ~Open(Backfill) /\ UNCHANGED <<rows, ses>>
            /\ task'.loop.todo = PageOf(loop.offset) /\ task'.loop.cache = doc
            /\ task'.loop.seen = loop.seen /\ task'.loop.loaded = PageOf(loop.offset)
        BY <1>0, <2>3, NextPageEffect
      <3>2. PageOf(loop.offset) \subseteq Live
        BY DEF PageOf, Matching, Matches, Live
      <3> QED
        BY <2>1, <3>1, <3>2 DEF rows, AloneInv, Open, loop, Live, AtWork, BackfillAt,
                Ruled, RulesRow
    <2>4. CASE FinishBackfill \/ BackfillKilled
      <3>1. UNCHANGED rows /\ task'.loop = NoLoop
        BY <1>0, <2>4, FinishBackfillEffect, BackfillEndsEffect
      <3>2. Goto(Backfill, Closed)
        <4>1. CASE FinishBackfill
          BY <1>0, <2>0, <4>1, FinishBackfillEffect DEF Goto
        <4>2. CASE BackfillKilled
          BY <1>0, <4>2, BackfillEndsEffect
        <4> QED
          BY <2>4, <4>1, <4>2
      <3> QED
        BY <1>0, <2>1, <3>1, <3>2, NoLoopType, AloneStep
    <2>5. CASE BackfillRead
      <3>1. ~Open(Backfill) /\ UNCHANGED <<doc, tags, ver>>
        BY <1>0, <2>5, BackfillReadEffect
      <3>2. PICK d \in loop.todo, page, row, plan \in Row :
              /\ d \in Docs /\ Reads(d, page, row)
              /\ plan = Reclassified(row, Rule[page.text])
              /\ \/ /\ Goto(Backfill, Closed)
                    /\ plan = row /\ Rule[page.text].tags = tags[d]
                 \/ \E n \in Session : Starts(n, d, Rule[page.text], row, plan)
        BY <1>0, <2>5, BackfillReadEffect
      <3>3. /\ page = doc[d] /\ row = doc[d] /\ plan = RulesRow(d) /\ doc[d].live
            /\ task'.loop.todo \subseteq loop.todo /\ task'.loop.seen = loop.seen \cup {d}
            /\ task'.loop.loaded \subseteq loop.loaded /\ task'.loop.cache = loop.cache
        BY <2>1, <3>2 DEF Reads, RulesRow, Live
      <3>4. /\ \A o \in task'.loop.loaded : task'.loop.cache[o] = doc'[o]
            /\ task'.loop.todo \subseteq Live'
        BY <2>1, <3>1, <3>3 DEF Live
      <3>5. \A o \in loop.seen : Ruled(o)'
        BY <2>1, <3>1 DEF BackfillAt, Ruled, RulesRow
      <3>6. CASE /\ Goto(Backfill, Closed)
                 /\ plan = row /\ Rule[page.text].tags = tags[d]
        <4>1. Ruled(d)'
          BY <3>1, <3>3, <3>6 DEF Ruled, RulesRow
        <4> QED
          BY <1>0, <2>1, <3>3, <3>4, <3>5, <3>6, <4>1, AloneStep
      <3>7. CASE \E n \in Session : Starts(n, d, Rule[page.text], row, plan)
        <4>1. PICK n \in Session : Starts(n, d, Rule[page.text], row, plan)
          BY <3>7
        <4>2. /\ Goto(Backfill, n) /\ n.doc = d /\ n.row = doc[d] /\ n.plan = RulesRow(d)
              /\ n.before = tags[d] /\ n.goal = Rule[doc[d].text].tags
              /\ IF n.goal # tags[d]
                 THEN n.pc = "lookup" /\ n.replace = TRUE /\ n.pend = doc[d] /\ n.cleared = tags[d]
                 ELSE n.pc = "commit" /\ n.replace = FALSE /\ n.pend = n.plan
          BY <3>3, <4>1 DEF Starts
        <4>3. AtWork(n)'
          BY <3>1, <3>3, <4>2 DEF AtWork, RulesRow, loop
        <4> QED
          BY <1>0, <2>0, <2>1, <3>3, <3>4, <3>5, <4>2, <4>3, AloneStep
      <3> QED
        BY <3>2, <3>6, <3>7
    <2>6. CASE LookUp(Backfill) \/ Mint(Backfill) \/ StoreTags \/ BackfillCommit
      <3>0. PICK s : s = ses[Backfill]
        BY SMTT(60)
      <3>1. Open(Backfill)
        BY <2>6 DEF LookUp, Mint, StoreTags, BackfillCommit, At, Open
      <3>2. /\ s \in Session /\ s.doc \in Docs /\ s.plan \in Row
            /\ doc[s.doc].live /\ s.doc \in loop.seen
            /\ s.row = doc[s.doc] /\ s.plan = RulesRow(s.doc)
            /\ s.goal = Rule[doc[s.doc].text].tags
            /\ IF s.pc = "commit"
               THEN s.pend = s.plan /\ tags[s.doc] = s.goal /\ (~s.replace => s.before = s.goal)
               ELSE s.pend = doc[s.doc] /\ s.replace /\ s.cleared = tags[s.doc]
        BY <1>2, <3>0, <3>1, AloneSteps, WorkKnown
      <3>3. /\ Alone /\ \A d \in loop.seen : d \in Docs /\ (d = s.doc \/ Ruled(d))
        BY <1>0, <1>2, <2>1, <3>0, AloneSteps DEF BackfillAt, Loop
      <3>4. CASE LookUp(Backfill)
        <4>1. UNCHANGED <<rows, task>>
          BY <1>0, <3>4, LookUpEffect
        <4>2. PICK n \in Session :
                /\ Goto(Backfill, n)
                /\ Same(n, s) /\ n.row = s.row /\ n.pend = s.pend
                /\ n.goal = s.goal /\ n.replace = s.replace /\ n.cleared = s.cleared
                /\ n.pc = "store" \/ (n.pc = "mint" /\ n.mint \notin names.tags)
          BY <1>0, <3>0, <3>4, LookUpEffect
        <4>3. n.doc = s.doc /\ n.plan = s.plan /\ s.pc = "lookup"
          BY <3>0, <3>4, <4>2 DEF Same, LookUp, At
        <4>4. AtWork(n)'
          BY <3>2, <4>1, <4>2, <4>3 DEF AtWork, RulesRow, rows, loop
        <4>5. \A d \in loop.seen : d = s.doc \/ Ruled(d)'
          BY <3>3, <4>1 DEF Ruled, RulesRow, rows
        <4> QED
          BY <1>0, <2>0, <2>1, <4>1, <4>2, <4>3, <4>4, <4>5, AloneStep DEF rows, loop, Live
      <3>5. CASE Mint(Backfill)
        <4>1. /\ LoopKept /\ task'.loop.loaded = {} /\ doc' = doc /\ s.pc = "mint"
              /\ tags'[s.doc] = {} /\ \A d \in Docs : d # s.doc => tags'[d] = tags[d]
          BY <3>0, <3>3, <3>5, AloneMint
        <4>2. PICK n \in Session :
              /\ Goto(Backfill, n)
              /\ n.pc = "lookup" /\ n.doc = s.doc /\ n.plan = s.plan
              /\ n.row = doc[s.doc] /\ n.pend = doc[s.doc]
              /\ n.cleared = {} /\ n.goal = s.goal /\ n.replace = s.replace
          BY <3>0, <3>3, <3>5, AloneMint
        <4>3. AtWork(n)'
          BY <3>2, <4>1, <4>2 DEF AtWork, RulesRow, LoopKept, loop
        <4>4. \A d \in loop.seen : d = s.doc \/ Ruled(d)'
          BY <3>3, <4>1 DEF Ruled, RulesRow
        <4>5. task'.loop.todo \subseteq Live' /\ task'.loop.seen = loop.seen
          BY <2>1, <4>1 DEF LoopKept, Live
        <4> QED
          BY <1>0, <2>0, <2>1, <4>1, <4>2, <4>3, <4>4, <4>5, AloneStep
      <3>6. CASE StoreTags
        <4>1. /\ LoopKept /\ task'.loop.loaded = {} /\ doc' = doc /\ s.pc = "store"
              /\ tags'[s.doc] = s.goal /\ \A d \in Docs : d # s.doc => tags'[d] = tags[d]
          BY <3>0, <3>3, <3>6, AloneStore
        <4>2. PICK n \in Session :
              /\ Goto(Backfill, n)
              /\ n.pc = "commit" /\ n.doc = s.doc /\ n.plan = s.plan
              /\ n.row = doc[s.doc] /\ n.pend = s.plan
              /\ n.goal = s.goal /\ n.replace = s.replace
          BY <3>0, <3>3, <3>6, AloneStore
        <4>3. AtWork(n)'
          BY <3>2, <4>1, <4>2 DEF AtWork, RulesRow, LoopKept, loop
        <4>4. \A d \in loop.seen : d = s.doc \/ Ruled(d)'
          BY <3>3, <4>1 DEF Ruled, RulesRow
        <4>5. task'.loop.todo \subseteq Live' /\ task'.loop.seen = loop.seen
          BY <2>1, <4>1 DEF LoopKept, Live
        <4> QED
          BY <1>0, <2>0, <2>1, <4>1, <4>2, <4>3, <4>4, <4>5, AloneStep
      <3>7. CASE BackfillCommit
        <4>1. /\ LoopKept /\ task'.loop.loaded = {} /\ Goto(Backfill, Closed)
              /\ s.pc = "commit" /\ tags' = tags
          BY <3>0, <3>3, <3>7, AloneCommit
        <4>2. PICK m \in Row :
              /\ doc' = [doc EXCEPT ![s.doc] = m] /\ m.live = doc[s.doc].live
              /\ m.text = s.plan.text /\ m.cat = s.plan.cat
              /\ m.reasons = s.plan.reasons /\ m.status = s.plan.status
          BY <3>0, <3>3, <3>7, AloneCommit
        <4>3. Ruled(s.doc)'
          <5>1. PICK out : out = Rule[doc[s.doc].text]
            OBVIOUS
          <5>2. out \in [cat : Cats, tags : SUBSET Tags, reasons : SUBSET Reasons]
            BY <1>0, <3>2, <5>1 DEF Row
          <5>3. /\ s.plan.text = doc[s.doc].text /\ s.plan.cat = out.cat
                /\ s.plan.reasons = out.reasons \cup (doc[s.doc].reasons \cap {Duplicate})
                /\ s.plan.status = IF s.plan.reasons = {} THEN "NONE" ELSE "NEEDS_REVIEW"
            BY <1>0, <3>2, <5>1, RulesRowEffect
          <5>4. PICK again : again = Reclassified(m, out)
            OBVIOUS
          <5>5. /\ again \in Row /\ again.text = m.text /\ again.live = m.live
                /\ again.current = m.current /\ again.cat = out.cat
                /\ again.reasons = out.reasons \cup (m.reasons \cap {Duplicate})
                /\ again.status = IF again.reasons = {} THEN "NONE" ELSE "NEEDS_REVIEW"
            BY <5>2, <5>4, ReclassifiedEffect
          <5>6. again.reasons = m.reasons
            BY <4>2, <5>3, <5>5
          <5>7. again = m
            BY <4>2, <5>3, <5>5, <5>6, SameRow
          <5>8. doc'[s.doc] = m /\ m.text = doc[s.doc].text
            BY <1>0, <3>2, <4>2, <5>3
          <5> QED
            BY <3>2, <4>1, <5>1, <5>4, <5>7, <5>8 DEF Ruled, RulesRow
        <4>4. \A d \in Docs : d # s.doc => doc'[d] = doc[d]
          BY <1>0, <4>2
        <4>5. \A d \in loop.seen : Ruled(d)'
          BY <3>3, <4>1, <4>3, <4>4 DEF Ruled, RulesRow
        <4>6. Live' = Live
          BY <1>0, <3>2, <4>2, <4>4 DEF Live
        <4>7. task'.loop.todo \subseteq Live' /\ task'.loop.seen = loop.seen
          BY <2>1, <4>1, <4>6 DEF LoopKept
        <4> QED
          BY <1>0, <2>1, <4>1, <4>5, <4>7, AloneStep
      <3> QED
        BY <2>6, <3>4, <3>5, <3>6, <3>7
    <2> QED
      BY <1>2, <2>2, <2>3, <2>4, <2>5, <2>6, AloneSteps
  <1> QED
    BY <1>1, <1>2

LEMMA UnkilledInductive ==
  ASSUME EditsInv, AloneInv, UnkilledInv, [Next]_vars
  PROVE  UnkilledInv'
  <1>0. /\ EditsTypeInv /\ doc \in [Docs -> Row] /\ tags \in [Docs -> SUBSET Tags]
        /\ ver \in [Docs -> Seq(Version)]
    BY DEF EditsInv, EditsTypeInv
  <1>1. CASE UNCHANGED vars
    BY <1>1 DEF vars, rows, UnkilledInv, BackfillOnly, used, Live, Written, Last, BackfillAt,
                Open, Told, Searched, loop
  <1>2. CASE Next
    <2> SUFFICES ASSUME BackfillOnly'
                 PROVE  UnkilledInv'
      BY DEF UnkilledInv
    <2>0. /\ Backfill \in Sessions /\ ses \in [Sessions -> {Closed} \cup Session]
          /\ Closed.pc = "closed" /\ \A s \in Session : s.pc # "closed"
      BY <1>0, SessionTypes DEF EditsTypeInv
    <2>1. /\ used["kills"] \in Nat /\ used["kills"] <= used'["kills"] /\ used'["kills"] = 0
          /\ used["requests"] \in Nat /\ used["requests"] <= used'["requests"]
          /\ used["deletes"] \in Nat /\ used["deletes"] <= used'["deletes"]
      BY <1>0, <1>2, UsedGrows DEF Events, BackfillOnly
    <2>2. Alone' /\ BackfillOnly
      BY <2>1 DEF BackfillOnly, Alone
    <2>3. Alone
      BY <1>2, <2>2, AloneSteps
    <2>4. \A d \in Live :
             /\ Written(d)
             /\ BackfillAt(d) \/ Last(d).tags = tags[d]
             /\ BackfillAt(d) \/ Told(d) \/ d \in loop.done
      BY <2>2 DEF UnkilledInv
    \* A document that keeps its row, its tags, its versions and what was told of it.
    <2>5. ASSUME NEW d \in Live, doc'[d] = doc[d], tags'[d] = tags[d], ver'[d] = ver[d],
                 told'[d] = told[d], BackfillAt(d) => BackfillAt(d)',
                 d \in loop.done => d \in task'.loop.done \/ Told(d)'
          PROVE  /\ Written(d)'
                 /\ BackfillAt(d)' \/ Last(d)'.tags = tags'[d]
                 /\ BackfillAt(d)' \/ Told(d)' \/ d \in task'.loop.done
      <3>1. Last(d)' = Last(d) /\ (Told(d)' <=> Told(d)) /\ (Written(d)' <=> Written(d))
        BY <2>5 DEF Last, Told, Searched, Written
      <3> QED
        BY <2>4, <2>5, <3>1
    <2>6. CASE RequestBackfill \/ StartBackfill \/ NextPage \/ BackfillRead \/ LookUp(Backfill)
      <3>1. UNCHANGED <<doc, tags, ver, told>>
        BY <1>0, <2>6, StartBackfillEffect, NextPageEffect, BackfillReadEffect, LookUpEffect
           DEF rows, RequestBackfill, EditsInv
      <3>2. loop.done \subseteq task'.loop.done
        <4>1. CASE RequestBackfill
          BY <1>0, <4>1 DEF RequestBackfill, EditsTypeInv, loop
        <4>2. CASE StartBackfill
          BY <1>0, <4>2, StartBackfillEffect, NoLoopType DEF EditsInv, Roles
        <4>3. CASE NextPage
          BY <1>0, <4>3, NextPageEffect
        <4>4. CASE BackfillRead
          <5>1. \E d, page, row : Reads(d, page, row)
            BY <1>0, <4>4, BackfillReadEffect DEF EditsInv
          <5> QED
            BY <5>1 DEF Reads
        <4>5. CASE LookUp(Backfill)
          BY <1>0, <4>5, LookUpEffect DEF loop
        <4> QED
          BY <2>6, <4>1, <4>2, <4>3, <4>4, <4>5
      <3>3. ASSUME NEW d \in Docs, BackfillAt(d)
            PROVE  BackfillAt(d)'
        <4>1. Open(Backfill) /\ ses[Backfill].doc = d
          BY <3>3 DEF BackfillAt
        <4>2. CASE RequestBackfill \/ StartBackfill
          BY <4>1, <4>2 DEF RequestBackfill, StartBackfill, BackfillAt, Open
        <4>3. CASE NextPage \/ BackfillRead
          BY <4>1, <4>3 DEF NextPage, BackfillRead, At, Open
        <4>4. CASE LookUp(Backfill)
          <5>1. PICK n \in Session : Goto(Backfill, n) /\ Same(n, ses[Backfill])
            BY <1>0, <4>4, LookUpEffect
          <5> QED
            BY <2>0, <4>1, <5>1 DEF Goto, Same, BackfillAt, Open
        <4> QED
          BY <2>6, <4>2, <4>3, <4>4
      <3>4. Live' = Live /\ Live \subseteq Docs
        BY <3>1 DEF Live
      <3> QED
        BY <2>5, <3>1, <3>2, <3>3, <3>4 DEF UnkilledInv, loop
    <2>7. CASE Mint(Backfill) \/ StoreTags
      <3>1. PICK s : s = ses[Backfill]
        OBVIOUS
      <3>2. /\ Open(Backfill) /\ LoopKept /\ UNCHANGED <<doc, ver, told>>
            /\ \A d \in Docs : d # s.doc => tags'[d] = tags[d]
            /\ \E n \in Session : Goto(Backfill, n) /\ n.doc = s.doc
        <4>1. CASE Mint(Backfill)
          BY <2>3, <3>1, <4>1, AloneMint
        <4>2. CASE StoreTags
          BY <2>3, <3>1, <4>2, AloneStore
        <4> QED
          BY <2>7, <4>1, <4>2
      <3>3. BackfillAt(s.doc)' /\ \A d : BackfillAt(d) => d = s.doc
        BY <2>0, <3>1, <3>2 DEF Goto, BackfillAt, Open
      <3>4. Live' = Live /\ Live \subseteq Docs /\ loop.done \subseteq task'.loop.done
        BY <3>2 DEF Live, LoopKept
      <3>5. ASSUME NEW d \in Live, d # s.doc
            PROVE  /\ Written(d)'
                   /\ BackfillAt(d)' \/ Last(d)'.tags = tags'[d]
                   /\ BackfillAt(d)' \/ Told(d)' \/ d \in task'.loop.done
        BY <2>5, <3>2, <3>3, <3>4, <3>5
      <3>6. ASSUME NEW d \in Live, d = s.doc
            PROVE  Written(d)' /\ BackfillAt(d)'
        <4>1. Written(d)
          BY <2>4, <3>6
        <4> QED
          BY <3>2, <3>3, <3>6, <4>1 DEF Written, Last
      <3> QED
        BY <3>4, <3>5, <3>6 DEF UnkilledInv, loop
    <2>8. CASE BackfillCommit
      <3>1. PICK s : s = ses[Backfill]
        OBVIOUS
      <3>2. /\ Open(Backfill) /\ UNCHANGED <<tags, told>>
            /\ task'.loop.done = loop.done \cup {s.doc}
        BY <2>3, <2>8, <3>1, AloneCommit
      <3>3. PICK m \in Row, v \in Version :
              /\ doc' = [doc EXCEPT ![s.doc] = m] /\ m.live = doc[s.doc].live
              /\ ver' = [ver EXCEPT ![s.doc] = Append(ver[s.doc], v)]
              /\ v.text = m.text /\ v.cat = m.cat /\ v.tags = tags[s.doc]
        BY <2>3, <2>8, <3>1, AloneCommit
      <3>4. s.doc \in Docs
        BY <2>3, <3>1, <3>2, WorkKnown
      <3>5. /\ doc'[s.doc] = m /\ ver'[s.doc] = Append(ver[s.doc], v)
            /\ \A d \in Docs : d # s.doc => doc'[d] = doc[d] /\ ver'[d] = ver[d]
            /\ ver[s.doc] \in Seq(Version)
        BY <1>0, <3>3, <3>4
      <3>6. Live' = Live /\ Live \subseteq Docs
        BY <3>3, <3>5 DEF Live
      <3>7. ASSUME NEW d \in Live, d # s.doc
            PROVE  /\ Written(d)'
                   /\ BackfillAt(d)' \/ Last(d)'.tags = tags'[d]
                   /\ BackfillAt(d)' \/ Told(d)' \/ d \in task'.loop.done
        <4>1. ~BackfillAt(d)
          BY <3>1, <3>7 DEF BackfillAt
        <4> QED
          BY <2>5, <3>2, <3>5, <3>6, <3>7, <4>1
      <3>8. ver'[s.doc][Len(ver'[s.doc])] = v
        BY <3>5
      <3>9. Written(s.doc)' /\ Last(s.doc)'.tags = tags'[s.doc]
        BY <3>2, <3>3, <3>5, <3>8 DEF Written, Last
      <3> QED
        BY <3>2, <3>6, <3>7, <3>9 DEF UnkilledInv, loop
    <2>9. CASE FinishBackfill
      <3>1. /\ ~Open(Backfill) /\ UNCHANGED <<doc, tags, ver, ses>>
            /\ Tell({d \in loop.done : doc[d].live})
        BY <1>0, <2>9, FinishBackfillEffect DEF rows
      <3>2. Live' = Live /\ Live \subseteq Docs
        BY <3>1 DEF Live
      <3>3. ASSUME NEW d \in Live
            PROVE  Told(d)' /\ Written(d)' /\ Last(d)'.tags = tags'[d]
        <4>1. Written(d) /\ Last(d).tags = tags[d] /\ (Told(d) \/ d \in loop.done)
          BY <2>4, <3>1 DEF BackfillAt
        <4>2. Written(d)' /\ Last(d)'.tags = tags'[d]
          BY <3>1, <4>1 DEF Written, Last
        <4>3. PICK ds : ds = {o \in loop.done : doc[o].live}
          OBVIOUS
        <4>4. /\ d \in ds => told'[d] = [text |-> doc'[d].text, cat |-> doc'[d].cat,
                                         tags |-> tags'[d], status |-> doc'[d].status]
              /\ d \notin ds => told'[d] = told[d]
          BY <1>0, <3>1, <3>2, <4>3, TellEffect
        <4>5. d \in ds => Told(d)'
          BY <4>4 DEF Told, Searched
        <4>6. ASSUME d \notin ds
              PROVE  Told(d)'
          <5>1. Told(d)
            BY <4>1, <4>3, <4>6 DEF Live
          <5> QED
            BY <3>1, <4>4, <4>6, <5>1 DEF Told, Searched
        <4> QED
          BY <4>2, <4>5, <4>6
      <3> QED
        BY <3>2, <3>3 DEF UnkilledInv
    <2>10. ~BackfillKilled
      BY <1>0, <2>1, BackfillEndsEffect, CountEffect DEF Events
    <2> QED
      BY <1>2, <2>2, <2>6, <2>7, <2>8, <2>9, <2>10, AloneSteps
  <1> QED
    BY <1>1, <1>2

-----------------------------------------------------------------------------
(* The mark of a suspected duplicate.                                      *)

\* A step of session p: only a reviewer takes a mark off, only the backfill puts
\* one back, and then it reads its documents again.
MarkFine(p, n) ==
    /\ Goto(p, n) /\ (n # Closed => MarkOf(p, n)')
    /\ \A d \in Docs : Marked(d) /\ ~Marked(d)'
          => p \in Reviewers /\ Open(p) /\ ses[p].doc = d
    /\ \A d \in Docs : ~Marked(d) /\ Marked(d)' => p = Backfill /\ task'.loop.loaded = {}
    /\ \/ task'.loop.loaded = {}
       \/ task'.loop.loaded \subseteq loop.loaded /\ task'.loop.cache = loop.cache
       \/ task'.loop.cache = doc /\ doc' = doc

LEMMA MarkStill ==
  ASSUME NEW p, NEW n, Goto(p, n), doc' = doc, LoopKept \/ task' = task,
         n # Closed => MarkOf(p, n)
  PROVE  MarkFine(p, n)
  <1>1. /\ task'.loop.loaded \subseteq loop.loaded /\ task'.loop.cache = loop.cache
    BY DEF LoopKept, loop
  <1>2. n # Closed => MarkOf(p, n)'
    BY DEF MarkOf, Marked
  <1> QED
    BY <1>1, <1>2 DEF MarkFine, Marked

LEMMA MarkSteps ==
  ASSUME EditsInv, MarkInv, Next
  PROVE  \E p \in Sessions, n \in {Closed} \cup Session : MarkFine(p, n)
  <1>0. /\ EditsTypeInv /\ Roles /\ doc \in [Docs -> Row]
        /\ ses \in [Sessions -> {Closed} \cup Session]
    BY DEF EditsInv, EditsTypeInv
  <1>1. /\ Editors \subseteq Sessions /\ Reviewers \subseteq Sessions /\ Backfill \in Sessions
        /\ (\A e \in Editors : e \notin Reviewers /\ e # Backfill) /\ Backfill \notin Reviewers
        /\ Closed \in {Closed} \cup Session
    BY <1>0, SessionTypes
  <1>2. ASSUME NEW e \in Editors, NEW n, n \in {Closed} \cup Session, Goto(e, n),
               UNCHANGED <<doc, task>>
        PROVE  MarkFine(e, n)
    BY <1>1, <1>2, MarkStill DEF MarkOf
  <1>3. ASSUME NEW e \in Editors, NEW d \in Docs, NEW q, q \in setting.patches, PatchLoad(e, d, q)
        PROVE  \E n \in {Closed} \cup Session : MarkFine(e, n)
    <2>1. PICK n \in Session : Opened(n, e, d, q)
      BY <1>0, <1>3, PatchLoadEffect
    <2>2. UNCHANGED <<doc, task>>
      BY <1>0, <1>3, PatchLoadEffect DEF rows
    <2> QED
      BY <1>2, <2>1, <2>2 DEF Opened
  <1>4. ASSUME NEW e \in Editors, PatchCategoryTaken(e)
        PROVE  \E n \in {Closed} \cup Session : MarkFine(e, n)
    <2>1. PICK n \in {Closed} \cup Session : Goto(e, n)
      BY <1>0, <1>4, PatchCategoryTakenEffect
    <2>2. UNCHANGED <<doc, task>>
      BY <1>0, <1>4, PatchCategoryTakenEffect DEF rows
    <2> QED
      BY <1>2, <2>1, <2>2
  \* A commit: what it does to the mark of its document.
  <1>5. ASSUME NEW p, NEW s \in Session, NEW snapshot, NEW newTags,
               Committed(p, s, snapshot, newTags),
               task'.loop.loaded \subseteq loop.loaded /\ task'.loop.cache = loop.cache,
               Marked(s.doc) /\ Duplicate \notin Flushed(s).reasons
                  => p \in Reviewers /\ Open(p) /\ ses[p].doc = s.doc,
               ~Marked(s.doc) /\ Duplicate \in Flushed(s).reasons
                  => p = Backfill /\ task'.loop.loaded = {}
        PROVE  MarkFine(p, Closed)
    <2>1. PICK m \in Row : doc' = [doc EXCEPT ![s.doc] = m] /\ m.reasons = Flushed(s).reasons
      BY <1>5 DEF Committed
    <2>2. s.doc \in Docs
      BY DEF Session
    <2>3. /\ Marked(s.doc)' <=> Duplicate \in Flushed(s).reasons
          /\ \A d \in Docs : d # s.doc => (Marked(d)' <=> Marked(d))
      BY <1>0, <2>1, <2>2 DEF Marked
    <2>4. Goto(p, Closed)
      BY <1>5 DEF Committed
    <2> QED
      BY <1>5, <2>2, <2>3, <2>4 DEF MarkFine
  <1>6. ASSUME NEW e \in Editors, PatchCommit(e)
        PROVE  \E n \in {Closed} \cup Session : MarkFine(e, n)
    <2>1. Open(e)
      BY <1>6 DEF PatchCommit, At, Open
    <2>2. ses[e].req \in Patches /\ ses[e].pend.reasons = ses[e].row.reasons
      BY <1>1, <2>1, OpenSession DEF Role
    <2>3. task' = task
      BY <1>0, <1>6, <2>2, PatchCommitEffect
    <2>4. CASE UNCHANGED <<rows, told>> /\ Goto(e, Closed)
      BY <1>1, <1>2, <2>3, <2>4 DEF rows
    <2>5. CASE ~(UNCHANGED <<rows, told>> /\ Goto(e, Closed))
      <3>1. PICK s \in Session, newTags \in SUBSET Tags :
              /\ Committed(e, s, newTags, newTags)
              /\ s.row = ses[e].row /\ s.pend.reasons = ses[e].pend.reasons
        BY <1>0, <1>6, <2>2, <2>5, PatchCommitEffect
      <3>2. Flushed(s).reasons = doc[s.doc].reasons
        BY <1>0, <2>2, <3>1, FlushedEffect
      <3>3. MarkFine(e, Closed)
        BY <1>5, <2>3, <3>1, <3>2 DEF Marked, loop
      <3> QED
        BY <1>1, <3>3
    <2> QED
      BY <2>4, <2>5
  <1>7. ASSUME NEW r \in Reviewers, NEW d \in Docs, NEW q, q \in setting.reviews, ReviewLoad(r, d, q)
        PROVE  \E n \in {Closed} \cup Session : MarkFine(r, n)
    <2>1. PICK n \in Session : Opened(n, r, d, q)
      BY <1>0, <1>7, ReviewLoadEffect
    <2>2. UNCHANGED <<doc, task>>
      BY <1>0, <1>7, ReviewLoadEffect DEF rows
    <2>3. Goto(r, n) /\ MarkOf(r, n)
      BY <1>1, <2>1 DEF Opened, MarkOf, Marked
    <2> QED
      BY <2>2, <2>3, MarkStill
  <1>8. ASSUME NEW r \in Reviewers, ReviewCategory(r) \/ ReviewTags(r)
        PROVE  \E n \in {Closed} \cup Session : MarkFine(r, n)
    <2>1. Open(r)
      BY <1>8 DEF ReviewCategory, ReviewTags, At, Open
    <2>2. ses[r].req \in Reviews /\ MarkOf(r, ses[r])
      BY <1>1, <2>1, OpenSession DEF Role, MarkInv
    <2>3. UNCHANGED <<doc, task>>
      BY <1>0, <1>8, <2>2, ReviewCategoryEffect, ReviewTagsEffect DEF rows
    <2>4. PICK n \in {Closed} \cup Session :
            /\ Goto(r, n)
            /\ n # Closed => /\ Same(n, ses[r])
                             /\ n.row = doc[n.doc] \/ n.row = ses[r].row
      <3>1. CASE ReviewCategory(r)
        <4>1. CASE Goto(r, Closed)
          BY <1>1, <4>1
        <4>2. CASE ~Goto(r, Closed)
          <5>1. PICK n \in Session, b \in Row :
                  /\ Goto(r, n)
                  /\ n.pc = "tags" /\ Same(n, ses[r])
                  /\ \/ b = doc[n.doc] /\ n.row = b
                     \/ b = ses[r].pend /\ n.row = ses[r].row
            BY <1>0, <2>2, <3>1, <4>2, ReviewCategoryEffect
          <5> QED
            BY <5>1
        <4> QED
          BY <4>1, <4>2
      <3>2. CASE ReviewTags(r)
        <4>1. PICK n \in Session :
                /\ Goto(r, n)
                /\ Same(n, ses[r]) /\ n.row = ses[r].row /\ n.pend = ses[r].pend
                /\ n.mint = ses[r].mint
                /\ \/ /\ n.pc = "commit" /\ n.req.tags \in {Keep, n.before}
                      /\ n.replace = ses[r].replace /\ n.goal = ses[r].goal
                      /\ n.cleared = ses[r].cleared
                   \/ /\ n.pc = "lookup" /\ n.goal = n.req.tags /\ n.replace = TRUE
                      /\ n.goal # Keep /\ n.cleared = tags[n.doc]
          BY <1>0, <2>2, <3>2, ReviewTagsEffect
        <4> QED
          BY <4>1
      <3> QED
        BY <1>8, <3>1, <3>2
    <2>5. n # Closed => MarkOf(r, n)
      BY <1>1, <2>2, <2>4 DEF MarkOf, Marked, Same
    <2> QED
      BY <2>3, <2>4, <2>5, MarkStill
  <1>9. ASSUME NEW r \in Reviewers, ReviewCommit(r)
        PROVE  \E n \in {Closed} \cup Session : MarkFine(r, n)
    <2>1. Open(r)
      BY <1>9 DEF ReviewCommit, At, Open
    <2>2. /\ ses[r].req \in Reviews /\ MarkOf(r, ses[r])
          /\ ses[r].pend.reasons \subseteq ses[r].row.reasons
      BY <1>1, <2>1, OpenSession DEF Role, MarkInv
    <2>3. task' = task
      BY <1>0, <1>9, <2>2, ReviewCommitEffect
    <2>4. CASE UNCHANGED <<rows, told>> /\ Goto(r, Closed)
      BY <1>1, <2>3, <2>4, MarkStill DEF rows
    <2>5. CASE ~(UNCHANGED <<rows, told>> /\ Goto(r, Closed))
      <3>1. PICK s \in Session :
              /\ Committed(r, s, IF s.replace THEN s.goal ELSE s.before, StoredTags(s))
              /\ Same(s, ses[r]) /\ s.row = ses[r].row
              /\ s.pend.reasons \subseteq ses[r].pend.reasons
        BY <1>0, <1>9, <2>2, <2>5, ReviewCommitEffect
      <3>2. PICK snapshot, newTags : Committed(r, s, snapshot, newTags)
        BY <3>1
      <3>3. s.doc = ses[r].doc /\ Flushed(s).reasons \in {s.pend.reasons, doc[s.doc].reasons}
        BY <1>0, <3>1, FlushedEffect DEF Same
      <3>4. ~Marked(s.doc) => Duplicate \notin Flushed(s).reasons
        BY <2>2, <3>1, <3>3 DEF MarkOf, Marked
      <3>5. MarkFine(r, Closed)
        BY <1>5, <2>1, <2>3, <3>2, <3>3, <3>4 DEF loop
      <3> QED
        BY <1>1, <3>5
    <2> QED
      BY <2>4, <2>5
  <1>10. ASSUME NEW p \in Reviewers \cup {Backfill}, LookUp(p)
         PROVE  \E n \in {Closed} \cup Session : MarkFine(p, n)
    <2>1. Open(p) /\ p \in Sessions
      BY <1>1, <1>10 DEF LookUp, At, Open
    <2>2. MarkOf(p, ses[p])
      BY <2>1 DEF MarkInv
    <2>3. PICK n \in Session :
            Goto(p, n) /\ Same(n, ses[p]) /\ n.row = ses[p].row /\ n.pend = ses[p].pend
      BY <1>0, <1>10, LookUpEffect
    <2>4. UNCHANGED <<doc, task>>
      BY <1>0, <1>10, LookUpEffect DEF rows
    <2>5. MarkOf(p, n)
      BY <2>2, <2>3 DEF MarkOf, Same
    <2> QED
      BY <2>3, <2>4, <2>5, MarkStill
  <1>11. ASSUME NEW p \in Reviewers \cup {Backfill}, Mint(p)
         PROVE  \E n \in {Closed} \cup Session : MarkFine(p, n)
    <2>1. Open(p) /\ ses[p].pc = "mint" /\ p \in Sessions
      BY <1>1, <1>11 DEF Mint, At, Open
    <2>2. /\ ses[p].mint \in Tags /\ (p = Backfill => loop.on) /\ MarkOf(p, ses[p])
          /\ p \in Reviewers => ses[p].pend.reasons \subseteq ses[p].row.reasons
      BY <2>1, OpenSession DEF Role, MarkInv
    <2>3. LoopKept /\ (p = Backfill => task'.loop.loaded = {})
      BY <1>0, <1>11, <2>2, MintEffect
    <2>4. PICK s \in Session, m \in Row :
            /\ s = ses[p]
            /\ names' \in [cats : SUBSET Cats, tags : SUBSET Tags]
            /\ names.tags \subseteq names'.tags
            /\ doc' = [doc EXCEPT ![s.doc] = m]
            /\ m.live = doc[s.doc].live /\ m.current = doc[s.doc].current
            /\ m.reasons \in {doc[s.doc].reasons, s.pend.reasons}
            /\ s.pend.reasons = s.row.reasons => m.reasons = doc[s.doc].reasons
            /\ s.pend = s.row => m = doc[s.doc]
            /\ tags' = [tags EXCEPT ![s.doc] = tags[s.doc] \ s.cleared]
            /\ \/ ~doc[s.doc].live /\ Goto(p, Closed)
               \/ \E n \in Session :
                    /\ doc[s.doc].live /\ Goto(p, n)
                    /\ n.pc = "lookup" /\ Same(n, s) /\ n.row = m /\ n.pend = m
                    /\ n.mint = Keep /\ n.cleared = {}
                    /\ n.goal = s.goal /\ n.replace = s.replace
      BY <1>0, <1>11, <2>2, MintEffect
    <2>5. PICK n \in {Closed} \cup Session :
            /\ Goto(p, n)
            /\ n # Closed => n.doc = s.doc /\ n.plan = s.plan /\ n.row = m /\ n.pend = m
      BY <1>1, <2>4 DEF Same
    <2>6. /\ s.doc \in Docs
          /\ Marked(s.doc)' <=> Duplicate \in m.reasons
          /\ \A d \in Docs : d # s.doc => (Marked(d)' <=> Marked(d))
      BY <1>0, <2>4 DEF Marked, Session
    <2>7. CASE p \in Reviewers
      <3>1. Duplicate \in m.reasons => Marked(s.doc)
        BY <2>2, <2>4, <2>7 DEF MarkOf, Marked
      <3>2. n # Closed => MarkOf(p, n)'
        BY <1>1, <2>5, <2>6, <2>7 DEF MarkOf
      <3>3. MarkFine(p, n)
        BY <2>1, <2>3, <2>4, <2>5, <2>6, <2>7, <3>1, <3>2 DEF MarkFine, LoopKept
      <3> QED
        BY <3>3
    <2>8. CASE p = Backfill
      <3>1. /\ Marked(s.doc) => Duplicate \in m.reasons
            /\ Duplicate \in m.reasons => Duplicate \in s.plan.reasons
        BY <2>2, <2>4, <2>8 DEF MarkOf, Marked
      <3>2. n # Closed => MarkOf(p, n)'
        BY <1>1, <2>5, <2>6, <2>8, <3>1 DEF MarkOf
      <3>3. MarkFine(p, n)
        BY <2>3, <2>5, <2>6, <2>8, <3>1, <3>2 DEF MarkFine
      <3> QED
        BY <3>3
    <2> QED
      BY <1>11, <2>7, <2>8
  <1>12. ASSUME NEW p \in Reviewers \cup {Backfill}, MintTaken(p)
         PROVE  \E n \in {Closed} \cup Session : MarkFine(p, n)
    <2>1. Open(p) /\ p \in Sessions
      BY <1>1, <1>12 DEF MintTaken, At, Open
    <2>2. MarkOf(p, ses[p]) /\ (p = Backfill => loop.on)
      BY <2>1, OpenSession DEF MarkInv
    <2>3. UNCHANGED doc /\ LoopKept
      BY <1>0, <1>12, <2>2, MintTakenEffect DEF rows
    <2>4. PICK n \in {Closed} \cup Session :
            /\ Goto(p, n)
            /\ n # Closed => Same(n, ses[p]) /\ n.row = doc[n.doc] /\ n.pend = doc[n.doc]
      BY <1>0, <1>1, <1>12, <2>2, MintTakenEffect
    <2>5. n # Closed => MarkOf(p, n)
      BY <2>2, <2>4 DEF MarkOf, Marked, Same
    <2> QED
      BY <2>3, <2>4, <2>5, MarkStill
  <1>13. ASSUME NEW n, n = ses[Backfill], ses' = ses,
                \A d \in Docs : doc'[d].reasons = doc[d].reasons,
                \/ task'.loop.loaded = {}
                \/ task'.loop.loaded \subseteq loop.loaded /\ task'.loop.cache = loop.cache
                \/ task'.loop.cache = doc /\ doc' = doc
         PROVE  \E q \in {Closed} \cup Session : MarkFine(Backfill, q)
    <2>1. Goto(Backfill, n) /\ n \in {Closed} \cup Session
      BY <1>0, <1>1, <1>13 DEF Goto
    <2>2. ASSUME n # Closed
          PROVE  MarkOf(Backfill, n)'
      <3>1. n \in Session /\ n.doc \in Docs /\ Open(Backfill)
        BY <1>0, <1>1, <1>13, <2>1, <2>2, SessionTypes DEF Open, Session
      <3>2. MarkOf(Backfill, n)
        BY <1>1, <1>13, <3>1 DEF MarkInv
      <3> QED
        BY <1>13, <3>1, <3>2 DEF MarkOf, Marked
    <2>3. MarkFine(Backfill, n)
      BY <1>13, <2>1, <2>2 DEF MarkFine, Marked
    <2> QED
      BY <2>1, <2>3
  <1>14. CASE RequestBackfill \/ StartBackfill \/ NextPage \/ FinishBackfill
    <2>1. UNCHANGED <<doc, ses>>
      BY <1>0, <1>14, StartBackfillEffect, NextPageEffect, FinishBackfillEffect
         DEF rows, RequestBackfill
    <2>2. \/ task'.loop.loaded = {}
          \/ task'.loop.loaded \subseteq loop.loaded /\ task'.loop.cache = loop.cache
          \/ task'.loop.cache = doc /\ doc' = doc
      <3>1. RequestBackfill => task'.loop = loop
        BY <1>0 DEF RequestBackfill, EditsTypeInv, loop
      <3> QED
        BY <1>0, <1>14, <2>1, <3>1, StartBackfillEffect, NextPageEffect, FinishBackfillEffect,
           NoLoopType
    <2> QED
      BY <1>1, <1>13, <2>1, <2>2
  <1>15. ASSUME BackfillRead
         PROVE  \E n \in {Closed} \cup Session : MarkFine(Backfill, n)
    <2>1. doc' = doc
      BY <1>0, <1>15, BackfillReadEffect
    <2>2. PICK d \in loop.todo, page, row, plan \in Row :
            /\ d \in Docs /\ Reads(d, page, row)
            /\ plan = Reclassified(row, Rule[page.text])
            /\ \/ /\ Goto(Backfill, Closed)
                  /\ plan = row /\ Rule[page.text].tags = tags[d]
               \/ \E n \in Session : Starts(n, d, Rule[page.text], row, plan)
      BY <1>0, <1>15, BackfillReadEffect
    <2>3. task'.loop.loaded \subseteq loop.loaded /\ task'.loop.cache = loop.cache
      BY <2>2 DEF Reads
    <2>4. Marked(d) => Duplicate \in row.reasons
      BY <2>2 DEF Reads, MarkInv, Marked
    <2>5. Duplicate \in row.reasons => Duplicate \in plan.reasons
      <3>1. Rule[page.text] \in [cat : Cats, tags : SUBSET Tags, reasons : SUBSET Reasons]
        BY <2>2, RuleAssumption DEF Row
      <3> QED
        BY <2>2, <3>1, ReclassifiedEffect
    <2>6. PICK n \in {Closed} \cup Session :
            /\ Goto(Backfill, n)
            /\ n # Closed => n.doc = d /\ n.row = row /\ n.plan = plan
                             /\ n.pend \in {row, plan}
      <3>1. CASE Goto(Backfill, Closed)
        BY <1>1, <3>1
      <3>2. CASE \E n \in Session : Starts(n, d, Rule[page.text], row, plan)
        BY <3>2 DEF Starts
      <3> QED
        BY <2>2, <3>1, <3>2
    <2>7. n # Closed => MarkOf(Backfill, n)
      BY <1>1, <2>4, <2>5, <2>6 DEF MarkOf
    <2>8. n # Closed => MarkOf(Backfill, n)'
      BY <2>1, <2>7 DEF MarkOf, Marked
    <2> QED
      BY <2>1, <2>3, <2>6, <2>8 DEF MarkFine, Marked
  <1>16. ASSUME StoreTags
         PROVE  \E n \in {Closed} \cup Session : MarkFine(Backfill, n)
    <2>1. Open(Backfill)
      BY <1>16 DEF StoreTags, At, Open
    <2>2. loop.on /\ MarkOf(Backfill, ses[Backfill])
      BY <1>1, <2>1, OpenSession DEF MarkInv
    <2>3. doc' = doc /\ LoopKept
      BY <1>0, <1>16, <2>2, StoreTagsEffect
    <2>4. PICK n \in {Closed} \cup Session :
            /\ Goto(Backfill, n)
            /\ n # Closed => Same(n, ses[Backfill]) /\ n.pend.reasons = n.plan.reasons
      <3>1. PICK s \in Session :
              /\ s = ses[Backfill] /\ doc[s.doc].live
              /\ \/ TagTaken(s) /\ tags' = tags /\ Goto(Backfill, Closed)
                 \/ \E n \in Session :
                      /\ Goto(Backfill, n) /\ Same(n, s)
                      /\ n.pend.reasons = s.plan.reasons
        BY <1>0, <1>16, <2>2, StoreTagsEffect
      <3> QED
        BY <1>1, <3>1 DEF Same
    <2>5. n # Closed => MarkOf(Backfill, n)
      BY <1>1, <2>2, <2>4 DEF MarkOf, Same
    <2> QED
      BY <2>3, <2>4, <2>5, MarkStill
  <1>17. ASSUME BackfillCommit
         PROVE  \E n \in {Closed} \cup Session : MarkFine(Backfill, n)
    <2>1. Open(Backfill)
      BY <1>17 DEF BackfillCommit, At, Open
    <2>2. loop.on /\ MarkOf(Backfill, ses[Backfill]) /\ ses[Backfill] \in Session
      BY <1>1, <2>1, OpenSession DEF MarkInv
    <2>3. LoopKept /\ task'.loop.loaded = {} /\ Goto(Backfill, Closed)
      BY <1>0, <1>17, <2>2, BackfillCommitEffect
    <2>4. CASE UNCHANGED rows
      BY <1>1, <2>3, <2>4, MarkStill DEF rows
    <2>5. CASE ~(UNCHANGED rows)
      <3>1. PICK s \in Session :
              /\ s = ses[Backfill]
              /\ Committed(Backfill, s, IF s.replace THEN s.goal ELSE s.before, tags[s.doc])
        BY <1>0, <1>17, <2>2, <2>5, BackfillCommitEffect
      <3>2. PICK snapshot, newTags : Committed(Backfill, s, snapshot, newTags)
        BY <3>1
      <3>3. Marked(s.doc) => Duplicate \in Flushed(s).reasons
        BY <1>0, <2>2, <3>1, FlushedEffect DEF MarkOf, Marked
      <3>4. task'.loop.loaded \subseteq loop.loaded /\ task'.loop.cache = loop.cache
        BY <2>3 DEF LoopKept
      <3>5. MarkFine(Backfill, Closed)
        BY <1>5, <2>3, <3>2, <3>3, <3>4
      <3> QED
        BY <1>1, <3>5
    <2> QED
      BY <2>4, <2>5
  <1>18. ASSUME BackfillDies \/ BackfillKilled
         PROVE  MarkFine(Backfill, Closed)
    <2>1. doc' = doc /\ Goto(Backfill, Closed) /\ task'.loop.loaded = {}
      BY <1>0, <1>18, BackfillEndsEffect, NoLoopType DEF rows
    <2> QED
      BY <2>1 DEF MarkFine, Marked
  <1>19. ASSUME NEW d \in Docs, DeleteDocument(d)
         PROVE  \E n \in {Closed} \cup Session : MarkFine(Backfill, n)
    <2>1. PICK m \in Row : doc' = [doc EXCEPT ![d] = m] /\ m.reasons = doc[d].reasons
      BY <1>0, <1>19, DeleteDocumentEffect
    <2>2. UNCHANGED <<ses, task>>
      BY <1>0, <1>19, DeleteDocumentEffect
    <2>3. \A o \in Docs : doc'[o].reasons = doc[o].reasons
      BY <1>0, <2>1
    <2> QED
      BY <1>1, <1>13, <2>2, <2>3 DEF loop
  <1> QED
    BY <1>1, <1>3, <1>4, <1>6, <1>7, <1>8, <1>9, <1>10, <1>11, <1>12, <1>14, <1>15, <1>16,
       <1>17, <1>18, <1>19 DEF Next

\* With two reviewers this is not so: one whose insert of a tag commits the reasons
\* it has loaded puts back a mark that the other has taken off, after a backfill
\* has read the document without it.
LEMMA MarkInductive ==
  ASSUME OneReviewer, EditsInv, MarkInv, [Next]_vars
  PROVE  MarkInv'
  <1>1. CASE UNCHANGED vars
    BY <1>1 DEF vars, rows, MarkInv, MarkOf, Marked, Open, loop
  <1>2. CASE Next
    <2>1. PICK p \in Sessions, n \in {Closed} \cup Session : MarkFine(p, n)
      BY <1>2, MarkSteps
    <2>2. /\ ses \in [Sessions -> {Closed} \cup Session] /\ loop \in Loop
          /\ Closed.pc = "closed" /\ (\A s \in Session : s.pc # "closed")
          /\ Backfill \notin Reviewers
      BY SessionTypes DEF EditsInv, EditsTypeInv, loop
    <2>3. ses'[p] = n /\ \A q \in Sessions : q # p => ses'[q] = ses[q]
      BY <2>1, <2>2 DEF MarkFine, Goto
    <2>4. ASSUME Open(p)'
          PROVE  MarkOf(p, ses[p])'
      <3>1. n # Closed
        BY <2>2, <2>3, <2>4 DEF Open
      <3>2. MarkOf(p, n)'
        BY <2>1, <3>1 DEF MarkFine
      <3> QED
        BY <2>3, <3>2 DEF MarkOf
    <2>5. ASSUME NEW q \in Sessions, q # p, Open(q)'
          PROVE  MarkOf(q, ses[q])'
      <3>1. PICK s \in Session : s = ses[q] /\ s = ses'[q] /\ Open(q)
        BY <2>2, <2>3, <2>5 DEF Open
      <3>2. MarkOf(q, s) /\ s.doc \in Docs
        BY <3>1 DEF MarkInv, Session
      <3>3. q \in Reviewers => (Marked(s.doc) => Marked(s.doc)')
        BY <2>1, <2>5, <3>2 DEF MarkFine, OneReviewer
      <3>4. q = Backfill => (Marked(s.doc)' => Marked(s.doc))
        BY <2>1, <2>5, <3>2 DEF MarkFine
      <3> QED
        BY <3>1, <3>2, <3>3, <3>4 DEF MarkOf
    <2>6. ASSUME NEW d \in task'.loop.loaded, Marked(d)'
          PROVE  Duplicate \in task'.loop.cache[d].reasons
      <3>1. CASE task'.loop.loaded \subseteq loop.loaded /\ task'.loop.cache = loop.cache
        <4>1. d \in loop.loaded /\ d \in Docs
          BY <2>2, <3>1 DEF Loop
        <4>2. Marked(d)
          BY <2>1, <2>6, <4>1 DEF MarkFine
        <4> QED
          BY <3>1, <4>1, <4>2 DEF MarkInv
      <3>2. CASE task'.loop.cache = doc /\ doc' = doc
        BY <2>6, <3>2 DEF Marked
      <3> QED
        BY <2>1, <3>1, <3>2 DEF MarkFine
    <2> QED
      BY <2>4, <2>5, <2>6 DEF MarkInv, loop
  <1> QED
    BY <1>1, <1>2

LEMMA RuledMeans ==
  ASSUME EditsTypeInv, NEW d \in Docs, Ruled(d)
  PROVE  /\ doc[d].cat = Rule[doc[d].text].cat
         /\ tags[d] = Rule[doc[d].text].tags
         /\ doc[d].reasons \ {Duplicate} = Rule[doc[d].text].reasons
         /\ doc[d].status = IF doc[d].reasons = {} THEN "NONE" ELSE "NEEDS_REVIEW"
  <1>1. PICK out : out = Rule[doc[d].text]
    OBVIOUS
  <1>2. out \in [cat : Cats, tags : SUBSET Tags, reasons : SUBSET Reasons]
    BY <1>1, RuleAssumption DEF EditsTypeInv, Row
  <1>3. /\ doc[d].cat = out.cat
        /\ doc[d].reasons = out.reasons \cup (doc[d].reasons \cap {Duplicate})
        /\ doc[d].status = IF doc[d].reasons = {} THEN "NONE" ELSE "NEEDS_REVIEW"
    BY <1>1, RulesRowEffect DEF Ruled
  <1>4. doc[d].reasons \ {Duplicate} = out.reasons
    BY <1>2, <1>3, ReasonsAssumption
  <1> QED
    BY <1>1, <1>3, <1>4 DEF Ruled

\* The end of a backfill of the whole archive that nobody else disturbs.
LEMMA BackfillLeavesRules ==
  ASSUME EditsInv, PagesInv, AloneInv, Next, loop.on, ~task'.loop.on,
         task'.queued = task.queued, Alone, ~setting.reviewOnly
  PROVE  \A d \in Live : Ruled(d)
  <1>0. EditsTypeInv /\ loop \in Loop
    BY DEF EditsInv, EditsTypeInv, loop
  <1>1. ~LoopStill
    BY DEF LoopStill
  <1>2. ~StartBackfill /\ ~NextPage
    BY <1>0, StartBackfillEffect, NextPageEffect
  <1>3. ~BackfillRead
    <2>1. BackfillRead => \E d, page, row : Reads(d, page, row)
      BY <1>0, BackfillReadEffect DEF EditsInv
    <2> QED
      BY <2>1 DEF Reads
  <1>4. ~BackfillKilled
    BY <1>0, BackfillEndsEffect DEF EditsTypeInv
  <1>5. FinishBackfill
    BY <1>1, <1>2, <1>3, <1>4, AloneLives, LoopSteps
  <1>6. ~Open(Backfill) /\ loop.todo = {} /\ PageOf(loop.offset) = {}
    BY <1>0, <1>5, FinishBackfillEffect
  <1>7. \A d \in Live : d \in Matching /\ Position(d) < loop.offset
    BY <1>0, <1>6, EmptyPage DEF Loop, Live, Matching, Matches
  <1>8. \A d \in Live : d \in loop.seen
    BY <1>6, <1>7 DEF PagesInv, Alone
  <1> QED
    BY <1>6, <1>8 DEF AloneInv, BackfillAt

LEMMA RulesStep ==
  ASSUME EditsInv, PagesInv, AloneInv, MarkInv, Next
  PROVE  /\ (/\ loop.on /\ ~task'.loop.on /\ task'.queued = task.queued
             /\ used.requests = 0 /\ used.deletes = 0 /\ ~setting.reviewOnly) =>
              \A d \in Live :
                 /\ doc[d].cat = Rule[doc[d].text].cat
                 /\ tags[d] = Rule[doc[d].text].tags
                 /\ doc[d].reasons \ {Duplicate} = Rule[doc[d].text].reasons
                 /\ doc[d].status =
                      IF doc[d].reasons = {} THEN "NONE" ELSE "NEEDS_REVIEW"
         /\ \A d \in Docs :
              Duplicate \in doc[d].reasons /\ Duplicate \notin doc'[d].reasons
                 => \E r \in Reviewers : ~At(r, "closed") /\ ses[r].doc = d
  <1>1. ASSUME loop.on, ~task'.loop.on, task'.queued = task.queued,
               used.requests = 0, used.deletes = 0, ~setting.reviewOnly, NEW d \in Live
        PROVE  /\ doc[d].cat = Rule[doc[d].text].cat
               /\ tags[d] = Rule[doc[d].text].tags
               /\ doc[d].reasons \ {Duplicate} = Rule[doc[d].text].reasons
               /\ doc[d].status = IF doc[d].reasons = {} THEN "NONE" ELSE "NEEDS_REVIEW"
    <2>1. Alone /\ EditsTypeInv /\ d \in Docs
      BY <1>1 DEF Alone, EditsInv, Live
    <2>2. Ruled(d)
      BY <1>1, <2>1, BackfillLeavesRules
    <2> QED
      BY <2>1, <2>2, RuledMeans
  <1>2. ASSUME NEW d \in Docs, Marked(d), ~Marked(d)'
        PROVE  \E r \in Reviewers : ~At(r, "closed") /\ ses[r].doc = d
    <2>1. PICK p \in Sessions, n \in {Closed} \cup Session : MarkFine(p, n)
      BY MarkSteps
    <2> QED
      BY <1>2, <2>1 DEF MarkFine, Open, At
  <1> QED
    BY <1>1, <1>2 DEF Marked

LEMMA EditsAllAlways ==
  ASSUME OneReviewer
  PROVE  Spec => [](EditsInv /\ PagesInv /\ AloneInv /\ MarkInv)
  <1>1. Init => EditsInv /\ PagesInv /\ AloneInv /\ MarkInv
    <2> SUFFICES ASSUME Init
                 PROVE  EditsInv /\ PagesInv /\ AloneInv /\ MarkInv
      OBVIOUS
    <2>1. /\ report = {} /\ loop = NoLoop /\ ~loop.on
          /\ ses = [p \in Sessions |-> Closed] /\ Backfill \in Sessions
      BY NoLoopType DEF Init, loop, Sessions
    <2>2. \A p \in Sessions : ~Open(p)
      BY <2>1 DEF Open, Closed
    <2>3. AloneInv
      BY <2>1, <2>2, NoLoopType DEF AloneInv
    <2>4. MarkInv
      BY <2>1, <2>2, NoLoopType DEF MarkInv
    <2>5. PagesInv
      BY <2>1 DEF PagesInv
    <2> QED
      BY <2>3, <2>4, <2>5, EditsInitial
  <1>2. EditsInv /\ PagesInv /\ AloneInv /\ MarkInv /\ [Next]_vars
           => (EditsInv /\ PagesInv /\ AloneInv /\ MarkInv)'
    BY EditsInductive, PagesInductive, AloneInductive, MarkInductive
  <1> QED
    BY <1>1, <1>2, PTL DEF Spec

\* Alone with the documents, a backfill of the whole archive leaves each as its
\* rules say; and with one reviewer, nobody else takes the mark of a suspected
\* duplicate off.
THEOREM ReclassificationKeepsMarks ==
  ASSUME OneReviewer
  PROVE  Spec => RulesApplied
  <1>1. EditsInv /\ PagesInv /\ AloneInv /\ MarkInv /\ [Next]_vars =>
          [/\ (/\ loop.on /\ ~task'.loop.on /\ task'.queued = task.queued
               /\ used.requests = 0 /\ used.deletes = 0 /\ ~setting.reviewOnly) =>
                \A d \in Live :
                   /\ doc[d].cat = Rule[doc[d].text].cat
                   /\ tags[d] = Rule[doc[d].text].tags
                   /\ doc[d].reasons \ {Duplicate} = Rule[doc[d].text].reasons
                   /\ doc[d].status =
                        IF doc[d].reasons = {} THEN "NONE" ELSE "NEEDS_REVIEW"
           /\ \A d \in Docs :
                Duplicate \in doc[d].reasons /\ Duplicate \notin doc'[d].reasons
                   => \E r \in Reviewers : ~At(r, "closed") /\ ses[r].doc = d]_vars
    BY RulesStep
  <1> QED
    BY <1>1, EditsAllAlways, PTL DEF Spec, RulesApplied

-----------------------------------------------------------------------------
(* Requests alone, of names that have a row.                               *)

LEMMA RequestsGiven ==
  ASSUME EditsTypeInv, Next, RequestsOnly'
  PROVE  RequestsOnly
  BY UsedGrows DEF RequestsOnly, Events

\* The steps left: nobody has a name to insert, and there is no backfill.
LEMMA RequestSteps ==
  ASSUME EditsInv, RequestsInv, Next, RequestsOnly'
  PROVE  \/ \E e \in Editors, d \in Docs, q \in setting.patches : PatchLoad(e, d, q)
         \/ \E e \in Editors : PatchCommit(e)
         \/ \E r \in Reviewers, d \in Docs, q \in setting.reviews : ReviewLoad(r, d, q)
         \/ \E r \in Reviewers :
              ReviewCategory(r) \/ ReviewTags(r) \/ ReviewCommit(r) \/ LookUp(r)
         \/ \E d \in Docs : DeleteDocument(d)
  <1>0. EditsTypeInv /\ RequestsOnly
    BY RequestsGiven DEF EditsInv
  <1>1. /\ names = [cats |-> Cats, tags |-> Tags] /\ ~loop.on /\ task.queued = 0
        /\ \A p \in Sessions : Open(p) => Loaded(ses[p])
    BY <1>0 DEF RequestsInv
  <1>2. Editors \subseteq Sessions /\ Reviewers \subseteq Sessions /\ Backfill \in Sessions
    BY DEF Sessions
  <1>3. ~RequestBackfill
    <2>1. used'["backfills"] = 0 /\ used["backfills"] = 0
      BY <1>0 DEF RequestsOnly
    <2>2. ~Count("backfills")
      BY <1>0, <2>1, CountEffect DEF Events
    <2> QED
      BY <2>2 DEF RequestBackfill
  <1>4. /\ ~StartBackfill /\ ~NextPage /\ ~BackfillRead /\ ~FinishBackfill
        /\ ~BackfillDies /\ ~BackfillKilled
    BY <1>1 DEF StartBackfill, NextPage, BackfillRead, FinishBackfill, BackfillDies,
                BackfillKilled
  <1>5. ~Open(Backfill)
    BY <1>1 DEF EditsInv, Roles
  <1>6. ~StoreTags /\ ~BackfillCommit /\ ~LookUp(Backfill)
    BY <1>5 DEF StoreTags, BackfillCommit, LookUp, At, Open
  <1>7. ASSUME NEW p \in Reviewers \cup {Backfill}
        PROVE  ~Mint(p) /\ ~MintTaken(p)
    BY <1>1, <1>2 DEF Mint, MintTaken, At, Open, Loaded
  <1>8. ASSUME NEW e \in Editors, PatchCategoryTaken(e)
        PROVE  FALSE
    <2>1. Open(e) /\ ses[e].mint \in names.cats
      BY <1>0, <1>8, PatchCategoryTakenEffect
    <2>2. ses[e].mint = Keep
      BY <1>1, <1>2, <2>1 DEF Loaded
    <2> QED
      BY <1>0, <1>1, <2>1, <2>2, RequestTypes
  <1> QED
    BY <1>3, <1>4, <1>6, <1>7, <1>8 DEF Next

\* A document that a step leaves alone, or that it leaves with a higher number and
\* a version that says what it is.
Untouched(d) ==
    doc'[d] = doc[d] /\ tags'[d] = tags[d] /\ ver'[d] = ver[d] /\ told'[d] = told[d]
Recorded(d) ==
    /\ Chained(d)'
    /\ doc'[d].live => /\ doc'[d].current > Len(ver[d])
                       /\ Written(d)' /\ Last(d)'.tags = tags'[d] /\ Told(d)'

LEMMA RequestsStep ==
  ASSUME EditsInv, RequestsInv, RequestsOnly,
         NEW p \in Editors \cup Reviewers, NEW n \in {Closed} \cup Session, Goto(p, n),
         names' = names, task' = task,
         n # Closed => /\ Loaded(n)'
                       /\ p \in Editors => Patching(n)
                       /\ p \in Reviewers => Reviewing(n),
         \A d \in Docs : Untouched(d) \/ Recorded(d)
  PROVE  RequestsInv'
  <1>1. /\ names = [cats |-> Cats, tags |-> Tags] /\ ~loop.on /\ task.queued = 0
        /\ \A q \in Sessions : Open(q) => Loaded(ses[q])
        /\ \A e \in Editors : Open(e) => Patching(ses[e])
        /\ \A r \in Reviewers : Open(r) => Reviewing(ses[r])
        /\ \A d \in Docs : Chained(d)
        /\ \A d \in Live : Written(d) /\ Last(d).tags = tags[d] /\ Told(d)
    BY DEF RequestsInv
  <1>2. /\ ses \in [Sessions -> {Closed} \cup Session] /\ p \in Sessions
        /\ Closed.pc = "closed" /\ (\A s \in Session : s.pc # "closed")
        /\ Editors \subseteq Sessions /\ Reviewers \subseteq Sessions
    BY SessionTypes DEF EditsInv, EditsTypeInv
  <1>3. ses'[p] = n /\ \A q \in Sessions : q # p => ses'[q] = ses[q]
    BY <1>2 DEF Goto
  <1>4. names' = [cats |-> Cats, tags |-> Tags] /\ ~task'.loop.on /\ task'.queued = 0
    BY <1>1 DEF loop
  <1>5. ASSUME NEW s \in Session, Loaded(s), s.row.current <= Len(ver[s.doc])
        PROVE  Loaded(s)'
    <2>1. s.doc \in Docs /\ s.row.current \in Nat /\ ver[s.doc] \in Seq(Version)
      BY DEF Session, Row, EditsInv, EditsTypeInv
    <2>2. CASE Untouched(s.doc)
      BY <1>5, <2>2 DEF Untouched, Loaded, Fresh
    <2>3. CASE Recorded(s.doc)
      <3>1. ~(doc'[s.doc].live /\ s.row.current = doc'[s.doc].current)
        BY <1>5, <2>1, <2>3 DEF Recorded
      <3> QED
        BY <1>5, <3>1 DEF Loaded, Fresh
    <2> QED
      BY <2>1, <2>2, <2>3
  <1>6. ASSUME NEW q \in Sessions, Open(q)'
        PROVE  /\ Loaded(ses[q])'
               /\ q \in Editors => Patching(ses[q])'
               /\ q \in Reviewers => Reviewing(ses[q])'
    <2>1. CASE q = p
      <3>1. n # Closed
        BY <1>2, <1>3, <1>6, <2>1 DEF Open
      <3> QED
        BY <1>3, <2>1, <3>1 DEF Loaded, Fresh, Patching, Reviewing
    <2>2. CASE q # p
      <3>1. PICK s \in Session : s = ses[q] /\ s = ses'[q] /\ Open(q)
        BY <1>2, <1>3, <1>6, <2>2 DEF Open
      <3>2. s.row.current <= Len(ver[s.doc]) /\ Loaded(s)
        BY <1>1, <3>1, OpenSession
      <3>3. Loaded(s)'
        BY <1>5, <3>2
      <3>4. (q \in Editors => Patching(s)) /\ (q \in Reviewers => Reviewing(s))
        BY <1>1, <3>1
      <3> QED
        BY <3>1, <3>3, <3>4 DEF Loaded, Fresh, Patching, Reviewing
    <2> QED
      BY <2>1, <2>2
  <1>7. ASSUME NEW d \in Docs
        PROVE  /\ Chained(d)'
               /\ doc'[d].live => Written(d)' /\ Last(d)'.tags = tags'[d] /\ Told(d)'
    <2>1. CASE Untouched(d)
      BY <1>1, <2>1 DEF Untouched, Chained, Live, Written, Last, Told, Searched
    <2>2. CASE Recorded(d)
      BY <2>2 DEF Recorded
    <2> QED
      BY <2>1, <2>2
  <1> QED
    BY <1>2, <1>4, <1>6, <1>7 DEF RequestsInv, loop, Live

\* A version that follows the latest one of a document as its request says.
LEMMA ChainGrows ==
  ASSUME NEW d, NEW v, ver[d] \in Seq(Version), ver[d] # <<>>, Chained(d),
         ver'[d] = Append(ver[d], v),
         \A f \in {"text", "cat", "tags"} :
            v[f] = IF v.by[f] = Keep THEN Last(d)[f] ELSE v.by[f]
  PROVE  Chained(d)' /\ Last(d)' = v
  <1>1. Len(ver[d]) \in Nat /\ Len(ver[d]) >= 1 /\ Len(ver'[d]) = Len(ver[d]) + 1
    OBVIOUS
  <1>2. Last(d)' = v
    BY <1>1 DEF Last
  <1>3. ASSUME NEW i \in 2 .. Len(ver'[d]), NEW f \in {"text", "cat", "tags"}
        PROVE  ver'[d][i][f] = IF ver'[d][i].by[f] = Keep THEN ver'[d][i - 1][f]
                                                          ELSE ver'[d][i].by[f]
    <2>1. CASE i = Len(ver'[d])
      <3>1. ver'[d][i] = v /\ ver'[d][i - 1] = Last(d)
        BY <1>1, <2>1 DEF Last
      <3> QED
        BY <3>1
    <2>2. CASE i # Len(ver'[d])
      <3>1. i \in 2 .. Len(ver[d]) /\ i - 1 \in 1 .. Len(ver[d])
        BY <1>1, <2>2
      <3>2. ver'[d][i] = ver[d][i] /\ ver'[d][i - 1] = ver[d][i - 1]
        BY <1>1, <3>1
      <3> QED
        BY <3>1, <3>2 DEF Chained
    <2> QED
      BY <2>1, <2>2
  <1> QED
    BY <1>2, <1>3 DEF Chained

\* The commit of a request: nothing was committed since its row was loaded.
LEMMA CommitRecorded ==
  ASSUME EditsInv, RequestsInv, RequestsOnly,
         NEW p, NEW was \in Session, NEW s \in Session, NEW snapshot \in SUBSET Tags,
         Loaded(was), s.doc = was.doc, s.row = was.row,
         s.row.current <= Len(ver[s.doc]), s.req # Keep,
         Committed(p, s, snapshot, snapshot), Tell({s.doc}),
         s.row = doc[s.doc] =>
             /\ s.pend.text = Given(Asked(s).text, s.row.text)
             /\ s.pend.cat = Given(s.req.cat, s.row.cat)
             /\ snapshot = Given(s.req.tags, tags[s.doc])
  PROVE  \A d \in Docs : Untouched(d) \/ Recorded(d)
  <1>0. /\ EditsTypeInv /\ doc \in [Docs -> Row] /\ tags \in [Docs -> SUBSET Tags]
        /\ ver \in [Docs -> Seq(Version)] /\ s.doc \in Docs
    BY DEF EditsInv, EditsTypeInv, Session
  <1>1. Moves /\ s.row.current = Len(ver[s.doc]) /\ s.row.current = doc[s.doc].current
    BY CommitMoves
  <1>2. doc[s.doc].live
    BY DEF Committed
  <1>3. s.row = doc[s.doc]
    BY <1>1, <1>2 DEF Loaded, Fresh
  <1>4. PICK m \in Row, v \in Version :
          /\ doc' = [doc EXCEPT ![s.doc] = m]
          /\ m.current = s.row.current + 1
          /\ m.text = Flushed(s).text /\ m.cat = Flushed(s).cat
          /\ ver' = [ver EXCEPT ![s.doc] = Append(ver[s.doc], v)]
          /\ v.text = s.pend.text /\ v.cat = s.pend.cat /\ v.tags = snapshot
          /\ v.by = Asked(s)
    BY DEF Committed
  <1>5. tags' = [tags EXCEPT ![s.doc] = snapshot]
    BY DEF Committed
  <1>6. /\ doc'[s.doc] = m /\ ver'[s.doc] = Append(ver[s.doc], v) /\ tags'[s.doc] = snapshot
        /\ \A d \in Docs : d # s.doc =>
              doc'[d] = doc[d] /\ ver'[d] = ver[d] /\ tags'[d] = tags[d]
    BY <1>0, <1>4, <1>5
  <1>7. /\ \A d \in Docs : d # s.doc => told'[d] = told[d]
        /\ told'[s.doc] = [text |-> doc'[s.doc].text, cat |-> doc'[s.doc].cat,
                           tags |-> tags'[s.doc], status |-> doc'[s.doc].status]
    BY <1>0, <1>1, TellEffect DEF Moves
  <1>8. m.text = v.text /\ m.cat = v.cat
    BY <1>0, <1>3, <1>4, FlushedEffect
  <1>9. /\ Last(s.doc).text = s.row.text /\ Last(s.doc).cat = s.row.cat
        /\ Last(s.doc).tags = tags[s.doc] /\ Chained(s.doc)
    BY <1>0, <1>2, <1>3 DEF RequestsInv, Live, Written
  <1>10. /\ Asked(s).cat = s.req.cat /\ Asked(s).tags = s.req.tags
    BY <1>0, AskedEffect
  <1>11. ASSUME NEW f \in {"text", "cat", "tags"}
         PROVE  v[f] = IF v.by[f] = Keep THEN Last(s.doc)[f] ELSE v.by[f]
    <2>1. v.text = IF v.by.text = Keep THEN Last(s.doc).text ELSE v.by.text
      BY <1>3, <1>4, <1>9 DEF Given
    <2>2. v.cat = IF v.by.cat = Keep THEN Last(s.doc).cat ELSE v.by.cat
      BY <1>3, <1>4, <1>9, <1>10 DEF Given
    <2>3. v.tags = IF v.by.tags = Keep THEN Last(s.doc).tags ELSE v.by.tags
      BY <1>3, <1>4, <1>9, <1>10 DEF Given
    <2> QED
      BY <2>1, <2>2, <2>3
  <1>12. ver[s.doc] \in Seq(Version) /\ ver[s.doc] # <<>>
    BY <1>0 DEF EditsInv, Numbered
  <1>13. Chained(s.doc)' /\ Last(s.doc)' = v
    BY <1>6, <1>9, <1>11, <1>12, ChainGrows
  <1>14. Written(s.doc)' /\ Last(s.doc)'.tags = tags'[s.doc]
    BY <1>4, <1>6, <1>8, <1>13 DEF Written
  <1>15. Told(s.doc)'
    BY <1>7 DEF Told, Searched
  <1>16. doc'[s.doc].current > Len(ver[s.doc])
    <2>1. Len(ver[s.doc]) \in Nat
      BY <1>12
    <2>2. doc'[s.doc].current = Len(ver[s.doc]) + 1
      BY <1>1, <1>4, <1>6
    <2> QED
      BY <2>1, <2>2
  <1>17. Recorded(s.doc)
    BY <1>13, <1>14, <1>15, <1>16 DEF Recorded
  <1> QED
    BY <1>6, <1>7, <1>17 DEF Untouched

LEMMA RequestsInductive ==
  ASSUME EditsInv, RequestsInv, [Next]_vars
  PROVE  RequestsInv'
  <1>0. /\ EditsTypeInv /\ doc \in [Docs -> Row] /\ tags \in [Docs -> SUBSET Tags]
    BY DEF EditsInv, EditsTypeInv
  <1>1. CASE UNCHANGED vars
    BY <1>1 DEF vars, rows, RequestsInv, RequestsOnly, used, loop, Open, Loaded, Fresh, Patching,
                Reviewing, Chained, Live, Written, Last, Told, Searched
  <1>2. CASE Next
    <2> SUFFICES ASSUME RequestsOnly'
                 PROVE  RequestsInv'
      BY DEF RequestsInv
    <2>0. RequestsOnly
      BY <1>0, <1>2, RequestsGiven
    <2>1. /\ names = [cats |-> Cats, tags |-> Tags]
          /\ \A p \in Sessions : Open(p) => Loaded(ses[p])
          /\ \A e \in Editors : Open(e) => Patching(ses[e])
          /\ \A r \in Reviewers : Open(r) => Reviewing(ses[r])
      BY <2>0 DEF RequestsInv
    <2>2. /\ Editors \subseteq Sessions /\ Reviewers \subseteq Sessions
          /\ (\A e \in Editors : e \notin Reviewers)
          /\ ses \in [Sessions -> {Closed} \cup Session]
          /\ Closed \in {Closed} \cup Session
      BY <1>0, SessionTypes DEF EditsTypeInv
    <2>3. Keep \notin Cats
      BY <1>0, RequestTypes
    \* Names only grow, and they are all there.
    <2>4. ASSUME names' \in [cats : SUBSET Cats, tags : SUBSET Tags],
                 names.cats \subseteq names'.cats, names.tags \subseteq names'.tags
          PROVE  names' = names
      <3>1. names'.cats = Cats /\ names'.tags = Tags
        BY <2>1, <2>4
      <3>2. names' = [cats |-> names'.cats, tags |-> names'.tags]
        BY <2>4
      <3> QED
        BY <2>1, <3>1, <3>2
    <2>5. ASSUME UNCHANGED <<doc, tags, ver, told>>
          PROVE  \A d \in Docs : Untouched(d)
      BY <2>5 DEF Untouched
    <2>6. ASSUME NEW e \in Editors, NEW d \in Docs, NEW q, q \in setting.patches,
                 PatchLoad(e, d, q)
          PROVE  RequestsInv'
      <3>1. PICK n \in Session : Opened(n, e, d, q) /\ PatchOpened(n, d, q)
        BY <1>0, <2>6, PatchLoadEffect
      <3>2. UNCHANGED <<doc, tags, ver, names, task, told>> /\ q \in Patches
        BY <1>0, <2>6, PatchLoadEffect DEF rows
      <3>3. n.mint = Keep
        BY <1>0, <2>1, <3>1, <3>2, RequestTypes DEF PatchOpened
      <3>4. Loaded(n)' /\ Patching(n)
        BY <3>1, <3>2, <3>3 DEF Opened, PatchOpened, Loaded, Fresh, Patching
      <3>5. Goto(e, n)
        BY <3>1 DEF Opened
      <3> QED
        BY <2>0, <2>2, <2>5, <3>2, <3>4, <3>5, RequestsStep
    <2>7. ASSUME NEW e \in Editors, PatchCommit(e)
          PROVE  RequestsInv'
      <3>1. Open(e)
        BY <2>7 DEF PatchCommit, At, Open
      <3>2. /\ ses[e] \in Session /\ ses[e].req \in Patches /\ ses[e].req # Keep
            /\ ses[e].row.current <= Len(ver[ses[e].doc])
            /\ Loaded(ses[e]) /\ Patching(ses[e])
        BY <1>0, <2>1, <2>2, <3>1, OpenSession, RequestTypes DEF Role
      <3>3. task' = task
        BY <1>0, <2>7, <3>2, PatchCommitEffect
      <3>4. CASE UNCHANGED <<rows, told>> /\ Goto(e, Closed)
        BY <2>0, <2>2, <2>5, <3>3, <3>4, RequestsStep DEF rows
      <3>5. CASE ~(UNCHANGED <<rows, told>> /\ Goto(e, Closed))
        <4>1. /\ names' \in [cats : SUBSET Cats, tags : SUBSET Tags]
              /\ names.cats \subseteq names'.cats /\ names.tags \subseteq names'.tags
              /\ Tell({ses[e].doc})
          BY <1>0, <2>7, <3>2, <3>5, PatchCommitEffect
        <4>2. PICK s \in Session, newTags \in SUBSET Tags :
                /\ Committed(e, s, newTags, newTags)
                /\ newTags = Given(ses[e].req.tags, tags[s.doc])
                /\ s.doc = ses[e].doc /\ s.row = ses[e].row /\ s.req = ses[e].req
                /\ s.pend.text = ses[e].pend.text
                /\ s.pend.cat = Given(s.req.cat, ses[e].pend.cat)
                /\ s.pend.reasons = ses[e].pend.reasons
          BY <1>0, <2>7, <3>2, <3>5, PatchCommitEffect
        <4>3. PICK was \in Session : was = ses[e]
          BY <3>2
        <4>4. Goto(e, Closed)
          BY <4>2 DEF Committed
        <4>5. Asked(s).text = s.req.text
          BY <1>0, <3>2, <4>2, AskedEffect
        <4>6. \A d \in Docs : Untouched(d) \/ Recorded(d)
          BY <2>0, <3>2, <4>1, <4>2, <4>3, <4>5, CommitRecorded DEF Patching
        <4> QED
          BY <2>0, <2>2, <2>4, <3>3, <4>1, <4>4, <4>6, RequestsStep
      <3> QED
        BY <3>4, <3>5
    <2>8. ASSUME NEW r \in Reviewers, NEW d \in Docs, NEW q, q \in setting.reviews,
                 ReviewLoad(r, d, q)
          PROVE  RequestsInv'
      <3>1. PICK n \in Session : Opened(n, r, d, q) /\ ReviewOpened(n, d)
        BY <1>0, <2>8, ReviewLoadEffect
      <3>2. UNCHANGED <<doc, tags, ver, names, task, told>>
        BY <1>0, <2>8, ReviewLoadEffect DEF rows
      <3>3. Loaded(n)' /\ Reviewing(n) /\ Goto(r, n)
        BY <3>1, <3>2 DEF Opened, ReviewOpened, Loaded, Fresh, Reviewing
      <3> QED
        BY <2>0, <2>2, <2>5, <3>2, <3>3, RequestsStep
    <2>9. ASSUME NEW r \in Reviewers, ReviewCategory(r)
          PROVE  RequestsInv'
      <3>1. Open(r) /\ ses[r].pc = "category"
        BY <2>9 DEF ReviewCategory, At, Open
      <3>2. /\ ses[r] \in Session /\ ses[r].req \in Reviews
            /\ Loaded(ses[r]) /\ Reviewing(ses[r])
        BY <2>1, <2>2, <3>1, OpenSession DEF Role
      <3>3. /\ UNCHANGED <<doc, tags, ver, told, task>>
            /\ names' \in [cats : SUBSET Cats, tags : SUBSET Tags]
            /\ names.cats \subseteq names'.cats /\ names'.tags = names.tags
        BY <1>0, <2>9, <3>2, ReviewCategoryEffect
      <3>4. names' = names
        BY <2>4, <3>3
      <3>5. CASE Goto(r, Closed)
        BY <2>0, <2>2, <2>5, <3>3, <3>4, <3>5, RequestsStep
      <3>6. CASE ~Goto(r, Closed)
        <4>1. PICK n \in Session, b \in Row :
                /\ Goto(r, n)
                /\ n.pc = "tags" /\ Same(n, ses[r])
                /\ n.goal = ses[r].goal /\ n.replace = ses[r].replace
                /\ \/ b = doc[n.doc] /\ n.row = b /\ n.mint = Keep /\ n.cleared = {}
                      /\ n.req.cat # Keep /\ n.req.cat \notin names.cats
                   \/ b = ses[r].pend /\ n.row = ses[r].row /\ n.mint = ses[r].mint
                      /\ n.cleared = ses[r].cleared
                /\ n.pend.text = b.text /\ n.pend.cat = Given(n.req.cat, b.cat)
                /\ n.pend.reasons \subseteq b.reasons
          BY <1>0, <2>9, <3>2, <3>6, ReviewCategoryEffect
        <4>2. n.req.cat \in {Keep} \cup Cats
          BY <1>0, <3>2, <4>1, RequestTypes DEF Same
        <4>3. b = ses[r].pend /\ n.row = ses[r].row /\ n.mint = ses[r].mint
              /\ n.cleared = ses[r].cleared
          BY <2>1, <4>1, <4>2
        <4>4. Reviewing(n)
          BY <3>1, <3>2, <4>1, <4>3 DEF Reviewing, Same
        <4>5. Loaded(n)'
          BY <3>1, <3>2, <3>3, <4>1, <4>3 DEF Loaded, Fresh, Same
        <4> QED
          BY <2>0, <2>2, <2>5, <3>3, <3>4, <4>1, <4>4, <4>5, RequestsStep
      <3> QED
        BY <3>5, <3>6
    <2>10. ASSUME NEW r \in Reviewers, ReviewTags(r)
           PROVE  RequestsInv'
      <3>1. Open(r) /\ ses[r].pc = "tags"
        BY <2>10 DEF ReviewTags, At, Open
      <3>2. /\ ses[r] \in Session /\ ses[r].req \in Reviews
            /\ Loaded(ses[r]) /\ Reviewing(ses[r])
        BY <2>1, <2>2, <3>1, OpenSession DEF Role
      <3>3. UNCHANGED <<doc, tags, ver, names, told, task>>
        BY <1>0, <2>10, <3>2, ReviewTagsEffect DEF rows
      <3>4. PICK n \in Session :
              /\ Goto(r, n)
              /\ Same(n, ses[r]) /\ n.row = ses[r].row /\ n.pend = ses[r].pend
              /\ n.mint = ses[r].mint
              /\ \/ /\ n.pc = "commit" /\ n.req.tags \in {Keep, n.before}
                    /\ n.replace = ses[r].replace /\ n.goal = ses[r].goal
                    /\ n.cleared = ses[r].cleared
                 \/ /\ n.pc = "lookup" /\ n.goal = n.req.tags /\ n.replace = TRUE
                    /\ n.goal # Keep /\ n.cleared = tags[n.doc]
        BY <1>0, <2>10, <3>2, ReviewTagsEffect
      <3>5. ~ses[r].replace
        BY <3>1, <3>2 DEF Reviewing
      <3>6. Reviewing(n)
        BY <3>1, <3>2, <3>4, <3>5 DEF Reviewing, Same
      <3>7. Loaded(n)'
        BY <3>1, <3>2, <3>3, <3>4, <3>5 DEF Loaded, Fresh, Same
      <3> QED
        BY <2>0, <2>2, <2>5, <3>3, <3>4, <3>6, <3>7, RequestsStep
    <2>11. ASSUME NEW r \in Reviewers, ReviewCommit(r)
           PROVE  RequestsInv'
      <3>1. Open(r) /\ ses[r].pc = "commit"
        BY <2>11 DEF ReviewCommit, At, Open
      <3>2. /\ ses[r] \in Session /\ ses[r].req \in Reviews /\ ses[r].req # Keep
            /\ ses[r].req \notin Patches
            /\ ses[r].row.current <= Len(ver[ses[r].doc])
            /\ Loaded(ses[r]) /\ Reviewing(ses[r])
        BY <1>0, <2>1, <2>2, <3>1, OpenSession, RequestTypes DEF Role
      <3>3. task' = task
        BY <1>0, <2>11, <3>2, ReviewCommitEffect
      <3>4. CASE UNCHANGED <<rows, told>> /\ Goto(r, Closed)
        BY <2>0, <2>2, <2>5, <3>3, <3>4, RequestsStep DEF rows
      <3>5. CASE ~(UNCHANGED <<rows, told>> /\ Goto(r, Closed))
        <4>1. names' = names /\ Tell({ses[r].doc})
          BY <1>0, <2>11, <3>2, <3>5, ReviewCommitEffect
        <4>2. PICK s \in Session :
                /\ Committed(r, s, IF s.replace THEN s.goal ELSE s.before, StoredTags(s))
                /\ StoredTags(s) \in SUBSET Tags
                /\ Same(s, ses[r]) /\ s.row = ses[r].row
                /\ s.replace = ses[r].replace /\ s.goal = ses[r].goal
                /\ s.cleared = ses[r].cleared
                /\ s.pend.text = ses[r].pend.text /\ s.pend.cat = ses[r].pend.cat
                /\ s.pend.reasons \subseteq ses[r].pend.reasons
          BY <1>0, <2>11, <3>2, <3>5, ReviewCommitEffect
        <4>3. PICK was \in Session : was = ses[r]
          BY <3>2
        <4>4. /\ s.doc = was.doc /\ s.req = was.req /\ s.before = was.before /\ s.row = was.row
          BY <4>2, <4>3 DEF Same
        <4>5. PICK snapshot : snapshot = IF s.replace THEN s.goal ELSE s.before
          OBVIOUS
        <4>6. Committed(r, s, snapshot, StoredTags(s))
          BY <4>2, <4>5
        <4>7. doc[s.doc].live /\ s.row.current = doc[s.doc].current
          <5>1. PICK newTags \in SUBSET Tags : newTags = StoredTags(s)
            BY <4>2
          <5>2. Committed(r, s, snapshot, newTags)
            BY <4>6, <5>1
          <5>3. s.row.current <= Len(ver[s.doc])
            BY <3>2, <4>3, <4>4
          <5>4. s.row.current = doc[s.doc].current
            BY <5>2, <5>3, CommitMoves
          <5> QED
            BY <5>2, <5>4 DEF Committed
        <4>8. /\ s.row = doc[s.doc] /\ s.before = tags[s.doc]
              /\ s.replace => s.cleared = tags[s.doc]
          BY <3>1, <3>2, <4>2, <4>3, <4>4, <4>7 DEF Loaded, Fresh
        <4>9. StoredTags(s) = snapshot /\ snapshot \in SUBSET Tags
          BY <4>2, <4>5, <4>8 DEF StoredTags
        <4>10. /\ s.pend.text = s.row.text /\ s.pend.cat = Given(s.req.cat, s.row.cat)
               /\ snapshot = Given(s.req.tags, tags[s.doc])
          <5>1. s.pend.text = s.row.text /\ s.pend.cat = Given(s.req.cat, s.row.cat)
            BY <3>1, <3>2, <4>2, <4>3, <4>4 DEF Reviewing
          <5>2. IF s.replace THEN s.goal = s.req.tags /\ s.goal # Keep
                ELSE s.req.tags \in {Keep, s.before}
            BY <3>1, <3>2, <4>2, <4>3, <4>4 DEF Reviewing
          <5>3. snapshot = Given(s.req.tags, tags[s.doc])
            BY <4>5, <4>8, <5>2 DEF Given
          <5> QED
            BY <5>1, <5>3
        <4>11. Asked(s).text = Keep
          BY <1>0, <3>2, <4>3, <4>4, AskedEffect
        <4>12. s.pend.text = Given(Asked(s).text, s.row.text)
          BY <4>10, <4>11 DEF Given
        <4>13. \A d \in Docs : Untouched(d) \/ Recorded(d)
          BY <2>0, <3>2, <4>1, <4>3, <4>4, <4>6, <4>9, <4>10, <4>12, CommitRecorded
        <4>14. Goto(r, Closed)
          BY <4>6 DEF Committed
        <4> QED
          BY <2>0, <2>2, <3>3, <4>1, <4>13, <4>14, RequestsStep
      <3> QED
        BY <3>4, <3>5
    <2>12. ASSUME NEW r \in Reviewers, LookUp(r)
           PROVE  RequestsInv'
      <3>1. Open(r) /\ ses[r].pc = "lookup"
        BY <2>12 DEF LookUp, At, Open
      <3>2. /\ ses[r] \in Session /\ ses[r].req \in Reviews
            /\ Loaded(ses[r]) /\ Reviewing(ses[r])
        BY <2>1, <2>2, <3>1, OpenSession DEF Role
      <3>3. UNCHANGED <<doc, tags, ver, names, told, task>> /\ r # Backfill
        BY <1>0, <2>12, LookUpEffect, SessionTypes DEF rows
      <3>4. PICK n \in Session :
              /\ Goto(r, n)
              /\ Same(n, ses[r]) /\ n.row = ses[r].row /\ n.pend = ses[r].pend
              /\ n.goal = ses[r].goal /\ n.replace = ses[r].replace
              /\ n.cleared = ses[r].cleared
              /\ \/ /\ n.pc = IF r = Backfill THEN "store" ELSE "commit"
                    /\ n.mint = ses[r].mint
                 \/ n.pc = "mint" /\ n.mint \in Tags \ names.tags
        BY <1>0, <2>12, LookUpEffect
      <3>5. n.pc = "commit" /\ n.mint = ses[r].mint
        BY <2>1, <3>3, <3>4
      <3>6. Reviewing(n)
        BY <3>1, <3>2, <3>4, <3>5 DEF Reviewing, Same
      <3>7. Loaded(n)'
        BY <3>1, <3>2, <3>3, <3>4, <3>5 DEF Loaded, Fresh, Same
      <3> QED
        BY <2>0, <2>2, <2>5, <3>3, <3>4, <3>6, <3>7, RequestsStep
    <2>13. ASSUME NEW d \in Docs, DeleteDocument(d)
           PROVE  RequestsInv'
      <3>1. /\ UNCHANGED <<ver, names, ses, task, told>> /\ tags' = [tags EXCEPT ![d] = {}]
        BY <1>0, <2>13, DeleteDocumentEffect
      <3>2. PICK m \in Row : doc' = [doc EXCEPT ![d] = m] /\ ~m.live
        BY <1>0, <2>13, DeleteDocumentEffect
      <3>3. \A o \in Docs : o # d => Untouched(o)
        BY <1>0, <3>1, <3>2 DEF Untouched
      <3>4. ~doc'[d].live /\ Chained(d)'
        BY <1>0, <2>0, <3>1, <3>2 DEF RequestsInv, Chained
      <3>5. ASSUME NEW o \in Docs
            PROVE  /\ Chained(o)'
                   /\ doc'[o].live => Written(o)' /\ Last(o)'.tags = tags'[o] /\ Told(o)'
        <4>1. CASE o = d
          BY <3>4, <4>1
        <4>2. CASE o # d
          <5>1. Chained(o) /\ (doc[o].live => Written(o) /\ Last(o).tags = tags[o] /\ Told(o))
            BY <2>0 DEF RequestsInv, Live
          <5>2. Untouched(o)
            BY <3>3, <4>2
          <5>3. Last(o)' = Last(o) /\ (Chained(o)' <=> Chained(o))
            BY <5>2 DEF Untouched, Last, Chained
          <5> QED
            BY <5>1, <5>2, <5>3 DEF Untouched, Written, Told, Searched
        <4> QED
          BY <4>1, <4>2
      <3>6. ASSUME NEW p \in Sessions, Open(p)
            PROVE  Loaded(ses[p])'
        <4>1. PICK s \in Session : s = ses[p] /\ s = ses'[p]
          BY <3>1, <3>6, OpenSession
        <4>2. Loaded(s) /\ s.doc \in Docs
          BY <2>1, <3>6, <4>1 DEF Session
        <4>3. Loaded(s)'
          BY <3>3, <3>4, <4>2 DEF Loaded, Fresh, Untouched
        <4> QED
          BY <4>1, <4>3 DEF Loaded, Fresh
      <3> QED
        BY <2>0, <3>1, <3>5, <3>6 DEF RequestsInv, loop, Open, Patching, Reviewing, Live
    <2> QED
      BY <1>2, <2>6, <2>7, <2>8, <2>9, <2>10, <2>11, <2>12, <2>13, RequestSteps
  <1> QED
    BY <1>1, <1>2

LEMMA VersionsAlways == Spec => [](EditsInv /\ AloneInv /\ UnkilledInv /\ RequestsInv)
  <1>1. Init => EditsInv /\ AloneInv /\ UnkilledInv /\ RequestsInv
    <2> SUFFICES ASSUME Init
                 PROVE  EditsInv /\ AloneInv /\ UnkilledInv /\ RequestsInv
      OBVIOUS
    <2>1. /\ loop = NoLoop /\ ~loop.on /\ task.queued = 0
          /\ ses = [p \in Sessions |-> Closed] /\ Backfill \in Sessions
          /\ names = [cats |-> setting.cats, tags |-> setting.tags]
      BY NoLoopType DEF Init, loop, Sessions
    <2>2. /\ \A p \in Sessions : ~Open(p)
          /\ Editors \subseteq Sessions /\ Reviewers \subseteq Sessions
      BY <2>1 DEF Open, Closed, Sessions
    <2>3. AloneInv
      BY <2>1, <2>2, NoLoopType DEF AloneInv
    <2>4. ASSUME NEW d \in Docs
          PROVE  Written(d) /\ Last(d).tags = tags[d] /\ Told(d) /\ Chained(d)
      <3>1. /\ ver = [o \in Docs |->
                  <<[text |-> doc[o].text, cat |-> doc[o].cat, tags |-> tags[o],
                     by |-> [text |-> Keep, cat |-> Keep, tags |-> Keep]]>>]
            /\ told = [o \in Docs |-> Searched(o)]
        BY DEF Init
      <3>2. Len(ver[d]) = 1 /\ Last(d) = ver[d][1]
        BY <3>1 DEF Last
      <3> QED
        BY <3>1, <3>2 DEF Written, Told, Chained
    <2>5. UnkilledInv
      BY <2>4 DEF UnkilledInv, Live
    <2>6. RequestsInv
      BY <2>1, <2>2, <2>4 DEF RequestsInv, RequestsOnly, Live
    <2> QED
      BY <2>3, <2>5, <2>6, EditsInitial
  <1>2. EditsInv /\ AloneInv /\ UnkilledInv /\ RequestsInv /\ [Next]_vars
           => (EditsInv /\ AloneInv /\ UnkilledInv /\ RequestsInv)'
    BY EditsInductive, AloneInductive, UnkilledInductive, RequestsInductive
  <1> QED
    BY <1>1, <1>2, PTL DEF Spec

\* The versions of a document tell its history: no number is given twice or left
\* out, no edit is lost or undone by another, and a document nobody works on is
\* what its latest version says.
THEOREM VersionsTellHistory == Spec => []VersionsConsistent
  <1>1. EditsInv /\ AloneInv /\ UnkilledInv /\ RequestsInv => VersionsConsistent
    <2> SUFFICES ASSUME EditsInv, UnkilledInv, RequestsInv, NEW d \in Docs
                 PROVE  /\ doc[d].current = Len(ver[d])
                        /\ RequestsOnly => Chained(d)
                        /\ (RequestsOnly \/ BackfillOnly) /\ d \in Live /\ ~Touched(d) =>
                             Written(d) /\ Last(d).tags = tags[d]
      BY DEF VersionsConsistent, Chained, Written, Last
    <2>1. doc[d].current = Len(ver[d])
      BY DEF EditsInv, Numbered
    <2>2. RequestsOnly => Chained(d) /\ (d \in Live => Written(d) /\ Last(d).tags = tags[d])
      BY DEF RequestsInv
    <2>3. ~Touched(d) => ~BackfillAt(d)
      BY DEF Touched, BackfillAt, Open, At, Sessions
    <2>4. BackfillOnly /\ d \in Live /\ ~Touched(d) => Written(d) /\ Last(d).tags = tags[d]
      BY <2>3 DEF UnkilledInv
    <2> QED
      BY <2>1, <2>2, <2>4
  <1> QED
    BY <1>1, VersionsAlways, PTL

\* When requests or a backfill have ended, the index was told of every document as
\* it is.
THEOREM IndexIsTold == Spec => []QuietMeansTold
  <1>1. EditsInv /\ AloneInv /\ UnkilledInv /\ RequestsInv => QuietMeansTold
    <2> SUFFICES ASSUME EditsInv, UnkilledInv, RequestsInv, RequestsOnly \/ BackfillOnly,
                        ~loop.on, \A p \in Sessions : At(p, "closed"), NEW d \in Live
                 PROVE  Told(d)
      BY DEF QuietMeansTold, Told
    <2>1. ~BackfillAt(d)
      BY DEF BackfillAt, Open, At, Sessions
    <2>2. loop.done = {}
      BY NoLoopType DEF EditsInv, Roles
    <2> QED
      BY <2>1, <2>2 DEF RequestsInv, UnkilledInv
  <1> QED
    BY <1>1, VersionsAlways, PTL
=============================================================================
