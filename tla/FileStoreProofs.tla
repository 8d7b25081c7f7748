-------------------------- MODULE FileStoreProofs --------------------------
(***************************************************************************)
(* What holds of attachments for every set of documents and contents,      *)
(* every number of requests and whatever the settings: type correctness,   *)
(* and that a link names a document and a files row that are there, which  *)
(* rests on the locks a flushed statement holds. The second half is about  *)
(* harmless calls: what a document links can be downloaded, and nothing is *)
(* left behind.                                                            *)
(***************************************************************************)
EXTENDS FileStore, FiniteSetTheorems, TLAPS

-----------------------------------------------------------------------------
(* The invariant.                                                          *)

AllTables ==
    /\ doc \in [Docs -> [live: BOOLEAN, version: Nat]]
    /\ link \in SUBSET (Docs \X Contents)
    /\ row \in [Contents -> FileRow]
    /\ object \in SUBSET Contents
    /\ temp \in SUBSET Requests
    /\ fin \in [Requests -> Finalizer]
    /\ \A r \in Requests : fin[r].stage # "none" => fin[r].file \in Contents
    /\ setting \in Setting

\* What the fields of a request owe to its operation and the place it has reached.
Linked(q) == q.pc \in {"flush", "cleanup", "drop", "commit"}
Shape(q) ==
    /\ q.pc = "ready" => q = Ready
    /\ q.pc = "done" => q = Done
    /\ q.pc \notin {"ready", "done"} =>
         /\ q.doc \in Docs
         /\ q.op \in {"add", "replace"} => q.new \in Contents
    /\ q.pc \in {"lookup", "put", "insert"} => q.op \in {"add", "replace"} /\ ~q.inserted
    /\ q.pc \in {"flush", "cleanup", "drop"} => q.op \in {"replace", "detach", "delete"}
    /\ q.pc \in {"cleanup", "drop"} => q.old # {}
    /\ q.op \notin {"add", "replace"} => q.new = NoContent /\ ~q.inserted
    /\ q.op = "add" => q.old = {}
    /\ q.op = "replace" => \E c \in Contents : q.old = {c}
    /\ q.dropped \subseteq q.old
    /\ q.dropped # {} => q.pc \in {"cleanup", "drop", "commit"}
    /\ q.pc # "commit" => q.todo \subseteq q.old
    /\ q.pc = "drop" => q.cur \in q.old

\* A replace that waits for its commit, or for the clean-up before it.
Moving(r) == Flushed(r) /\ req[r].op = "replace"

\* What a request has flushed still fits the committed rows: those it deleted have
\* no link of another document, the one it inserted is not there, and the one that
\* a replace has linked is there or its own, and not among those it deleted.
Fits(r) ==
    /\ \A c \in req[r].dropped :
         /\ RowIs(c, req[r].was[c].by)
         /\ \A d \in Docs : <<d, c>> \in link => d = req[r].doc
    /\ req[r].inserted => row[req[r].new] = NoRow
    /\ Moving(r) =>
         /\ req[r].inserted \/ RowIs(req[r].new, req[r].file)
         /\ req[r].new \notin req[r].dropped
    /\ Linked(req[r]) /\ req[r].op = "replace" /\ req[r].old = {req[r].new} =>
         req[r].was[req[r].new].by # req[r].file
    /\ ~At(r, "done") => \A c \in Contents : row[c].by # r

\* Locks keep what two requests have flushed apart.
LockedOut(r, s) ==
    /\ req[r].dropped \cap req[s].dropped = {}
    /\ req[r].inserted /\ req[s].inserted => req[r].new # req[s].new
    /\ Moving(r) => req[r].new \notin req[s].dropped
    /\ Moving(s) => req[s].new \notin req[r].dropped

RequestsInv ==
    /\ req \in [Requests -> Request]
    /\ \A r \in Requests : Shape(req[r]) /\ Fits(r)
    /\ \A r, s \in Requests : r # s => LockedOut(r, s)

FilesInv == AllTables /\ RequestsInv /\ ReferencesHold

-----------------------------------------------------------------------------
(* Lemmas.                                                                 *)

LEMMA ReadyShaped ==
  /\ Ready \in Request /\ Done \in Request /\ Shape(Ready) /\ Shape(Done)
  /\ Ready.dropped = {} /\ ~Ready.inserted /\ Ready.pc = "ready" /\ Ready.op = "edit"
  /\ Done.dropped = {} /\ ~Done.inserted /\ Done.pc = "done" /\ Done.op = "edit"
  BY DEF Ready, Done, Request, Shape, NoRow, FileRow, Operations

LEMMA FilesInitially == Init => FilesInv
  <1> SUFFICES ASSUME Init PROVE FilesInv
    OBVIOUS
  <1>1. AllTables
    BY SettingsAssumption DEF Init, AllTables, FileRow, NoRow, Finalizer, NoTask
  <1>2. \A r \in Requests : req[r] = Ready
    BY DEF Init
  <1>3. req \in [Requests -> Request]
    BY ReadyShaped DEF Init
  <1>4. ASSUME NEW r \in Requests PROVE Fits(r)
    <2>1. r # NoRequest
      BY SettingsAssumption DEF Requests, NoRequest
    <2>2. \A c \in Contents : row[c].by # r
      BY <2>1 DEF Init, NoRow
    <2> QED
      BY <1>2, <2>2, ReadyShaped DEF Fits, Moving, Linked, At
  <1>5. \A r, s \in Requests : LockedOut(r, s)
    BY <1>2, ReadyShaped DEF LockedOut, Moving
  <1>6. ReferencesHold
    BY DEF Init, ReferencesHold, LinksOf
  <1> QED
    BY <1>1, <1>2, <1>3, <1>4, <1>5, <1>6, ReadyShaped DEF FilesInv, RequestsInv

LEMMA StepRun ==
  ASSUME RequestsInv, NEW r \in Requests, NEW q \in Request, Step(r, q)
  PROVE  /\ req' \in [Requests -> Request] /\ req'[r] = q
         /\ \A s \in Requests \ {r} : req'[s] = req[s]
  BY DEF RequestsInv, Step

\* One request goes on and no row is committed: what it has flushed must fit.
LEMMA RequestMove ==
  ASSUME FilesInv, NEW r \in Requests, NEW q \in Request, Step(r, q), Shape(q),
         UNCHANGED tables, AllTables', Fits(r)',
         \A s \in Requests \ {r} : LockedOut(r, s)'
  PROVE  FilesInv'
  <1>1. /\ req' \in [Requests -> Request] /\ req'[r] = q
        /\ \A s \in Requests \ {r} : req'[s] = req[s]
    BY StepRun DEF FilesInv
  <1>2. UNCHANGED <<doc, link, row>>
    BY DEF tables
  <1>3. ASSUME NEW s \in Requests, s # r PROVE Fits(s)'
    <2>1. Fits(s)
      BY DEF FilesInv, RequestsInv
    <2> QED
      BY <1>1, <1>2, <1>3, <2>1 DEF Fits, Moving, Flushed, Linked, RowIs, At
  <1>4. ASSUME NEW s \in Requests, NEW o \in Requests, s # o PROVE LockedOut(s, o)'
    <2>1. CASE s # r /\ o # r
      <3>1. LockedOut(s, o)
        BY <1>4 DEF FilesInv, RequestsInv
      <3> QED
        BY <1>1, <2>1, <3>1 DEF LockedOut, Moving, Flushed
    <2>2. CASE s = r
      BY <1>4, <2>2
    <2>3. CASE o = r
      <3>1. LockedOut(r, s)'
        BY <1>4, <2>3
      <3> QED
        BY <2>3, <3>1 DEF LockedOut
    <2> QED
      BY <2>1, <2>2, <2>3
  <1>5. ReferencesHold'
    BY <1>2 DEF FilesInv, ReferencesHold, LinksOf
  <1> QED
    BY <1>1, <1>3, <1>4, <1>5 DEF FilesInv, RequestsInv

\* A step that flushes nothing new.
LEMMA CalmMove ==
  ASSUME FilesInv, NEW r \in Requests, NEW q \in Request, Step(r, q), Shape(q),
         UNCHANGED tables, AllTables',
         q.dropped = {} \/ /\ q.dropped = req[r].dropped /\ q.was = req[r].was
                           /\ q.doc = req[r].doc,
         q.inserted => req[r].inserted /\ q.new = req[r].new,
         Moving(r)' => Moving(r) /\ q.new = req[r].new,
         Linked(q) /\ q.op = "replace" =>
            /\ Linked(req[r]) /\ req[r].op = "replace"
            /\ q.new = req[r].new /\ q.was = req[r].was /\ q.old = req[r].old
            /\ q.file = req[r].file /\ q.inserted = req[r].inserted,
         At(r, "done") => q.pc = "done"
  PROVE  FilesInv'
  <1>1. req' \in [Requests -> Request] /\ req'[r] = q
        /\ \A s \in Requests \ {r} : req'[s] = req[s]
    BY StepRun DEF FilesInv
  <1>2. Fits(r)
    BY DEF FilesInv, RequestsInv
  <1>3. Moving(r)' => Linked(q) /\ q.op = "replace"
    BY <1>1 DEF Moving, Flushed, Linked
  <1>4. Fits(r)'
    BY <1>1, <1>2, <1>3 DEF Fits, RowIs, At, tables
  <1>5. ASSUME NEW s \in Requests \ {r} PROVE LockedOut(r, s)'
    <2>1. LockedOut(r, s)
      BY DEF FilesInv, RequestsInv
    <2>2. Moving(s)' <=> Moving(s)
      BY <1>1 DEF Moving, Flushed
    <2> QED
      BY <1>1, <2>1, <2>2 DEF LockedOut
  <1> QED
    BY <1>4, <1>5, RequestMove

\* What a statement does not wait for.
LEMMA NobodyInTheWay ==
  ASSUME NEW r \in Requests, NEW s \in Requests \ {r}, NEW pc, Runs(r, pc)
  PROVE  /\ pc = "insert" =>
              ~(req[s].inserted /\ req[s].new = req[r].new)
         /\ pc = "flush" => req[r].new \notin req[s].dropped
         /\ pc = "drop" => ~SharesRow(s, req[r].cur) /\ req[r].cur \notin req[s].dropped
         /\ pc = "commit" /\ req[r].op = "add" => req[r].new \notin req[s].dropped
  <1>1. At(r, pc) /\ s \notin WaitsFor(r)
    BY DEF Runs
  <1> QED
    BY <1>1 DEF WaitsFor, At

LEMMA AbortStep ==
  ASSUME FilesInv, NEW r \in Requests, End(r), UNCHANGED tables, AllTables'
  PROVE  FilesInv'
  <1>1. Step(r, Done)
    BY DEF End
  <1>2. req'[r] = Done
    BY <1>1, StepRun, ReadyShaped DEF FilesInv
  <1>3. ~Moving(r)' /\ ~Linked(Done)
    BY <1>2, ReadyShaped DEF Moving, Linked
  <1> QED
    BY <1>1, <1>3, ReadyShaped, CalmMove

LEMMA BeginStep ==
  ASSUME FilesInv, NEW r \in Requests, Call(r)
  PROVE  FilesInv'
  <1>1. PICK op \in Operations, d \in Docs, old \in SUBSET Contents,
             new \in Contents \cup {NoContent} :
          /\ Begin(r, op, d, old, new)
          /\ op \in {"add", "replace"} => new \in Contents
          /\ op \notin {"add", "replace"} => new = NoContent
          /\ op \in {"add", "edit"} => old = {}
          /\ op = "replace" => \E c \in Contents : old = {c}
    <2>1. \A d \in Docs : LinksOf(d) \in SUBSET Contents
      BY DEF LinksOf
    <2> QED
      BY <2>1 DEF Call, BeginAdd, BeginReplace, BeginDetach, BeginDelete, BeginEdit, Operations
  <1>2. PICK pc : pc = CASE op \in {"add", "replace"} -> "lookup"
                         [] op \in {"detach", "delete"} -> "flush"
                         [] op = "edit" -> "commit"
    OBVIOUS
  <1>3. /\ op \in {"add", "replace"} => pc = "lookup"
        /\ op \in {"detach", "delete"} => pc = "flush"
        /\ op = "edit" => pc = "commit"
    BY <1>2
  <1> PICK linked \in BOOLEAN : linked = (<<d, new>> \in link)
    <2>1. CASE <<d, new>> \in link
      <3>1. TRUE = (<<d, new>> \in link)
        BY <2>1
      <3> QED
        BY <3>1
    <2>2. CASE <<d, new>> \notin link
      <3>1. FALSE = (<<d, new>> \in link)
        BY <2>2
      <3> QED
        BY <3>1
    <2> QED
      BY <2>1, <2>2
  <1> PICK version \in Nat, was \in [Contents -> FileRow] :
          version = doc[d].version /\ was = row
    <2>1. doc[d].version \in Nat /\ row \in [Contents -> FileRow]
      BY DEF FilesInv, AllTables
    <2> QED
      BY <2>1
  <1>4. PICK q : q = [Ready EXCEPT !.pc = pc, !.op = op, !.doc = d, !.old = old,
                        !.todo = old, !.new = new, !.version = version, !.was = was,
                        !.linked = linked]
    OBVIOUS
  <1>5. /\ q \in Request /\ q.pc = pc /\ q.op = op /\ q.doc = d /\ q.old = old
        /\ q.todo = old /\ q.new = new /\ q.dropped = {} /\ ~q.inserted
    BY ZenonT(60), <1>3, <1>4 DEF Ready, Request, Operations
  <1>6. Shape(q)
    BY <1>1, <1>3, <1>5 DEF Shape, Operations
  <1>7. Step(r, q) /\ UNCHANGED <<tables, object, temp, fin, setting>> /\ At(r, "ready")
    BY <1>1, <1>2, <1>4 DEF Begin
  <1>8. UNCHANGED tables /\ AllTables'
    BY <1>7 DEF FilesInv, AllTables, tables
  <1>9. req'[r] = q
    BY <1>5, <1>7, StepRun DEF FilesInv
  <1>10. ~Moving(r)' /\ ~(Linked(q) /\ q.op = "replace")
    BY <1>3, <1>5, <1>9 DEF Moving, Flushed, Linked
  <1> QED
    BY <1>5, <1>6, <1>7, <1>8, <1>10, CalmMove DEF At

\* The files row is at hand: it is committed, or the request's own.
LEMMA LinkingStep ==
  ASSUME FilesInv, NEW r \in Requests, req[r].pc \in {"lookup", "insert"},
         NEW upload \in Requests \cup {NoRequest}, Linking(r, upload),
         UNCHANGED tables, AllTables',
         upload = r =>
            /\ row[req[r].new] = NoRow
            /\ \A s \in Requests \ {r} :
                 ~(req[s].inserted /\ req[s].new = req[r].new)
  PROVE  FilesInv'
  <1>1. /\ req[r] \in Request /\ Shape(req[r]) /\ Fits(r)
        /\ req[r].doc \in Docs /\ req[r].op \in {"add", "replace"}
        /\ req[r].new \in Contents /\ ~req[r].inserted /\ req[r].dropped = {}
    BY DEF FilesInv, RequestsInv, Shape
  <1>2. PICK u : u = [req[r] EXCEPT !.file = upload]
    OBVIOUS
  <1>3. /\ u \in Request /\ u.file = upload
        /\ u.pc = req[r].pc /\ u.op = req[r].op /\ u.doc = req[r].doc
        /\ u.new = req[r].new /\ u.old = req[r].old /\ u.was = req[r].was
        /\ u.todo = req[r].todo /\ u.dropped = {} /\ ~u.inserted
        /\ u.linked = req[r].linked
    BY <1>1, <1>2 DEF Request
  <1>4. CASE End(r)
    BY <1>4, AbortStep
  <1>5. CASE Step(r, [u EXCEPT !.pc = "commit", !.op = "edit", !.old = {},
                               !.new = NoContent])
    <2>1. PICK q : q = [u EXCEPT !.pc = "commit", !.op = "edit", !.old = {},
                                 !.new = NoContent]
      OBVIOUS
    <2>2. /\ q \in Request /\ q.pc = "commit" /\ q.op = "edit" /\ q.doc = req[r].doc
          /\ q.new = NoContent /\ q.old = {} /\ q.dropped = {} /\ ~q.inserted
      BY <1>3, <2>1 DEF Request, Operations
    <2>3. Shape(q)
      BY <1>1, <2>2 DEF Shape
    <2>4. Step(r, q) /\ req'[r] = q
      BY <1>5, <2>1, <2>2, StepRun DEF FilesInv
    <2>5. ~Moving(r)' /\ ~At(r, "done")
      BY <2>2, <2>4 DEF Moving, At
    <2> QED
      BY <2>2, <2>3, <2>4, <2>5, CalmMove
  <1>6. CASE /\ ~(u.was[u.new].by = upload /\ u.old = {u.new})
                \/ u.op = "add"
             /\ Step(r, [u EXCEPT !.pc = IF u.op = "add" THEN "commit" ELSE "flush",
                                  !.inserted = upload = r])
    <2>1. PICK pc \in {"commit", "flush"}, inserted \in BOOLEAN :
            /\ pc = IF u.op = "add" THEN "commit" ELSE "flush"
            /\ inserted = (upload = r)
      OBVIOUS
    <2>2. PICK q : q = [u EXCEPT !.pc = pc, !.inserted = inserted]
      OBVIOUS
    <2>3. /\ q \in Request /\ q.pc = pc /\ q.op = req[r].op /\ q.doc = req[r].doc
          /\ q.new = req[r].new /\ q.old = req[r].old /\ q.was = req[r].was
          /\ q.todo = req[r].todo /\ q.dropped = {} /\ q.file = upload
          /\ q.inserted = inserted
      BY <1>3, <2>2 DEF Request
    <2>4. Shape(q)
      BY <1>1, <1>3, <2>1, <2>3 DEF Shape
    <2>5. Step(r, q) /\ req'[r] = q /\ \A s \in Requests \ {r} : req'[s] = req[s]
      BY <1>6, <2>1, <2>2, <2>3, StepRun DEF FilesInv
    <2>6. ~Moving(r)'
      BY <1>1, <1>3, <2>1, <2>3, <2>5 DEF Moving, Flushed, Shape
    <2>7. row' = row /\ ~At(r, "done")
      BY DEF tables, At
    <2>8. Fits(r)'
      <3>1. \A c \in Contents : row[c].by # r
        BY <1>1, <2>7 DEF Fits
      <3>2. q.inserted => row[q.new] = NoRow
        BY <2>1, <2>3
      <3>3. q.op = "replace" /\ q.old = {q.new} => q.was[q.new].by # q.file
        BY <1>3, <1>6, <2>3
      <3> QED
        BY <2>3, <2>5, <2>6, <2>7, <3>1, <3>2, <3>3 DEF Fits, Linked, At
    <2>9. ASSUME NEW s \in Requests \ {r} PROVE LockedOut(r, s)'
      BY ZenonT(60), <2>1, <2>3, <2>5, <2>6 DEF LockedOut
    <2> QED
      BY <2>3, <2>4, <2>5, <2>8, <2>9, RequestMove
  <1> QED
    BY <1>2, <1>3, <1>4, <1>5, <1>6 DEF Linking

LEMMA LookupStep ==
  ASSUME FilesInv, NEW r \in Requests, Lookup(r)
  PROVE  FilesInv'
  <1>1. /\ req[r] \in Request /\ Shape(req[r]) /\ Fits(r) /\ req[r].pc = "lookup"
        /\ UNCHANGED <<tables, object, temp, fin, setting>>
    BY DEF FilesInv, RequestsInv, Lookup, Runs, At
  <1>2. UNCHANGED tables /\ AllTables'
    BY <1>1 DEF FilesInv, AllTables, tables
  <1>3. PICK c \in Contents : c = req[r].new
    BY <1>1 DEF Shape
  <1>4. CASE row[c] # NoRow
    <2>1. PICK upload \in Requests \cup {NoRequest} : upload = row[c].by
      BY DEF FilesInv, AllTables, FileRow
    <2>2. upload # r
      BY <1>1, <2>1 DEF Fits, At
    <2>3. Linking(r, upload)
      BY <1>3, <1>4, <2>1 DEF Lookup
    <2> QED
      BY <1>1, <1>2, <2>2, <2>3, LinkingStep
  <1>5. CASE row[c] = NoRow
    <2>1. PICK pc \in {"insert", "put"} : pc = IF Deferred THEN "insert" ELSE "put"
      OBVIOUS
    <2>2. PICK q : q = [req[r] EXCEPT !.pc = pc]
      OBVIOUS
    <2>3. /\ q \in Request /\ q.pc = pc /\ q.op = req[r].op /\ q.doc = req[r].doc
          /\ q.new = req[r].new /\ q.old = req[r].old /\ q.todo = req[r].todo
          /\ q.dropped = req[r].dropped /\ q.inserted = req[r].inserted
      BY <1>1, <2>2 DEF Request
    <2>4. Shape(q) /\ q.dropped = {} /\ ~q.inserted
      BY <1>1, <2>3 DEF Shape
    <2>5. Step(r, q) /\ req'[r] = q
      BY <1>3, <1>5, <2>1, <2>2, <2>3, StepRun DEF Lookup, FilesInv
    <2>6. ~Moving(r)' /\ ~Linked(q) /\ ~At(r, "done")
      BY <1>1, <2>3, <2>5 DEF Moving, Flushed, Linked, At
    <2> QED
      BY <1>2, <2>3, <2>4, <2>5, <2>6, CalmMove
  <1> QED
    BY <1>4, <1>5

LEMMA PutNowStep ==
  ASSUME FilesInv, NEW r \in Requests, PutNow(r)
  PROVE  FilesInv'
  <1>1. /\ req[r] \in Request /\ Shape(req[r]) /\ req[r].pc = "put"
        /\ UNCHANGED <<tables, temp, fin>> /\ req[r].new \in Contents
    BY DEF FilesInv, RequestsInv, PutNow, Runs, At, Shape
  <1>2. UNCHANGED tables /\ AllTables'
    <2>1. object' \in SUBSET Contents
      BY <1>1 DEF PutNow, FilesInv, AllTables
    <2>2. setting' \in Setting
      <3>1. CASE UNCHANGED setting
        BY <3>1 DEF FilesInv, AllTables
      <3>2. CASE setting.put > 0 /\ setting' = [setting EXCEPT !.put = @ - 1]
        <4>1. setting \in Setting
          BY DEF FilesInv, AllTables
        <4>2. PICK put \in Nat : put = setting.put - 1
          BY <3>2, <4>1 DEF Setting
        <4> QED
          BY <3>2, <4>1, <4>2 DEF Setting
      <3> QED
        BY <3>1, <3>2 DEF PutNow
    <2> QED
      BY <1>1, <2>1, <2>2 DEF FilesInv, AllTables, tables
  <1>3. CASE Abort(r)
    BY <1>2, <1>3, AbortStep DEF Abort
  <1>4. CASE Step(r, [req[r] EXCEPT !.pc = "insert"])
    <2>1. PICK q : q = [req[r] EXCEPT !.pc = "insert"]
      OBVIOUS
    <2>2. /\ q \in Request /\ q.pc = "insert" /\ q.op = req[r].op /\ q.doc = req[r].doc
          /\ q.new = req[r].new /\ q.old = req[r].old /\ q.todo = req[r].todo
          /\ q.dropped = req[r].dropped /\ q.inserted = req[r].inserted
      BY <1>1, <2>1 DEF Request
    <2>3. Shape(q) /\ q.dropped = {} /\ ~q.inserted
      BY <1>1, <2>2 DEF Shape
    <2>4. Step(r, q) /\ req'[r] = q
      BY <1>4, <2>1, <2>2, StepRun DEF FilesInv
    <2>5. ~Moving(r)' /\ ~Linked(q) /\ ~At(r, "done")
      BY <1>1, <2>2, <2>4 DEF Moving, Flushed, Linked, At
    <2> QED
      BY <1>2, <2>2, <2>3, <2>4, <2>5, CalmMove
  <1> QED
    BY <1>3, <1>4 DEF PutNow

LEMMA InsertStep ==
  ASSUME FilesInv, NEW r \in Requests, Insert(r)
  PROVE  FilesInv'
  <1>1. /\ req[r].pc = "insert" /\ Runs(r, "insert")
        /\ UNCHANGED <<tables, object, fin, setting>>
    BY DEF Insert, Runs, At
  <1>2. UNCHANGED tables /\ AllTables'
    <2>1. temp' \in SUBSET Requests
      BY DEF Insert, FilesInv, AllTables
    <2> QED
      BY <1>1, <2>1 DEF FilesInv, AllTables, tables
  <1>3. CASE row[req[r].new] = NoRow
    <2>1. Linking(r, r)
      BY <1>3 DEF Insert
    <2>2. \A s \in Requests \ {r} : ~(req[s].inserted /\ req[s].new = req[r].new)
      BY <1>1, NobodyInTheWay
    <2>3. PICK upload \in Requests : upload = r
      OBVIOUS
    <2> QED
      BY <1>1, <1>2, <1>3, <2>1, <2>2, <2>3, LinkingStep
  <1>4. CASE row[req[r].new] # NoRow
    BY <1>2, <1>4, AbortStep DEF Insert, Abort
  <1> QED
    BY <1>3, <1>4

LEMMA FlushStep ==
  ASSUME FilesInv, NEW r \in Requests, Flush(r)
  PROVE  FilesInv'
  <1>1. /\ req[r] \in Request /\ Shape(req[r]) /\ Fits(r) /\ req[r].pc = "flush"
        /\ Runs(r, "flush") /\ UNCHANGED <<tables, object, temp, fin, setting>>
    BY DEF FilesInv, RequestsInv, Flush, Runs, At
  <1>2. UNCHANGED tables /\ AllTables'
    BY <1>1 DEF FilesInv, AllTables, tables
  <1>3. CASE Abort(r)
    BY <1>2, <1>3, AbortStep DEF Abort
  <1>4. CASE /\ req[r].op = "replace" =>
                  req[r].inserted \/ RowIs(req[r].new, req[r].file)
             /\ Step(r, [req[r] EXCEPT !.pc = IF req[r].old = {} THEN "commit" ELSE "cleanup"])
    <2>1. PICK pc \in {"commit", "cleanup"} :
            pc = IF req[r].old = {} THEN "commit" ELSE "cleanup"
      OBVIOUS
    <2>2. PICK q : q = [req[r] EXCEPT !.pc = pc]
      OBVIOUS
    <2>3. /\ q \in Request /\ q.pc = pc /\ q.op = req[r].op /\ q.doc = req[r].doc
          /\ q.new = req[r].new /\ q.old = req[r].old /\ q.todo = req[r].todo
          /\ q.dropped = req[r].dropped /\ q.inserted = req[r].inserted
          /\ q.file = req[r].file /\ q.was = req[r].was
      BY <1>1, <2>2 DEF Request
    <2>4. Shape(q) /\ q.dropped = {}
      BY <1>1, <2>1, <2>3 DEF Shape
    <2>5. Step(r, q) /\ req'[r] = q /\ \A s \in Requests \ {r} : req'[s] = req[s]
      BY <1>4, <2>1, <2>2, <2>3, StepRun DEF FilesInv
    <2>6. Fits(r)'
      BY <1>1, <1>2, <1>4, <2>3, <2>4, <2>5 DEF Fits, Moving, Linked, At, RowIs, tables
    <2>7. ASSUME NEW s \in Requests \ {r} PROVE LockedOut(r, s)'
      <3>1. req[r].new \notin req[s].dropped
        BY <1>1, NobodyInTheWay
      <3>2. LockedOut(r, s)
        BY DEF FilesInv, RequestsInv
      <3>3. Moving(s)' <=> Moving(s)
        BY <2>5 DEF Moving, Flushed
      <3> QED
        BY <2>3, <2>4, <2>5, <3>1, <3>2, <3>3 DEF LockedOut
    <2> QED
      BY <1>2, <2>3, <2>4, <2>5, <2>6, <2>7, RequestMove
  <1> QED
    BY <1>3, <1>4 DEF Flush

\* The request goes on with the next file, or with its commit.
LEMMA AfterFileShape ==
  ASSUME NEW q \in Request, Shape(q), q.pc \in {"cleanup", "drop"},
         NEW c \in Contents, NEW n, n = AfterFile(q, c)
  PROVE  /\ n \in Request /\ Shape(n) /\ n.pc \in {"commit", "cleanup"}
         /\ n.op = q.op /\ n.doc = q.doc /\ n.new = q.new /\ n.old = q.old
         /\ n.was = q.was /\ n.file = q.file /\ n.inserted = q.inserted
         /\ n.dropped = q.dropped
  <1>1. PICK pc \in {"commit", "cleanup"} :
          pc = IF q.todo = {c} THEN "commit" ELSE "cleanup"
    OBVIOUS
  <1>2. PICK todo \in SUBSET Contents : todo = q.todo \ {c}
    BY DEF Request
  <1>3. n = [q EXCEPT !.todo = todo, !.cur = NoContent, !.pc = pc]
    BY <1>1, <1>2 DEF AfterFile
  <1>4. /\ n \in Request /\ n.pc = pc /\ n.todo = todo
        /\ n.op = q.op /\ n.doc = q.doc /\ n.new = q.new /\ n.old = q.old
        /\ n.was = q.was /\ n.file = q.file /\ n.inserted = q.inserted
        /\ n.dropped = q.dropped
    BY <1>3 DEF Request
  <1>5. Shape(n)
    BY <1>2, <1>4 DEF Shape
  <1> QED
    BY <1>4, <1>5

LEMMA CleanupStep ==
  ASSUME FilesInv, NEW r \in Requests, NEW c \in Contents, Cleanup(r, c)
  PROVE  FilesInv'
  <1>1. /\ req[r] \in Request /\ Shape(req[r]) /\ req[r].pc = "cleanup"
        /\ c \in req[r].todo /\ UNCHANGED <<tables, fin>>
    BY DEF FilesInv, RequestsInv, Cleanup, Runs, At
  <1>2. UNCHANGED tables /\ AllTables'
    <2>1. object' \in SUBSET Contents /\ temp' \in SUBSET Requests
      BY DEF Cleanup, FilesInv, AllTables
    <2>2. setting' \in Setting
      <3>1. CASE UNCHANGED setting
        BY <3>1 DEF FilesInv, AllTables
      <3>2. CASE setting.remove > 0 /\ setting' = [setting EXCEPT !.remove = @ - 1]
        <4>1. setting \in Setting
          BY DEF FilesInv, AllTables
        <4>2. PICK remove \in Nat : remove = setting.remove - 1
          BY <3>2, <4>1 DEF Setting
        <4> QED
          BY <3>2, <4>1, <4>2 DEF Setting
      <3> QED
        BY <3>1, <3>2 DEF Cleanup
    <2> QED
      BY <1>1, <2>1, <2>2 DEF FilesInv, AllTables, tables
  <1>3. CASE Abort(r)
    BY <1>2, <1>3, AbortStep DEF Abort
  <1>4. CASE Step(r, AfterFile(req[r], c))
    <2>1. PICK n : n = AfterFile(req[r], c)
      OBVIOUS
    <2>2. /\ n \in Request /\ Shape(n) /\ n.pc \in {"commit", "cleanup"}
          /\ n.op = req[r].op /\ n.doc = req[r].doc /\ n.new = req[r].new
          /\ n.old = req[r].old /\ n.was = req[r].was /\ n.file = req[r].file
          /\ n.inserted = req[r].inserted /\ n.dropped = req[r].dropped
      BY <1>1, <2>1, AfterFileShape
    <2>3. Step(r, n) /\ req'[r] = n
      BY <1>4, <2>1, <2>2, StepRun DEF FilesInv
    <2>4. /\ Moving(r)' => Moving(r)
          /\ Linked(req[r]) /\ ~At(r, "done")
      BY <1>1, <2>2, <2>3 DEF Moving, Flushed, Linked, At
    <2> QED
      BY <1>2, <2>2, <2>3, <2>4, CalmMove
  <1>5. CASE Step(r, [req[r] EXCEPT !.pc = "drop", !.cur = c])
    <2>1. PICK n : n = [req[r] EXCEPT !.pc = "drop", !.cur = c]
      OBVIOUS
    <2>2. /\ n \in Request /\ n.pc = "drop" /\ n.cur = c /\ n.todo = req[r].todo
          /\ n.op = req[r].op /\ n.doc = req[r].doc /\ n.new = req[r].new
          /\ n.old = req[r].old /\ n.was = req[r].was /\ n.file = req[r].file
          /\ n.inserted = req[r].inserted /\ n.dropped = req[r].dropped
      BY <1>1, <2>1 DEF Request
    <2>3. Shape(n)
      BY <1>1, <2>2 DEF Shape
    <2>4. Step(r, n) /\ req'[r] = n
      BY <1>5, <2>1, <2>2, StepRun DEF FilesInv
    <2>5. /\ Moving(r)' => Moving(r)
          /\ Linked(req[r]) /\ ~At(r, "done")
      BY <1>1, <2>2, <2>4 DEF Moving, Flushed, Linked, At
    <2> QED
      BY <1>2, <2>2, <2>3, <2>4, <2>5, CalmMove
  <1> QED
    BY <1>3, <1>4, <1>5 DEF Cleanup

\* The row that goes has no link of another document, and no request is linking it.
LEMMA DropRowStep ==
  ASSUME FilesInv, NEW r \in Requests, DropRow(r)
  PROVE  FilesInv'
  <1>1. /\ req[r] \in Request /\ Shape(req[r]) /\ Fits(r) /\ req[r].pc = "drop"
        /\ Runs(r, "drop") /\ UNCHANGED <<tables, object, temp, fin, setting>>
    BY DEF FilesInv, RequestsInv, DropRow, Runs, At
  <1>2. UNCHANGED tables /\ AllTables'
    BY <1>1 DEF FilesInv, AllTables, tables
  <1>3. CASE Abort(r)
    BY <1>2, <1>3, AbortStep DEF Abort
  <1>4. PICK c \in Contents : c = req[r].cur /\ c \in req[r].old
    BY <1>1 DEF Shape, Request
  <1>5. PICK n : n = AfterFile(req[r], c)
    OBVIOUS
  <1>6. /\ n \in Request /\ Shape(n) /\ n.pc \in {"commit", "cleanup"}
        /\ n.op = req[r].op /\ n.doc = req[r].doc /\ n.new = req[r].new
        /\ n.old = req[r].old /\ n.was = req[r].was /\ n.file = req[r].file
        /\ n.inserted = req[r].inserted /\ n.dropped = req[r].dropped
    BY <1>1, <1>5, AfterFileShape
  <1>7. CASE Step(r, AfterFile(req[r], c))
    <2>1. Step(r, n) /\ req'[r] = n
      BY <1>5, <1>6, <1>7, StepRun DEF FilesInv
    <2>2. /\ Moving(r)' => Moving(r)
          /\ Linked(req[r]) /\ ~At(r, "done")
      BY <1>1, <1>6, <2>1 DEF Moving, Flushed, Linked, At
    <2> QED
      BY <1>2, <1>6, <2>1, <2>2, CalmMove
  <1>8. CASE /\ ~LinkedElsewhere(r, c) /\ RowIs(c, req[r].was[c].by)
             /\ Step(r, [AfterFile(req[r], c) EXCEPT !.dropped = @ \cup {c}])
    <2>1. PICK dropped \in SUBSET Contents : dropped = req[r].dropped \cup {c}
      BY <1>1 DEF Request
    <2>2. PICK q : q = [n EXCEPT !.dropped = dropped]
      OBVIOUS
    <2>3. /\ q \in Request /\ q.pc = n.pc /\ q.todo = n.todo /\ q.dropped = dropped
          /\ q.op = req[r].op /\ q.doc = req[r].doc /\ q.new = req[r].new
          /\ q.old = req[r].old /\ q.was = req[r].was /\ q.file = req[r].file
          /\ q.inserted = req[r].inserted
      BY <1>6, <2>2 DEF Request
    <2>4. Shape(q)
      BY <1>4, <1>6, <2>1, <2>3 DEF Shape
    <2>5. q = [AfterFile(req[r], c) EXCEPT !.dropped = @ \cup {c}]
      BY <1>5, <1>6, <2>1, <2>2
    <2>6. Step(r, q) /\ req'[r] = q /\ \A s \in Requests \ {r} : req'[s] = req[s]
      BY <1>8, <2>3, <2>5, StepRun DEF FilesInv
    <2>7. \A d \in Docs : <<d, c>> \in link => d = req[r].doc
      BY <1>8 DEF LinkedElsewhere
    <2>8. Moving(r)' => Moving(r) /\ req[r].op = "replace"
      BY <1>1, <2>3, <2>6 DEF Moving, Flushed
    <2>9. ASSUME Moving(r) PROVE req[r].new # c
      <3>1. Linked(req[r]) /\ req[r].op = "replace"
        BY <1>1, <2>9 DEF Moving, Linked
      <3>2. SUFFICES ASSUME req[r].new = c PROVE FALSE
        OBVIOUS
      <3>3. req[r].old = {c}
        BY <1>1, <1>4, <3>1 DEF Shape
      <3>4. req[r].was[c].by # req[r].file
        BY <1>1, <3>1, <3>2, <3>3 DEF Fits
      <3>5. req[r].inserted \/ RowIs(c, req[r].file)
        BY <1>1, <2>9, <3>2 DEF Fits
      <3> QED
        BY <1>1, <1>8, <3>2, <3>4, <3>5 DEF Fits, RowIs
    <2>10. Fits(r)'
      <3>1. link' = link /\ row' = row
        BY <1>2 DEF tables
      <3>2. ASSUME NEW x \in req'[r].dropped
            PROVE  /\ RowIs(x, req[r].was[x].by)'
                   /\ \A d \in Docs : <<d, x>> \in link => d = req[r].doc
        <4>1. CASE x = c
          BY <1>8, <2>7, <3>1, <4>1, <2>3, <2>6 DEF RowIs
        <4>2. CASE x \in req[r].dropped
          BY <1>1, <2>3, <2>6, <3>1, <4>2 DEF Fits, RowIs
        <4> QED
          BY <2>1, <2>3, <2>6, <4>1, <4>2
      <3>3. req'[r].inserted => row'[req'[r].new] = NoRow
        BY <1>1, <2>3, <2>6, <3>1 DEF Fits
      <3>4. Moving(r)' => /\ req'[r].inserted \/ RowIs(req[r].new, req[r].file)
                         /\ req'[r].new \notin req'[r].dropped
        BY <1>1, <2>1, <2>3, <2>6, <2>8, <2>9 DEF Fits
      <3>5. q.op = "replace" /\ q.old = {q.new} => q.was[q.new].by # q.file
        BY <1>1, <2>3 DEF Fits, Linked
      <3>6. \A x \in Contents : row[x].by # r
        BY <1>1 DEF Fits, At
      <3> QED
        BY <2>3, <2>6, <3>1, <3>2, <3>3, <3>4, <3>5, <3>6 DEF Fits, RowIs
    <2>11. ASSUME NEW s \in Requests \ {r} PROVE LockedOut(r, s)'
      <3>1. ~SharesRow(s, c) /\ c \notin req[s].dropped
        BY <1>1, <1>4, NobodyInTheWay
      <3>2. LockedOut(r, s)
        BY DEF FilesInv, RequestsInv
      <3>3. (Moving(s)' <=> Moving(s)) /\ (Moving(s) => req[s].new # c)
        BY <2>6, <3>1 DEF Moving, Flushed, SharesRow
      <3> QED
        BY <2>1, <2>3, <2>6, <2>8, <3>1, <3>2, <3>3 DEF LockedOut
    <2> QED
      BY <1>2, <2>3, <2>4, <2>6, <2>10, <2>11, RequestMove
  <1>9. \/ Abort(r) \/ Step(r, AfterFile(req[r], c))
        \/ /\ ~LinkedElsewhere(r, c) /\ RowIs(c, req[r].was[c].by)
           /\ Step(r, [AfterFile(req[r], c) EXCEPT !.dropped = @ \cup {c}])
    BY <1>4 DEF DropRow
  <1> QED
    BY <1>3, <1>7, <1>8, <1>9

\* The links that go are those of the rows that go; a link that is made names a
\* row that stays, and nobody's flushed delete.
LEMMA CommittedStep ==
  ASSUME FilesInv, NEW r \in Requests, Runs(r, "commit"), Commits(r), Committed(r),
         End(r), UNCHANGED <<object, temp, setting>>,
         fin' \in [Requests -> Finalizer],
         \A s \in Requests : fin'[s].stage # "none" => fin'[s].file \in Contents
  PROVE  FilesInv'
  <1>1. /\ req[r] \in Request /\ Shape(req[r]) /\ Fits(r) /\ req[r].pc = "commit"
        /\ req[r].doc \in Docs
    BY DEF FilesInv, RequestsInv, Runs, At, Shape
  <1> PICK q \in Request : q = req[r]
    BY <1>1
  <1>2. /\ Shape(q) /\ q.pc = "commit" /\ q.doc \in Docs /\ q.dropped \subseteq q.old
        /\ q.old \in SUBSET Contents /\ q.inserted \in BOOLEAN
        /\ q.new \in Contents => q.op \in {"add", "replace"}
        /\ q.op = "add" => q.dropped = {}
        /\ q.op = "replace" => Moving(r)
        /\ q.inserted => q.new \in Contents
    <2>1. q.new \in Contents => q.op \in {"add", "replace"}
      BY <1>1, NullsAssumption DEF Shape
    <2>2. q.op = "replace" => Moving(r)
      BY <1>1 DEF Shape, Moving, Flushed
    <2>3. q.inserted => q.new \in Contents
      BY <1>1 DEF Shape
    <2> QED
      BY <1>1, <2>1, <2>2, <2>3 DEF Shape, Request
  <1>3. /\ \A c \in q.dropped : \A d \in Docs : <<d, c>> \in link => d = q.doc
        /\ q.inserted => row[q.new] = NoRow
        /\ q.op = "replace" => /\ q.inserted \/ RowIs(q.new, q.file)
                               /\ q.new \notin q.dropped
    BY <1>1, <1>2 DEF Fits
  <1>4. \/ q.op = "delete"
        \/ /\ q.op # "delete" /\ doc[q.doc].live
           /\ q.op = "add" => q.inserted \/ RowIs(q.new, q.file)
    BY DEF Commits
  <1>5. PICK state \in {"pending", "stored"} :
          state = IF Deferred THEN "pending" ELSE "stored"
    OBVIOUS
  <1>6. row' = [c \in Contents |-> IF c \in q.dropped THEN NoRow
                                  ELSE IF q.inserted /\ c = q.new
                                  THEN [state |-> state, by |-> r] ELSE row[c]]
    BY <1>5 DEF Committed
  <1>7. \A c \in Contents :
          /\ c \in q.dropped => row'[c] = NoRow
          /\ c \notin q.dropped /\ q.inserted /\ c = q.new =>
                row'[c] = [state |-> state, by |-> r]
          /\ c \notin q.dropped /\ ~(q.inserted /\ c = q.new) => row'[c] = row[c]
    BY <1>6
  <1>8. r # NoRequest /\ [state |-> state, by |-> r] # NoRow
    BY <1>5, SettingsAssumption DEF Requests, NoRequest, NoRow
  <1>9. /\ \A d \in Docs, c \in Contents :
             <<d, c>> \in link' =>
                \/ <<d, c>> \in link /\ (d = q.doc => q.op # "delete" /\ c \notin q.old)
                \/ d = q.doc /\ c = q.new
        /\ link' \in SUBSET (Docs \X Contents)
    <2>1. PICK gone : gone = IF q.op = "delete" THEN Contents ELSE q.old
      OBVIOUS
    <2>2. link' = (link \ ({q.doc} \X gone)) \cup ({q.doc} \X ({q.new} \ {NoContent}))
      BY <2>1 DEF Committed
    <2>3. q.new \in Contents \cup {NoContent} /\ link \in SUBSET (Docs \X Contents)
      BY DEF Request, FilesInv, AllTables
    <2> QED
      BY <1>2, <2>1, <2>2, <2>3
  <1>10. /\ doc' \in [Docs -> [live: BOOLEAN, version: Nat]]
         /\ \A d \in Docs : (d = q.doc => q.op # "delete") => doc'[d].live = doc[d].live
    <2>1. doc \in [Docs -> [live: BOOLEAN, version: Nat]]
      BY DEF FilesInv, AllTables
    <2>2. PICK b \in [live: BOOLEAN, version: Nat] : b = doc[q.doc]
      BY <1>2, <2>1
    <2>3. PICK v \in Nat : v = b.version + 1
      OBVIOUS
    <2>4. CASE q.op = "delete"
      <3>1. PICK e : e = [b EXCEPT !.live = FALSE]
        OBVIOUS
      <3>2. e \in [live: BOOLEAN, version: Nat]
        BY <3>1
      <3>3. doc' = [doc EXCEPT ![q.doc] = e]
        BY <2>2, <2>4, <3>1 DEF Committed
      <3> QED
        BY <1>2, <2>1, <2>4, <3>2, <3>3
    <2>5. CASE q.op # "delete"
      <3>1. PICK e : e = [b EXCEPT !.version = v]
        OBVIOUS
      <3>2. e \in [live: BOOLEAN, version: Nat] /\ e.live = b.live
        BY <3>1
      <3>3. doc' = [doc EXCEPT ![q.doc] = e]
        BY <2>2, <2>3, <2>5, <3>1 DEF Committed
      <3> QED
        BY <1>2, <2>1, <2>2, <3>2, <3>3
    <2> QED
      BY <2>4, <2>5
  <1>11. row' \in [Contents -> FileRow]
    BY <1>6 DEF FilesInv, AllTables, FileRow, NoRow
  <1>12. AllTables'
    BY <1>9, <1>10, <1>11 DEF FilesInv, AllTables
  <1>13. /\ req' \in [Requests -> Request] /\ req'[r] = Done
         /\ \A s \in Requests \ {r} : req'[s] = req[s]
    BY ReadyShaped, StepRun DEF FilesInv, End
  <1>14. ReferencesHold'
    <2>1. SUFFICES ASSUME NEW d \in Docs, NEW c \in Contents, <<d, c>> \in link'
                   PROVE  doc'[d].live /\ row'[c] # NoRow
      BY DEF ReferencesHold, LinksOf
    <2>2. CASE <<d, c>> \in link /\ (d = q.doc => q.op # "delete" /\ c \notin q.old)
      <3>1. doc[d].live /\ row[c] # NoRow
        BY <2>2 DEF FilesInv, ReferencesHold, LinksOf
      <3>2. c \notin q.dropped
        BY <1>2, <1>3, <2>2
      <3> QED
        BY <1>7, <1>8, <1>10, <2>2, <3>1, <3>2
    <2>3. CASE d = q.doc /\ c = q.new
      <3>1. q.op \in {"add", "replace"}
        BY <1>2, <2>3
      <3>2. c \notin q.dropped /\ (q.inserted \/ RowIs(c, q.file))
        BY <1>2, <1>3, <1>4, <2>3, <3>1
      <3>3. doc'[d].live
        BY <1>4, <1>10, <2>3, <3>1
      <3> QED
        BY <1>7, <1>8, <2>3, <3>2, <3>3 DEF RowIs
    <2> QED
      BY <1>9, <2>1, <2>2, <2>3
  <1>15. ASSUME NEW s \in Requests \ {r} PROVE Fits(s)'
    <2>1. Fits(s) /\ LockedOut(r, s)
      BY DEF FilesInv, RequestsInv
    <2>2. PICK o \in Request : o = req[s]
      BY DEF FilesInv, RequestsInv
    <2>3. /\ q.dropped \cap o.dropped = {}
          /\ q.inserted /\ o.inserted => q.new # o.new
          /\ Moving(r) => q.new \notin o.dropped
          /\ Moving(s) => o.new \notin q.dropped
      BY <2>1, <2>2 DEF LockedOut
    <2>4. q.op = "add" => q.new \notin o.dropped
      BY <2>2, NobodyInTheWay
    <2>5. /\ o.dropped \in SUBSET Contents
          /\ o.inserted => o.new \in Contents
          /\ Moving(s) => o.new \in Contents
      <3>1. Shape(o)
        BY <2>2 DEF FilesInv, RequestsInv
      <3>2. o.inserted => o.pc \notin {"ready", "done"} /\ o.op \in {"add", "replace"}
        BY <3>1, ReadyShaped DEF Shape
      <3>3. Moving(s) => o.pc \notin {"ready", "done"} /\ o.op \in {"add", "replace"}
        BY <2>2 DEF Moving, Flushed
      <3> QED
        BY <3>1, <3>2, <3>3 DEF Shape, Request
    <2>6. ASSUME NEW x \in o.dropped
          PROVE  /\ row'[x] # NoRow /\ row'[x].by = o.was[x].by
                 /\ \A d \in Docs : <<d, x>> \in link' => d = o.doc
      <3>1. /\ row[x] # NoRow /\ row[x].by = o.was[x].by
            /\ \A d \in Docs : <<d, x>> \in link => d = o.doc
        BY <2>1, <2>2 DEF Fits, RowIs
      <3>2. x \in Contents /\ x \notin q.dropped /\ ~(q.inserted /\ x = q.new)
        BY <1>3, <2>3, <2>5, <3>1
      <3>3. x # q.new
        BY <1>2, <2>3, <2>4, <3>2
      <3> QED
        BY <1>7, <1>9, <3>1, <3>2, <3>3
    <2>7. o.inserted => row'[o.new] = NoRow
      BY <1>7, <2>1, <2>2, <2>3, <2>5 DEF Fits
    <2>8. Moving(s) => /\ o.new \notin o.dropped
                       /\ \/ o.inserted
                          \/ row'[o.new] # NoRow /\ row'[o.new].by = o.file
      <3>1. SUFFICES ASSUME Moving(s), ~o.inserted
                     PROVE  row'[o.new] # NoRow /\ row'[o.new].by = o.file
        BY <2>1, <2>2 DEF Fits
      <3>2. row[o.new] # NoRow /\ row[o.new].by = o.file
        BY <2>1, <2>2, <3>1 DEF Fits, RowIs
      <3>3. ~(q.inserted /\ o.new = q.new)
        BY <1>3, <3>2
      <3> QED
        BY <1>7, <2>3, <2>5, <3>1, <3>2, <3>3
    <2>9. ~At(s, "done") => \A c \in Contents : row'[c].by # s
      <3>1. s # NoRequest
        BY SettingsAssumption DEF Requests, NoRequest
      <3>2. ~At(s, "done") => \A c \in Contents : row[c].by # s
        BY <2>1 DEF Fits
      <3> QED
        BY <1>7, <3>1, <3>2 DEF NoRow
    <2>10. /\ req'[s] = o /\ (Moving(s)' <=> Moving(s)) /\ (At(s, "done")' <=> At(s, "done"))
      BY <1>13, <2>2 DEF Moving, Flushed, At
    <2>11. Linked(o) /\ o.op = "replace" /\ o.old = {o.new} => o.was[o.new].by # o.file
      BY <2>1, <2>2 DEF Fits
    <2> QED
      BY <2>6, <2>7, <2>8, <2>9, <2>10, <2>11 DEF Fits, RowIs
  <1>16. Fits(r)'
    BY <1>13, ReadyShaped DEF Fits, Moving, Flushed, Linked, At
  <1>17. ASSUME NEW s \in Requests, NEW o \in Requests, s # o PROVE LockedOut(s, o)'
    <2>1. LockedOut(s, o)
      BY <1>17 DEF FilesInv, RequestsInv
    <2> QED
      BY <1>13, <1>17, <2>1, ReadyShaped DEF LockedOut, Moving, Flushed
  <1> QED
    BY <1>12, <1>13, <1>14, <1>15, <1>16, <1>17, ReadyShaped DEF FilesInv, RequestsInv

LEMMA CommitStep ==
  ASSUME FilesInv, NEW r \in Requests, Commit(r)
  PROVE  FilesInv'
  <1>1. Runs(r, "commit") /\ End(r) /\ UNCHANGED <<object, temp, setting>>
    BY DEF Commit, Abort
  <1>2. CASE UNCHANGED <<tables, fin>>
    <2>1. UNCHANGED tables /\ AllTables'
      BY <1>1, <1>2 DEF FilesInv, AllTables, tables
    <2> QED
      BY <1>1, <2>1, AbortStep
  <1>3. CASE /\ Commits(r) /\ Committed(r)
             /\ fin' = IF Deferred /\ req[r].inserted
                       THEN [fin EXCEPT ![r] = [stage |-> "queued", file |-> req[r].new]]
                       ELSE fin
    <2>1. /\ fin \in [Requests -> Finalizer]
          /\ \A s \in Requests : fin[s].stage # "none" => fin[s].file \in Contents
      BY DEF FilesInv, AllTables
    <2>2. req[r].inserted => req[r].new \in Contents
      BY <1>1 DEF FilesInv, RequestsInv, Shape, Runs, At
    <2>3. PICK f : f = [stage |-> "queued", file |-> req[r].new]
      OBVIOUS
    <2>4. req[r].inserted => f \in Finalizer /\ f.file \in Contents
      BY <2>2, <2>3 DEF Finalizer
    <2>5. \/ fin' = fin
          \/ req[r].inserted /\ fin' = [fin EXCEPT ![r] = f]
      BY <1>3, <2>3
    <2>6. /\ fin' \in [Requests -> Finalizer]
          /\ \A s \in Requests : fin'[s].stage # "none" => fin'[s].file \in Contents
      BY <2>1, <2>4, <2>5
    <2> QED
      BY <1>1, <1>3, <2>6, CommittedStep
  <1> QED
    BY <1>2, <1>3 DEF Commit

LEMMA VictimStep ==
  ASSUME FilesInv, NEW r \in Requests, DeadlockVictim(r)
  PROVE  FilesInv'
  <1>1. End(r) /\ UNCHANGED <<tables, object, temp, fin, setting>>
    BY DEF DeadlockVictim, Abort
  <1>2. UNCHANGED tables /\ AllTables'
    BY <1>1 DEF FilesInv, AllTables, tables
  <1> QED
    BY <1>1, <1>2, AbortStep

-----------------------------------------------------------------------------
(* The background task and the death of the process.                       *)

\* A step that leaves every row there or not there, and its upload, as it was.
LEMMA RowsStay ==
  ASSUME FilesInv, UNCHANGED <<doc, link, req>>, AllTables',
         \A c \in Contents : row'[c].by = row[c].by /\ (row'[c] = NoRow <=> row[c] = NoRow)
  PROVE  FilesInv'
  <1>1. ASSUME NEW r \in Requests PROVE Shape(req[r])' /\ Fits(r)'
    <2>1. /\ req[r] \in Request /\ Shape(req[r]) /\ Fits(r)
      BY DEF FilesInv, RequestsInv
    <2>2. /\ req[r].dropped \in SUBSET Contents
          /\ req[r].inserted \/ Moving(r) => req[r].new \in Contents
      <3>1. req[r].inserted => /\ req[r].pc \notin {"ready", "done"}
                               /\ req[r].op \in {"add", "replace"}
        BY <2>1, ReadyShaped DEF Shape
      <3> QED
        BY <2>1, <3>1 DEF Shape, Request, Moving, Flushed
    <2>3. Moving(r)' <=> Moving(r)
      BY DEF Moving, Flushed
    <2>4. /\ \A c \in req[r].dropped :
               /\ RowIs(c, req[r].was[c].by)'
               /\ \A d \in Docs : (<<d, c>> \in link => d = req[r].doc)'
          /\ (req[r].inserted => row[req[r].new] = NoRow)'
          /\ Moving(r) => (req[r].inserted \/ RowIs(req[r].new, req[r].file))'
      BY <2>1, <2>2 DEF Fits, RowIs
    <2> QED
      BY <2>1, <2>3, <2>4 DEF Fits, RowIs, At, Shape
  <1>2. ASSUME NEW r \in Requests, NEW s \in Requests, r # s PROVE LockedOut(r, s)'
    <2>1. LockedOut(r, s)
      BY <1>2 DEF FilesInv, RequestsInv
    <2> QED
      BY <2>1 DEF LockedOut, Moving, Flushed
  <1>3. ReferencesHold'
    BY DEF FilesInv, ReferencesHold, LinksOf
  <1>4. (req \in [Requests -> Request])'
    BY DEF FilesInv, RequestsInv
  <1> QED
    BY <1>1, <1>2, <1>3, <1>4 DEF FilesInv, RequestsInv

LEMMA TaskRun ==
  ASSUME AllTables, NEW r \in Requests,
         NEW f \in Finalizer, fin' = [fin EXCEPT ![r] = f],
         f.stage # "none" => f.file \in Contents
  PROVE  /\ fin' \in [Requests -> Finalizer]
         /\ \A s \in Requests : fin'[s].stage # "none" => fin'[s].file \in Contents
  BY DEF AllTables

LEMMA TaskStep ==
  ASSUME FilesInv, NEW r \in Requests, FinalizerStep(r)
  PROVE  FilesInv'
  <1>1. AllTables /\ r # NoRequest
    BY SettingsAssumption DEF FilesInv, Requests, NoRequest
  <1>2. PICK f \in Finalizer : f = fin[r] /\ (f.stage # "none" => f.file \in Contents)
    BY <1>1 DEF AllTables
  <1>3. ASSUME NEW stage \in {"mark", "fail", "unlink"}, f.stage # "none",
               fin' = [fin EXCEPT ![r].stage = stage]
        PROVE  /\ fin' \in [Requests -> Finalizer]
               /\ \A s \in Requests : fin'[s].stage # "none" => fin'[s].file \in Contents
    <2>1. PICK g : g = [f EXCEPT !.stage = stage]
      OBVIOUS
    <2>2. g \in Finalizer /\ g.file = f.file
      BY <2>1 DEF Finalizer
    <2>3. fin' = [fin EXCEPT ![r] = g]
      BY <1>2, <1>3, <2>1
    <2> QED
      BY <1>1, <1>2, <1>3, <2>2, <2>3, TaskRun
  <1>4. ASSUME fin' = [fin EXCEPT ![r] = NoTask]
        PROVE  /\ fin' \in [Requests -> Finalizer]
               /\ \A s \in Requests : fin'[s].stage # "none" => fin'[s].file \in Contents
    <2>1. NoTask \in Finalizer /\ NoTask.stage = "none"
      BY DEF NoTask, Finalizer
    <2> QED
      BY <1>1, <1>4, <2>1, TaskRun
  <1>5. ASSUME NEW state \in {"stored", "failed"}, SetStorageState(r, state), f.file \in Contents
        PROVE  /\ row' \in [Contents -> FileRow]
               /\ \A c \in Contents :
                    row'[c].by = row[c].by /\ (row'[c] = NoRow <=> row[c] = NoRow)
    <2>1. CASE RowIs(f.file, r)
      <3>1. PICK o \in FileRow : o = row[f.file]
        BY <1>1, <1>5 DEF AllTables
      <3>2. PICK n : n = [o EXCEPT !.state = state]
        OBVIOUS
      <3>3. n \in FileRow /\ n.by = o.by
        BY <3>2 DEF FileRow
      <3>4. row' = [row EXCEPT ![f.file] = n]
        BY <1>2, <1>5, <2>1, <3>1, <3>2 DEF SetStorageState
      <3>5. o # NoRow /\ o.by = r /\ n # NoRow
        BY <1>1, <2>1, <3>1, <3>3 DEF RowIs, NoRow
      <3> QED
        BY <1>1, <1>5, <3>1, <3>3, <3>4, <3>5 DEF AllTables
    <2>2. CASE ~RowIs(f.file, r)
      BY <1>1, <1>2, <1>5, <2>2 DEF SetStorageState, AllTables
    <2> QED
      BY <2>1, <2>2
  <1>6. CASE FinPut(r)
    <2>1. f.stage # "none" /\ UNCHANGED <<tables, temp, req>>
      BY <1>2, <1>6 DEF FinPut, InStage
    <2>2. object' \in SUBSET Contents
      BY <1>1, <1>2, <1>6, <2>1 DEF FinPut, AllTables
    <2>3. setting' \in Setting
      <3>1. CASE UNCHANGED setting
        BY <1>1, <3>1 DEF AllTables
      <3>2. CASE setting.put > 0 /\ setting' = [setting EXCEPT !.put = @ - 1]
        <4>1. setting \in Setting
          BY <1>1 DEF AllTables
        <4>2. PICK put \in Nat : put = setting.put - 1
          BY <3>2, <4>1 DEF Setting
        <4> QED
          BY <3>2, <4>1, <4>2 DEF Setting
      <3> QED
        BY <1>6, <3>1, <3>2 DEF FinPut
    <2>4. /\ fin' \in [Requests -> Finalizer]
          /\ \A s \in Requests : fin'[s].stage # "none" => fin'[s].file \in Contents
      BY <1>3, <1>6, <2>1 DEF FinPut
    <2>5. AllTables'
      BY <1>1, <2>1, <2>2, <2>3, <2>4 DEF AllTables, tables
    <2> QED
      BY <2>1, <2>5, RowsStay DEF tables
  <1>7. CASE FinMark(r)
    <2>1. f.stage # "none" /\ f.file \in Contents
      BY <1>2, <1>7 DEF FinMark, InStage
    <2>2. /\ fin' \in [Requests -> Finalizer]
          /\ \A s \in Requests : fin'[s].stage # "none" => fin'[s].file \in Contents
      BY <1>3, <1>7, <2>1 DEF FinMark
    <2>3. /\ row' \in [Contents -> FileRow]
          /\ \A c \in Contents :
               row'[c].by = row[c].by /\ (row'[c] = NoRow <=> row[c] = NoRow)
      BY <1>5, <1>7, <2>1 DEF FinMark
    <2>4. UNCHANGED <<doc, link, object, temp, req, setting>>
      BY <1>7 DEF FinMark
    <2>5. AllTables'
      BY <1>1, <2>2, <2>3, <2>4 DEF AllTables
    <2> QED
      BY <2>3, <2>4, <2>5, RowsStay
  <1>8. CASE FinUnlink(r)
    <2>1. UNCHANGED <<tables, object, req, setting>> /\ temp' \in SUBSET Requests
      BY <1>1, <1>8 DEF FinUnlink, AllTables
    <2>2. /\ fin' \in [Requests -> Finalizer]
          /\ \A s \in Requests : fin'[s].stage # "none" => fin'[s].file \in Contents
      BY <1>4, <1>8 DEF FinUnlink
    <2>3. AllTables'
      BY <1>1, <2>1, <2>2 DEF AllTables, tables
    <2> QED
      BY <2>1, <2>3, RowsStay DEF tables
  <1>9. CASE FinFail(r)
    <2>1. f.stage # "none" /\ f.file \in Contents
      BY <1>2, <1>9 DEF FinFail, InStage
    <2>2. /\ fin' \in [Requests -> Finalizer]
          /\ \A s \in Requests : fin'[s].stage # "none" => fin'[s].file \in Contents
      BY <1>4, <1>9 DEF FinFail
    <2>3. /\ row' \in [Contents -> FileRow]
          /\ \A c \in Contents :
               row'[c].by = row[c].by /\ (row'[c] = NoRow <=> row[c] = NoRow)
      BY <1>5, <1>9, <2>1 DEF FinFail
    <2>4. UNCHANGED <<doc, link, object, temp, req, setting>>
      BY <1>9 DEF FinFail
    <2>5. AllTables'
      BY <1>1, <2>2, <2>3, <2>4 DEF AllTables
    <2> QED
      BY <2>3, <2>4, <2>5, RowsStay
  <1> QED
    BY <1>6, <1>7, <1>8, <1>9 DEF FinalizerStep

\* Every transaction in progress is rolled back, and what it had flushed with it.
LEMMA CrashStep ==
  ASSUME FilesInv, Crash
  PROVE  FilesInv'
  <1>1. AllTables /\ UNCHANGED <<tables, object>> /\ UNCHANGED <<doc, link, row>>
    BY DEF FilesInv, Crash, tables
  <1>2. setting' \in Setting
    <2>1. setting \in Setting
      BY <1>1 DEF AllTables
    <2>2. PICK crash \in Nat : crash = setting.crash - 1
      BY <2>1 DEF Crash, Setting
    <2> QED
      BY <2>1, <2>2 DEF Crash, Setting
  <1>3. /\ fin' \in [Requests -> Finalizer]
        /\ \A r \in Requests : fin'[r].stage = "none"
    BY DEF Crash, NoTask, Finalizer
  <1>4. AllTables'
    BY <1>1, <1>2, <1>3 DEF Crash, AllTables
  <1>5. /\ req' \in [Requests -> Request]
        /\ \A r \in Requests : req'[r] = Done \/ (req'[r] = req[r] /\ ~Active(r))
    BY ReadyShaped DEF FilesInv, RequestsInv, Crash
  <1>6. ASSUME NEW r \in Requests
        PROVE  /\ Shape(req'[r]) /\ req'[r].dropped = {} /\ ~req'[r].inserted
               /\ ~Moving(r)' /\ ~Linked(req'[r])
               /\ ~At(r, "done")' => ~At(r, "done")
    <2>1. CASE req'[r] = Done
      BY <2>1, ReadyShaped DEF Moving, Flushed, Linked, At
    <2>2. CASE req'[r] = req[r] /\ ~Active(r)
      <3>1. req[r] = Ready \/ req[r] = Done
        BY <2>2 DEF FilesInv, RequestsInv, Shape, Active
      <3> QED
        BY <2>2, <3>1, ReadyShaped DEF Moving, Flushed, Linked, At
    <2> QED
      BY <1>5, <2>1, <2>2
  <1>7. ASSUME NEW r \in Requests PROVE Fits(r)'
    <2>1. ~At(r, "done") => \A c \in Contents : row[c].by # r
      BY DEF FilesInv, RequestsInv, Fits
    <2> QED
      BY <1>1, <1>6, <2>1 DEF Fits
  <1>8. \A r, s \in Requests : LockedOut(r, s)'
    BY <1>6 DEF LockedOut
  <1>9. ReferencesHold'
    BY <1>1 DEF FilesInv, ReferencesHold, LinksOf
  <1> QED
    BY <1>4, <1>5, <1>6, <1>7, <1>8, <1>9 DEF FilesInv, RequestsInv

-----------------------------------------------------------------------------
(* Theorems.                                                               *)

LEMMA FilesInductive == FilesInv /\ [Next]_vars => FilesInv'
  <1> SUFFICES ASSUME FilesInv, [Next]_vars PROVE FilesInv'
    OBVIOUS
  <1>1. ASSUME NEW r \in Requests, Call(r) PROVE FilesInv'
    BY <1>1, BeginStep
  <1>2. ASSUME NEW r \in Requests, RequestStep(r) PROVE FilesInv'
    BY <1>2, LookupStep, PutNowStep, InsertStep, FlushStep, CleanupStep, DropRowStep,
       CommitStep, VictimStep DEF RequestStep
  <1>3. ASSUME NEW r \in Requests, FinalizerStep(r) PROVE FilesInv'
    BY <1>3, TaskStep
  <1>4. CASE Crash
    BY <1>4, CrashStep
  <1>5. CASE UNCHANGED vars
    BY <1>5 DEF vars, FilesInv, AllTables, RequestsInv, ReferencesHold, LinksOf, Shape, Fits,
       LockedOut, Moving, Flushed, Linked, RowIs, At
  <1> QED
    BY <1>1, <1>2, <1>3, <1>4, <1>5 DEF Next

\* Every table, process record and bound keeps its type, whatever requests,
\* background tasks and crashes do.
THEOREM FilesTypeCorrect == Spec => []TypeOK
  <1>1. FilesInv => TypeOK
    BY DEF FilesInv, AllTables, RequestsInv, TypeOK
  <1> QED
    BY <1>1, FilesInitially, FilesInductive, PTL DEF Spec

\* A link names a document and a files row that are there: the locks of flushed
\* statements keep a row that one request deletes from being linked by another.
THEOREM ReferencesAlwaysHold == Spec => []ReferencesHold
  <1>1. FilesInv => ReferencesHold
    BY DEF FilesInv
  <1> QED
    BY <1>1, FilesInitially, FilesInductive, PTL DEF Spec

-----------------------------------------------------------------------------
(* Attachments: the invariant of harmless calls, which come one at a time  *)
(* (Solo) or only add and edit (Adding).                                   *)

Solo == setting.active = 1
Adding == setting.ops \subseteq {"add", "edit"}

\* A file that a request has removed and whose row it has deleted or will delete.
Goes(r, c) == c \in req[r].dropped \/ (At(r, "drop") /\ c = req[r].cur)

\* A request that is alone finds the tables as it has read them: its last flush
\* will be accepted, and what it takes from the stores is the file of its own link
\* alone.
AsRead(r) ==
    /\ doc[req[r].doc].live /\ doc[req[r].doc].version = req[r].version
    /\ \A c \in req[r].old : <<req[r].doc, c>> \in link
    /\ req[r].op = "delete" => LinksOf(req[r].doc) \subseteq req[r].old
    /\ \A c \in Contents :
         /\ row[c].by = req[r].was[c].by
         /\ req[r].was[c].state = "stored" => row[c].state = "stored"
         /\ ~Deferred => req[r].was[c].state # "pending"
    /\ Linked(req[r]) /\ req[r].op \in {"add", "replace"} =>
         req[r].inserted \/ RowIs(req[r].new, req[r].file)
    /\ req[r].pc \in {"lookup", "put", "insert", "flush"} => req[r].todo = req[r].old
    /\ r \in temp => req[r].inserted /\ Deferred
    /\ \A c \in Contents : Goes(r, c) =>
         /\ \A d \in Docs : <<d, c>> \in link => d = req[r].doc
         /\ row[c].state = "stored" \/ row[c].by \notin temp
         /\ ~Deferred => c \notin object
    /\ Flushed(r) =>
         \A c \in req[r].old :
           \/ Goes(r, c) \/ (req[r].pc # "commit" /\ c \in req[r].todo)
           \/ \E d \in Docs \ {req[r].doc} : <<d, c>> \in link

Lone(r) == Solo /\ Active(r) => AsRead(r) /\ \A s \in Requests \ {r} : ~Active(s)

Adds(r) == Adding => req[r].op \in {"add", "edit"} /\ req[r].old = {}

\* What a request will insert can be read by then.
Brought(r) ==
    /\ req[r].inserted => IF Deferred THEN r \in temp ELSE req[r].new \in object
    /\ At(r, "insert") /\ ~Deferred => req[r].new \in object
    /\ At(r, "put") => ~Deferred

\* A background upload has the row of its request only, which is pending until it
\* is marked.
TaskFits(r) ==
    fin[r].stage # "none" =>
      /\ Deferred /\ At(r, "done")
      /\ \A c \in Contents : RowIs(c, r) =>
           /\ c = fin[r].file
           /\ row[c].state = IF InStage(r, "unlink") THEN "stored" ELSE "pending"
           /\ InStage(r, "mark") => c \in object \/ \E s \in Requests : Goes(s, c)
      /\ Solo /\ ~InStage(r, "unlink") /\ r \in temp => RowIs(fin[r].file, r)

RowKept(c) ==
    row[c] # NoRow =>
      /\ Readable(c) \/ \E r \in Requests : Goes(r, c)
      /\ \E d \in Docs : <<d, c>> \in link
      /\ row[c].by \in Requests
      /\ \A e \in Contents : row[e].by = row[c].by => e = c
      /\ ~Deferred => row[c].state # "pending"

TempHeld(u) ==
    \/ Active(u) \/ fin[u].stage # "none"
    \/ \E c \in Contents : RowIs(c, u) /\ row[c].state # "stored"

ObjectHeld(c) ==
    \/ row[c] # NoRow
    \/ \E r \in Requests : /\ req[r].pc \in {"insert", "flush", "cleanup", "drop", "commit"}
                           /\ req[r].new = c

NoFaults == setting.remove = 0 /\ setting.crash = 0

Kept ==
    /\ NoFaults
    /\ \A r \in Requests : Lone(r) /\ Adds(r) /\ Brought(r) /\ TaskFits(r)
    /\ \A c \in Contents : RowKept(c)
    /\ Solo => \A u \in temp : TempHeld(u)
    /\ Solo /\ ~Deferred => \A c \in object : ObjectHeld(c)

-----------------------------------------------------------------------------
(* Requests and their tables.                                              *)

\* The settings that say what kind of behaviour this is.
SameRun ==
    /\ setting'.active = setting.active /\ setting'.ops = setting.ops
    /\ setting'.backend = setting.backend /\ setting'.lossy = setting.lossy

LEMMA RunStays ==
  ASSUME AllTables, [Next]_vars
  PROVE  SameRun
  <1>1. CASE setting' = setting
    BY <1>1 DEF SameRun
  <1>2. CASE setting' = [setting EXCEPT !.put = @ - 1]
    BY <1>2 DEF SameRun, AllTables, Setting
  <1>3. CASE setting' = [setting EXCEPT !.remove = @ - 1]
    BY <1>3 DEF SameRun, AllTables, Setting
  <1>4. CASE setting' = [setting EXCEPT !.crash = @ - 1]
    BY <1>4 DEF SameRun, AllTables, Setting
  <1>5. ASSUME NEW r \in Requests, Call(r) PROVE setting' = setting
    BY ZenonT(60), <1>5 DEF Call, BeginAdd, BeginReplace, BeginDetach, BeginDelete, BeginEdit, Begin
  <1>6. ASSUME NEW r \in Requests, RequestStep(r)
        PROVE  \/ setting' = setting
               \/ setting' = [setting EXCEPT !.put = @ - 1]
               \/ setting' = [setting EXCEPT !.remove = @ - 1]
    BY ZenonT(60), <1>6 DEF RequestStep, Lookup, PutNow, Insert, Flush, Cleanup, DropRow, Commit,
       DeadlockVictim
  <1>7. ASSUME NEW r \in Requests, FinalizerStep(r)
        PROVE  setting' = setting \/ setting' = [setting EXCEPT !.put = @ - 1]
    BY <1>7 DEF FinalizerStep, FinPut, FinMark, FinUnlink, FinFail
  <1> QED
    BY <1>1, <1>2, <1>3, <1>4, <1>5, <1>6, <1>7 DEF Next, Crash, vars

LEMMA KeptInitially == Init /\ Harmless => Kept
  <1> SUFFICES ASSUME Init, Harmless PROVE Kept
    OBVIOUS
  <1>1. /\ setting \in Setting /\ setting.remove = 0 /\ setting.crash = 0
    BY SettingsAssumption DEF Init, Harmless, Setting
  <1>2. \A r \in Requests : req[r] = Ready /\ fin[r] = NoTask
    BY DEF Init
  <1>3. /\ Ready.pc = "ready" /\ Ready.op = "edit" /\ Ready.old = {} /\ ~Ready.inserted
    BY DEF Ready
  <1>4. \A r \in Requests : Lone(r) /\ Adds(r) /\ Brought(r)
    BY <1>2, <1>3 DEF Lone, Active, Adds, Brought, At
  <1>5. \A r \in Requests : TaskFits(r)
    BY <1>2 DEF TaskFits, NoTask
  <1>6. \A c \in Contents : RowKept(c)
    BY DEF RowKept, Init
  <1>7. temp = {} /\ object = {}
    BY DEF Init
  <1> QED
    BY <1>1, <1>4, <1>5, <1>6, <1>7 DEF Kept, NoFaults

\* Whoever is alone finds nothing that another request has flushed.
LEMMA OthersRest ==
  ASSUME FilesInv, NEW s \in Requests, ~Active(s)
  PROVE  /\ req[s] = Ready \/ req[s] = Done
         /\ req[s].dropped = {} /\ ~req[s].inserted /\ ~Flushed(s)
         /\ ~At(s, "drop") /\ ~At(s, "put") /\ ~At(s, "insert")
         /\ \A c \in Contents : ~Goes(s, c)
  <1>1. req[s] = Ready \/ req[s] = Done
    BY DEF FilesInv, RequestsInv, Shape, Active
  <1> QED
    BY <1>1, ReadyShaped DEF Flushed, At, Goes

LEMMA NobodyToWaitFor ==
  ASSUME FilesInv, NEW r \in Requests, \A s \in Requests \ {r} : ~Active(s)
  PROVE  WaitsFor(r) = {}
  <1>1. \A s \in Requests \ {r} : /\ req[s].dropped = {} /\ ~req[s].inserted
                                  /\ ~Flushed(s)
    BY OthersRest
  <1> QED
    BY <1>1 DEF WaitsFor, SharesRow

\* While documents only gain files, nothing goes.
LEMMA AddingKeepsFiles ==
  ASSUME FilesInv, Kept, Adding, NEW r \in Requests
  PROVE  /\ req[r].op \in {"add", "edit"} /\ req[r].old = {}
         /\ \A c \in Contents : ~Goes(r, c)
         /\ req[r].pc \notin {"flush", "cleanup", "drop"}
  <1>1. req[r].op \in {"add", "edit"} /\ req[r].old = {}
    BY DEF Kept, Adds
  <1>2. Shape(req[r])
    BY DEF FilesInv, RequestsInv
  <1> QED
    BY <1>1, <1>2 DEF Shape, Goes, At

\* A request that does not look for rows to remove goes on, or begins; no row is
\* committed, and the stores only gain what it brings.
LEMMA KeptMove ==
  ASSUME FilesInv, FilesInv', SameRun, Kept, NEW r \in Requests, NEW q \in Request,
         Step(r, q), UNCHANGED <<tables, fin>>, NoFaults', ~At(r, "done"),
         Lone(r)', Adds(r)', Brought(r)',
         temp \subseteq temp', object \subseteq object', temp' \subseteq temp \cup {r},
         \A c \in Contents : Goes(r, c)' <=> Goes(r, c),
         Solo => /\ r \in temp' => Active(r)'
                 /\ \A s \in Requests \ {r} : ~Active(s),
         Solo /\ ~Deferred => \A c \in object' : ObjectHeld(c)'
  PROVE  Kept'
  <1>1. /\ req'[r] = q /\ \A s \in Requests \ {r} : req'[s] = req[s]
    BY StepRun DEF FilesInv
  <1>2. /\ Solo' <=> Solo
        /\ Adding' <=> Adding
        /\ Deferred' <=> Deferred
    BY DEF SameRun, Solo, Adding, Deferred
  <1>3. UNCHANGED <<doc, link, row, fin>>
    BY DEF tables
  <1>4. \A s \in Requests, c \in Contents : Goes(s, c)' <=> Goes(s, c)
    BY <1>1 DEF Goes, At
  <1>5. ASSUME NEW s \in Requests \ {r}
        PROVE  Lone(s)' /\ Adds(s)' /\ Brought(s)' /\ TaskFits(s)'
    <2>1. Lone(s) /\ Adds(s) /\ Brought(s) /\ TaskFits(s)
      BY DEF Kept
    <2>2. Lone(s)'
      BY <1>1, <1>2 DEF Lone, Active
    <2>3. Adds(s)'
      BY <1>1, <1>2, <2>1 DEF Adds
    <2>4. Brought(s)'
      BY <1>1, <1>2, <2>1 DEF Brought, At
    <2>5. TaskFits(s)'
      BY <1>1, <1>2, <1>3, <1>4, <2>1 DEF TaskFits, At, InStage, RowIs
    <2> QED
      BY <2>2, <2>3, <2>4, <2>5
  <1>6. TaskFits(r)'
    BY <1>3 DEF Kept, TaskFits
  <1>7. ASSUME NEW c \in Contents PROVE RowKept(c)'
    <2>1. RowKept(c)
      BY DEF Kept
    <2>2. Readable(c) => Readable(c)'
      BY <1>3 DEF Readable
    <2> QED
      BY <1>2, <1>3, <1>4, <2>1, <2>2 DEF RowKept
  <1>8. ASSUME Solo, NEW u \in temp' PROVE TempHeld(u)'
    <2>1. CASE u = r
      BY <1>8, <2>1 DEF TempHeld
    <2>2. CASE u # r
      <3>1. u \in Requests \ {r} /\ TempHeld(u)
        BY <1>8, <2>2 DEF Kept, FilesInv, AllTables
      <3> QED
        BY <1>1, <1>3, <3>1 DEF TempHeld, Active, RowIs
    <2> QED
      BY <2>1, <2>2
  <1> QED
    BY <1>2, <1>5, <1>6, <1>7, <1>8 DEF Kept

LEMMA HeldByTheOne ==
  ASSUME FilesInv, Kept, Solo, ~Deferred, NEW r \in Requests,
         \A s \in Requests \ {r} : ~Active(s), NEW c \in object
  PROVE  \/ row[c] # NoRow
         \/ /\ req[r].pc \in {"insert", "flush", "cleanup", "drop", "commit"}
            /\ req[r].new = c
  BY DEF Kept, ObjectHeld, Active

LEMMA KeptBegin ==
  ASSUME FilesInv, FilesInv', SameRun, Kept, NEW r \in Requests, Call(r)
  PROVE  Kept'
  <1>1. PICK op \in Operations, d \in Docs, old \in SUBSET Contents,
             new \in Contents \cup {NoContent} :
          /\ Begin(r, op, d, old, new)
          /\ op \in {"add", "edit"} => old = {}
          /\ \A c \in old : <<d, c>> \in link
          /\ op = "delete" => LinksOf(d) \subseteq old
    <2>1. \A e \in Docs : LinksOf(e) \in SUBSET Contents
      BY DEF LinksOf
    <2>2. \A e \in Docs : \A c \in LinksOf(e) : <<e, c>> \in link
      BY DEF LinksOf
    <2>3. ASSUME NEW d \in Docs, NEW old \in Contents, NEW c \in Contents,
                 \/ BeginAdd(r, d, c) \/ BeginReplace(r, d, old, c)
                 \/ BeginDetach(r, d, c)
          PROVE  \E op \in Operations, o \in SUBSET Contents, n \in Contents \cup {NoContent} :
                   /\ Begin(r, op, d, o, n)
                   /\ op \in {"add", "edit"} => o = {}
                   /\ \A e \in o : <<d, e>> \in link
                   /\ op # "delete"
      BY <2>3 DEF BeginAdd, BeginReplace, BeginDetach, Operations
    <2>4. CASE \E d \in Docs, old, c \in Contents :
                 \/ BeginAdd(r, d, c) \/ BeginReplace(r, d, old, c)
                 \/ BeginDetach(r, d, c)
      <3>1. PICK d \in Docs, old \in Contents, c \in Contents :
                 \/ BeginAdd(r, d, c) \/ BeginReplace(r, d, old, c)
                 \/ BeginDetach(r, d, c)
        BY <2>4
      <3> QED
        BY <2>3, <3>1
    <2>5. CASE \E d \in Docs : BeginEdit(r, d)
      BY <2>5 DEF BeginEdit, Operations
    <2>6. CASE \E d \in Docs : BeginDelete(r, d)
      BY <2>1, <2>2, <2>6 DEF BeginDelete, Operations
    <2> QED
      BY <2>4, <2>5, <2>6 DEF Call
  <1>2. PICK pc : pc = CASE op \in {"add", "replace"} -> "lookup"
                         [] op \in {"detach", "delete"} -> "flush"
                         [] op = "edit" -> "commit"
    OBVIOUS
  <1>3. /\ op \in {"add", "replace"} => pc = "lookup"
        /\ op \in {"detach", "delete"} => pc = "flush"
        /\ op = "edit" => pc = "commit"
    BY <1>2
  <1>4. PICK q : q = [Ready EXCEPT !.pc = pc, !.op = op, !.doc = d, !.old = old,
                        !.todo = old, !.new = new, !.version = doc[d].version,
                        !.was = row, !.linked = <<d, new>> \in link]
    OBVIOUS
  <1>5. /\ q.pc = pc /\ q.op = op /\ q.doc = d /\ q.old = old /\ q.todo = old
        /\ q.version = doc[d].version /\ q.was = row /\ q.dropped = {} /\ ~q.inserted
    BY <1>4 DEF Ready
  <1>6. /\ Step(r, q) /\ UNCHANGED <<tables, object, temp, fin, setting>> /\ At(r, "ready")
        /\ op \in setting.ops /\ doc[d].live
        /\ Cardinality({s \in Requests : Active(s)}) < setting.active
    BY <1>1, <1>2, <1>4 DEF Begin
  <1>7. req'[r] = q /\ q \in Request
    <2>1. req \in [Requests -> Request] /\ req' \in [Requests -> Request]
      BY DEF FilesInv, RequestsInv
    <2>2. req'[r] = q
      BY <1>6, <2>1 DEF Step
    <2> QED
      BY <2>1, <2>2
  <1>8. /\ Solo' <=> Solo
        /\ Adding' <=> Adding
        /\ Deferred' <=> Deferred
    BY DEF SameRun, Solo, Adding, Deferred
  <1>9. ASSUME Solo PROVE \A s \in Requests : ~Active(s)
    <2>1. PICK S : S = {s \in Requests : Active(s)}
      OBVIOUS
    <2>2. IsFiniteSet(S)
      <3>1. IsFiniteSet(Requests)
        BY SettingsAssumption, FS_Interval DEF Requests
      <3> QED
        BY <2>1, <3>1, FS_Subset
    <2>3. Cardinality(S) = 0
      BY <1>6, <1>9, <2>1, <2>2, FS_CardinalityType DEF Solo
    <2> QED
      BY <2>1, <2>2, <2>3, FS_EmptySet
  <1>10. UNCHANGED <<doc, link, row, temp, object>>
    BY <1>6 DEF tables
  <1>11. pc # "drop" /\ ~At(r, "drop") /\ ~At(r, "done") /\ req[r].dropped = {}
    <2>1. req[r] = Ready
      BY <1>6 DEF FilesInv, RequestsInv, Shape, At
    <2> QED
      BY <1>3, <2>1, ReadyShaped DEF At, Operations
  <1>12. \A c \in Contents : ~Goes(r, c)' /\ ~Goes(r, c)
    BY <1>5, <1>7, <1>11 DEF Goes, At
  <1>13. Lone(r)'
    <2> SUFFICES ASSUME Solo PROVE AsRead(r)' /\ \A s \in Requests \ {r} : ~Active(s)'
      BY <1>8 DEF Lone
    <2>1. r \notin temp
      <3>1. \A c \in Contents : ~RowIs(c, r)
        BY <1>6 DEF FilesInv, RequestsInv, Fits, RowIs, At
      <3>2. fin[r].stage = "none"
        BY <1>6 DEF Kept, TaskFits, At
      <3> QED
        BY <1>9, <3>1, <3>2 DEF Kept, TempHeld
    <2>2. \A c \in Contents : ~Deferred => row[c].state # "pending"
      <3>1. NoRow.state # "pending"
        BY DEF NoRow
      <3> QED
        BY <3>1 DEF Kept, RowKept
    <2>3. ~Flushed(r)'
      BY <1>1, <1>3, <1>5, <1>7 DEF Flushed, Operations
    <2>4. ~(Linked(q) /\ q.op \in {"add", "replace"})
      BY <1>3, <1>5 DEF Linked
    <2>5. LinksOf(d)' = LinksOf(d)
      BY <1>10 DEF LinksOf
    <2>6. AsRead(r)'
      BY <1>1, <1>5, <1>6, <1>7, <1>8, <1>10, <1>12, <2>1, <2>2, <2>3, <2>4, <2>5 DEF AsRead
    <2>7. \A s \in Requests \ {r} : req'[s] = req[s]
      BY <1>6, <1>7, StepRun DEF FilesInv
    <2> QED
      BY <1>9, <2>6, <2>7 DEF Active
  <1>14. Adds(r)'
    BY <1>1, <1>5, <1>6, <1>7, <1>8 DEF Adds, Adding
  <1>15. Brought(r)'
    BY <1>3, <1>5, <1>7 DEF Brought, At, Operations
  <1>16. NoFaults'
    BY <1>6 DEF Kept, NoFaults
  <1>17. ASSUME Solo, ~Deferred, NEW c \in object' PROVE ObjectHeld(c)'
    <2>1. row[c] # NoRow
      BY <1>9, <1>10, <1>17, <1>6, HeldByTheOne DEF At
    <2> QED
      BY <1>10, <2>1 DEF ObjectHeld
  <1>18. Solo => (r \in temp' => Active(r)')
    BY <1>3, <1>5, <1>7 DEF Active, Operations
  <1>19. UNCHANGED <<tables, fin>>
    BY <1>6
  <1> QED
    BY <1>6, <1>7, <1>9, <1>10, <1>11, <1>12, <1>13, <1>14, <1>15, <1>16, <1>17, <1>18,
       <1>19, KeptMove

LEMMA KeptLinking ==
  ASSUME FilesInv, FilesInv', SameRun, Kept, NEW r \in Requests,
         NEW upload \in Requests \cup {NoRequest}, Linking(r, upload),
         UNCHANGED <<tables, object, fin, setting>>,
         \/ /\ At(r, "insert") /\ upload = r /\ row[req[r].new] = NoRow
            /\ temp' = IF Deferred THEN temp \cup {r} ELSE temp
         \/ /\ At(r, "lookup") /\ upload # r /\ RowIs(req[r].new, upload)
            /\ temp' = temp
  PROVE  Kept'
  <1>1. /\ req[r] \in Request /\ Shape(req[r]) /\ Fits(r) /\ Active(r)
        /\ req[r].doc \in Docs /\ req[r].op \in {"add", "replace"}
        /\ req[r].new \in Contents /\ ~req[r].inserted /\ req[r].dropped = {}
        /\ req[r].pc \in {"lookup", "insert"}
        /\ req[r].op = "add" => req[r].old = {}
    BY DEF FilesInv, RequestsInv, Shape, Active, At
  <1>2. /\ Solo' <=> Solo
        /\ Adding' <=> Adding
        /\ Deferred' <=> Deferred
    BY DEF SameRun, Solo, Adding, Deferred
  <1>3. UNCHANGED <<doc, link, row, object, fin>>
    BY DEF tables
  <1>4. ASSUME Solo
        PROVE  /\ AsRead(r) /\ r \notin temp /\ \A s \in Requests \ {r} : ~Active(s)
               /\ upload = r => req[r].was[req[r].new].by # r
    <2>1. AsRead(r) /\ \A s \in Requests \ {r} : ~Active(s)
      BY <1>1, <1>4 DEF Kept, Lone
    <2>2. r \notin temp
      BY <1>1, <2>1 DEF AsRead
    <2>3. row[req[r].new].by # r
      BY <1>1 DEF Fits, At
    <2> QED
      BY <1>1, <2>1, <2>2, <2>3 DEF AsRead
  <1>5. PICK u : u = [req[r] EXCEPT !.file = upload]
    OBVIOUS
  <1>6. /\ u \in Request /\ u.file = upload
        /\ u.pc = req[r].pc /\ u.op = req[r].op /\ u.doc = req[r].doc
        /\ u.new = req[r].new /\ u.old = req[r].old /\ u.was = req[r].was
        /\ u.todo = req[r].todo /\ u.dropped = {} /\ ~u.inserted
        /\ u.linked = req[r].linked /\ u.version = req[r].version
    BY <1>1, <1>5 DEF Request
  <1>7. \A c \in Contents : ~Goes(r, c)
    BY <1>1 DEF Goes, At
  <1>8. /\ NoFaults' /\ UNCHANGED <<tables, fin>> /\ ~At(r, "done")
        /\ temp \subseteq temp' /\ object \subseteq object' /\ temp' \subseteq temp \cup {r}
        /\ Solo => \A s \in Requests \ {r} : ~Active(s)
    BY <1>1, <1>3, <1>4 DEF Kept, NoFaults, At
  <1>9. \/ /\ u.was[u.new].by = upload
           /\ \/ End(r)
              \/ Step(r, [u EXCEPT !.pc = "commit", !.op = "edit", !.old = {},
                                   !.new = NoContent])
        \/ Step(r, [u EXCEPT !.pc = IF u.op = "add" THEN "commit" ELSE "flush",
                             !.inserted = upload = r])
    BY <1>5 DEF Linking
  <1>10. ASSUME u.was[u.new].by = upload, Solo
         PROVE  /\ At(r, "lookup") /\ temp' = temp
                /\ ~Deferred => \A c \in object : row[c] # NoRow
    <2>1. At(r, "lookup") /\ temp' = temp
      BY <1>4, <1>6, <1>10
    <2> QED
      BY <1>4, <1>10, <2>1, HeldByTheOne DEF At
  <1>11. CASE u.was[u.new].by = upload /\ End(r)
    <2>1. Step(r, Done) /\ req'[r] = Done
      BY <1>11, StepRun, ReadyShaped DEF End, FilesInv
    <2>2. /\ Done \in Request /\ Done.pc = "done" /\ Done.op = "edit" /\ Done.old = {}
          /\ Done.dropped = {} /\ ~Done.inserted
      BY ReadyShaped DEF Done, Ready
    <2>3. Lone(r)' /\ Adds(r)' /\ Brought(r)' /\ \A c \in Contents : ~Goes(r, c)'
      BY <2>1, <2>2 DEF Lone, Active, Adds, Brought, Goes, At
    <2>4. Solo => r \notin temp'
      BY <1>4, <1>10, <1>11
    <2>5. Solo /\ ~Deferred => \A c \in object' : ObjectHeld(c)'
      BY <1>3, <1>10, <1>11 DEF ObjectHeld
    <2> QED
      BY <1>7, <1>8, <2>1, <2>2, <2>3, <2>4, <2>5, KeptMove
  <1>12. CASE /\ u.was[u.new].by = upload
              /\ Step(r, [u EXCEPT !.pc = "commit", !.op = "edit", !.old = {},
                                   !.new = NoContent])
    <2>1. PICK q : q = [u EXCEPT !.pc = "commit", !.op = "edit", !.old = {},
                                 !.new = NoContent]
      OBVIOUS
    <2>2. /\ q \in Request /\ q.pc = "commit" /\ q.op = "edit" /\ q.doc = req[r].doc
          /\ q.old = {} /\ q.dropped = {} /\ ~q.inserted
          /\ q.was = req[r].was /\ q.version = req[r].version
      BY <1>6, <2>1 DEF Request, Operations
    <2>3. Step(r, q) /\ req'[r] = q /\ \A s \in Requests \ {r} : req'[s] = req[s]
      BY <1>12, <2>1, <2>2, StepRun DEF FilesInv
    <2>4. Adds(r)' /\ Brought(r)' /\ \A c \in Contents : ~Goes(r, c)'
      BY <2>2, <2>3 DEF Adds, Brought, Goes, At
    <2>5. Lone(r)'
      <3> SUFFICES ASSUME Solo PROVE AsRead(r)' /\ \A s \in Requests \ {r} : ~Active(s)'
        BY <1>2 DEF Lone
      <3>1. ~Flushed(r)' /\ r \notin temp'
        BY <1>4, <1>10, <1>12, <2>2, <2>3 DEF Flushed
      <3>2. AsRead(r)'
        BY <1>2, <1>3, <1>4, <2>2, <2>3, <2>4, <3>1 DEF AsRead
      <3> QED
        BY <1>4, <2>3, <3>2 DEF Active
    <2>6. Solo => (r \in temp' => Active(r)')
      BY <1>4, <1>10, <1>12
    <2>7. Solo /\ ~Deferred => \A c \in object' : ObjectHeld(c)'
      BY <1>3, <1>10, <1>12 DEF ObjectHeld
    <2> QED
      BY <1>7, <1>8, <2>2, <2>3, <2>4, <2>5, <2>6, <2>7, KeptMove
  <1>13. CASE Step(r, [u EXCEPT !.pc = IF u.op = "add" THEN "commit" ELSE "flush",
                                !.inserted = upload = r])
    <2>1. PICK pc \in {"commit", "flush"}, inserted \in BOOLEAN :
            /\ pc = IF u.op = "add" THEN "commit" ELSE "flush"
            /\ inserted = (upload = r)
      OBVIOUS
    <2>2. PICK q : q = [u EXCEPT !.pc = pc, !.inserted = inserted]
      OBVIOUS
    <2>3. /\ q \in Request /\ q.pc = pc /\ q.op = req[r].op /\ q.doc = req[r].doc
          /\ q.new = req[r].new /\ q.old = req[r].old /\ q.was = req[r].was
          /\ q.todo = req[r].todo /\ q.dropped = {} /\ q.file = upload
          /\ q.inserted = inserted /\ q.version = req[r].version
      BY <1>6, <2>2 DEF Request
    <2>4. Step(r, q) /\ req'[r] = q /\ \A s \in Requests \ {r} : req'[s] = req[s]
      BY <1>13, <2>1, <2>2, <2>3, StepRun DEF FilesInv
    <2>5. \A c \in Contents : ~Goes(r, c)'
      BY <2>1, <2>3, <2>4 DEF Goes, At
    <2>6. Adds(r)'
      BY <1>2, <2>3, <2>4 DEF Kept, Adds
    <2>7. Brought(r)'
      <3>1. inserted => IF Deferred THEN r \in temp' ELSE req[r].new \in object
        BY <2>1 DEF Kept, Brought
      <3> QED
        BY <1>2, <1>3, <2>1, <2>3, <2>4, <3>1 DEF Brought, At
    <2>8. Lone(r)'
      <3> SUFFICES ASSUME Solo PROVE AsRead(r)' /\ \A s \in Requests \ {r} : ~Active(s)'
        BY <1>2 DEF Lone
      <3>1. ~Flushed(r)'
        BY <1>1, <2>1, <2>3, <2>4, <1>6 DEF Flushed
      <3>2. r \in temp' => inserted /\ Deferred
        BY <1>4, <2>1
      <3>3. inserted \/ RowIs(req[r].new, upload)
        BY <2>1
      <3>4. RowIs(req[r].new, upload)' <=> RowIs(req[r].new, upload)
        BY <1>3, <1>1, <2>3, <2>4 DEF RowIs
      <3>5. req[r].todo = req[r].old
        BY <1>1, <1>4 DEF AsRead
      <3>6. RowIs(q.new, q.file)' <=> RowIs(q.new, q.file)
        BY <1>3 DEF RowIs
      <3>7. LinksOf(q.doc)' = LinksOf(q.doc)
        BY <1>3 DEF LinksOf
      <3>8. AsRead(r)'
        BY <1>1, <1>2, <1>3, <1>4, <2>3, <2>4, <2>5, <3>1, <3>2, <3>3, <3>5, <3>6, <3>7 DEF AsRead, RowIs
      <3> QED
        BY <1>4, <2>4, <3>8 DEF Active
    <2>9. Active(r)'
      BY <2>1, <2>3, <2>4 DEF Active
    <2>10. ASSUME Solo, ~Deferred, NEW c \in object' PROVE ObjectHeld(c)'
      <3>1. \/ row[c] # NoRow
            \/ req[r].new = c
        BY <1>3, <1>4, <2>10, HeldByTheOne
      <3> QED
        BY <1>3, <2>1, <2>3, <2>4, <3>1 DEF ObjectHeld
    <2> QED
      BY <1>7, <1>8, <2>3, <2>4, <2>5, <2>6, <2>7, <2>8, <2>9, <2>10, KeptMove
  <1> QED
    BY <1>9, <1>11, <1>12, <1>13

\* A request that is given up has brought nothing yet, or is one of several adds.
LEMMA KeptAbort ==
  ASSUME FilesInv, FilesInv', SameRun, Kept, NEW r \in Requests, Active(r), End(r),
         UNCHANGED <<tables, object, temp, fin>>, NoFaults',
         \A c \in Contents : ~Goes(r, c),
         Solo => r \notin temp,
         Solo /\ ~Deferred => \A c \in object : row[c] # NoRow
  PROVE  Kept'
  <1>1. Step(r, Done) /\ req'[r] = Done
    BY StepRun, ReadyShaped DEF End, FilesInv
  <1>2. /\ Done \in Request /\ Done.pc = "done" /\ Done.op = "edit" /\ Done.old = {}
        /\ Done.dropped = {} /\ ~Done.inserted
    BY ReadyShaped DEF Done, Ready
  <1>3. Lone(r)' /\ Adds(r)' /\ Brought(r)' /\ \A c \in Contents : ~Goes(r, c)'
    BY <1>1, <1>2 DEF Lone, Active, Adds, Brought, Goes, At
  <1>4. Solo /\ ~Deferred => \A c \in object' : ObjectHeld(c)'
    BY DEF ObjectHeld, tables
  <1>5. Solo => \A s \in Requests \ {r} : ~Active(s)
    BY DEF Kept, Lone
  <1>6. ~At(r, "done")
    BY DEF Active, At
  <1> QED
    BY <1>1, <1>2, <1>3, <1>4, <1>5, <1>6, KeptMove

LEMMA KeptLookup ==
  ASSUME FilesInv, FilesInv', SameRun, Kept, NEW r \in Requests, Lookup(r)
  PROVE  Kept'
  <1>1. /\ req[r] \in Request /\ Shape(req[r]) /\ Fits(r) /\ req[r].pc = "lookup"
        /\ At(r, "lookup") /\ UNCHANGED <<tables, object, temp, fin, setting>>
    BY DEF FilesInv, RequestsInv, Lookup, Runs, At
  <1>2. PICK c \in Contents : c = req[r].new
    BY <1>1 DEF Shape
  <1>3. CASE row[c] # NoRow
    <2>1. PICK upload \in Requests \cup {NoRequest} : upload = row[c].by
      BY DEF FilesInv, AllTables, FileRow
    <2>2. upload # r
      BY <1>1, <2>1 DEF Fits, At
    <2>3. Linking(r, upload) /\ RowIs(req[r].new, upload)
      BY <1>2, <1>3, <2>1 DEF Lookup, RowIs
    <2> QED
      BY <1>1, <2>2, <2>3, KeptLinking
  <1>4. CASE row[c] = NoRow
    <2>1. PICK pc \in {"insert", "put"} : pc = IF Deferred THEN "insert" ELSE "put"
      OBVIOUS
    <2>2. PICK q : q = [req[r] EXCEPT !.pc = pc]
      OBVIOUS
    <2>3. /\ q \in Request /\ q.pc = pc /\ q.op = req[r].op /\ q.doc = req[r].doc
          /\ q.new = req[r].new /\ q.old = req[r].old /\ q.todo = req[r].todo
          /\ q.was = req[r].was /\ q.version = req[r].version
          /\ q.dropped = req[r].dropped /\ q.inserted = req[r].inserted
      BY <1>1, <2>2 DEF Request
    <2>4. q.dropped = {} /\ ~q.inserted /\ req[r].dropped = {}
      BY <1>1, <2>3 DEF Shape
    <2>5. Step(r, q) /\ req'[r] = q /\ \A s \in Requests \ {r} : req'[s] = req[s]
      BY <1>2, <1>4, <2>1, <2>2, <2>3, StepRun DEF Lookup, FilesInv
    <2>6. /\ Solo' <=> Solo
          /\ Adding' <=> Adding
          /\ Deferred' <=> Deferred
      BY DEF SameRun, Solo, Adding, Deferred
    <2>7. UNCHANGED <<doc, link, row>>
      BY <1>1 DEF tables
    <2>8. \A e \in Contents : ~Goes(r, e) /\ ~Goes(r, e)'
      BY <1>1, <2>3, <2>4, <2>5 DEF Goes, At
    <2>9. Adds(r)'
      BY <2>3, <2>5, <2>6 DEF Kept, Adds
    <2>10. Brought(r)'
      BY <2>1, <2>3, <2>4, <2>5, <2>6 DEF Brought, At
    <2>11. ASSUME Solo
           PROVE  AsRead(r) /\ r \notin temp /\ \A s \in Requests \ {r} : ~Active(s)
      <3>1. AsRead(r) /\ \A s \in Requests \ {r} : ~Active(s)
        BY <1>1, <2>11 DEF Kept, Lone, Active
      <3> QED
        BY <2>3, <2>4, <3>1 DEF AsRead
    <2>12. Lone(r)'
      <3> SUFFICES ASSUME Solo PROVE AsRead(r)' /\ \A s \in Requests \ {r} : ~Active(s)'
        BY <2>6 DEF Lone
      <3>1. ~Flushed(r)' /\ ~Linked(q)
        BY <2>3, <2>5 DEF Flushed, Linked
      <3>2. LinksOf(q.doc)' = LinksOf(q.doc)
        BY <2>7 DEF LinksOf
      <3>3. AsRead(r)'
        BY <1>1, <2>3, <2>5, <2>6, <2>7, <2>8, <2>11, <3>1, <3>2 DEF AsRead
      <3> QED
        BY <2>5, <2>11, <3>3 DEF Active
    <2>13. ASSUME Solo, ~Deferred, NEW e \in object' PROVE ObjectHeld(e)'
      <3>1. row[e] # NoRow
        BY <1>1, <2>11, <2>13, HeldByTheOne
      <3> QED
        BY <2>7, <3>1 DEF ObjectHeld
    <2>14. NoFaults' /\ ~At(r, "done") /\ Active(r)' /\ UNCHANGED <<tables, fin>>
      BY <1>1, <2>3, <2>5 DEF Kept, NoFaults, At, Active
    <2>15. temp \subseteq temp' /\ object \subseteq object' /\ temp' \subseteq temp \cup {r}
      BY <1>1
    <2> QED
      BY <2>3, <2>5, <2>8, <2>9, <2>10, <2>11, <2>12, <2>13, <2>14, <2>15, KeptMove
  <1> QED
    BY <1>3, <1>4

LEMMA KeptPutNow ==
  ASSUME FilesInv, FilesInv', SameRun, Kept, NEW r \in Requests, PutNow(r)
  PROVE  Kept'
  <1>1. /\ req[r] \in Request /\ Shape(req[r]) /\ req[r].pc = "put" /\ At(r, "put")
        /\ UNCHANGED <<tables, temp, fin>> /\ ~Deferred /\ Active(r)
    BY DEF FilesInv, RequestsInv, PutNow, Runs, At, Active, Kept, Brought
  <1>2. req[r].dropped = {} /\ ~req[r].inserted /\ req[r].new \in Contents
    BY <1>1 DEF Shape
  <1>3. ASSUME Solo
        PROVE  /\ AsRead(r) /\ r \notin temp /\ \A s \in Requests \ {r} : ~Active(s)
               /\ \A c \in object : row[c] # NoRow
    <2>1. AsRead(r) /\ \A s \in Requests \ {r} : ~Active(s)
      BY <1>1, <1>3 DEF Kept, Lone
    <2> QED
      BY <1>1, <1>2, <1>3, <2>1, HeldByTheOne DEF AsRead
  <1>4. \A c \in Contents : ~Goes(r, c)
    BY <1>1, <1>2 DEF Goes, At
  <1>5. NoFaults'
    <2>1. CASE UNCHANGED setting
      BY <2>1 DEF Kept, NoFaults
    <2>2. CASE setting' = [setting EXCEPT !.put = @ - 1]
      BY <2>2 DEF Kept, NoFaults, FilesInv, AllTables, Setting
    <2> QED
      BY <2>1, <2>2 DEF PutNow
  <1>6. CASE Abort(r) /\ UNCHANGED object
    BY <1>1, <1>3, <1>4, <1>5, <1>6, KeptAbort DEF Abort
  <1>7. CASE object' = object \cup {req[r].new} /\ Step(r, [req[r] EXCEPT !.pc = "insert"])
    <2>1. PICK q : q = [req[r] EXCEPT !.pc = "insert"]
      OBVIOUS
    <2>2. /\ q \in Request /\ q.pc = "insert" /\ q.op = req[r].op /\ q.doc = req[r].doc
          /\ q.new = req[r].new /\ q.old = req[r].old /\ q.todo = req[r].todo
          /\ q.was = req[r].was /\ q.version = req[r].version
          /\ q.dropped = {} /\ ~q.inserted
      BY <1>1, <1>2, <2>1 DEF Request
    <2>3. Step(r, q) /\ req'[r] = q /\ \A s \in Requests \ {r} : req'[s] = req[s]
      BY <1>7, <2>1, <2>2, StepRun DEF FilesInv
    <2>4. /\ Solo' <=> Solo
          /\ Adding' <=> Adding
          /\ Deferred' <=> Deferred
      BY DEF SameRun, Solo, Adding, Deferred
    <2>5. UNCHANGED <<doc, link, row>>
      BY <1>1 DEF tables
    <2>6. \A e \in Contents : ~Goes(r, e)'
      BY <2>2, <2>3 DEF Goes, At
    <2>7. Adds(r)' /\ Brought(r)'
      BY <1>7, <2>2, <2>3, <2>4 DEF Kept, Adds, Brought, At
    <2>8. Lone(r)'
      <3> SUFFICES ASSUME Solo PROVE AsRead(r)' /\ \A s \in Requests \ {r} : ~Active(s)'
        BY <2>4 DEF Lone
      <3>1. ~Flushed(r)' /\ ~Linked(q)
        BY <2>2, <2>3 DEF Flushed, Linked
      <3>2. LinksOf(q.doc)' = LinksOf(q.doc)
        BY <2>5 DEF LinksOf
      <3>3. AsRead(r)'
        BY <1>1, <1>3, <2>2, <2>3, <2>4, <2>5, <2>6, <3>1, <3>2 DEF AsRead
      <3> QED
        BY <1>3, <2>3, <3>3 DEF Active
    <2>9. ASSUME Solo, NEW e \in object' PROVE ObjectHeld(e)'
      BY <1>3, <1>7, <2>2, <2>3, <2>5, <2>9 DEF ObjectHeld
    <2>10. ~At(r, "done") /\ Active(r)'
      BY <1>1, <2>2, <2>3 DEF At, Active
    <2>11. temp \subseteq temp' /\ object \subseteq object' /\ temp' \subseteq temp \cup {r}
      BY <1>1, <1>7
    <2> QED
      BY <1>1, <1>3, <1>4, <1>5, <2>2, <2>3, <2>6, <2>7, <2>8, <2>9, <2>10, <2>11, KeptMove
  <1> QED
    BY <1>6, <1>7 DEF PutNow

LEMMA KeptInsert ==
  ASSUME FilesInv, FilesInv', SameRun, Kept, NEW r \in Requests, Insert(r)
  PROVE  Kept'
  <1>1. /\ req[r].pc = "insert" /\ At(r, "insert") /\ Active(r) /\ Shape(req[r])
        /\ UNCHANGED <<tables, object, fin, setting>>
    BY DEF Insert, Runs, At, Active, FilesInv, RequestsInv
  <1>2. CASE row[req[r].new] = NoRow
    <2>1. PICK upload \in Requests : upload = r
      OBVIOUS
    <2>2. Linking(r, upload) /\ temp' = IF Deferred THEN temp \cup {r} ELSE temp
      BY <1>2, <2>1 DEF Insert
    <2> QED
      BY <1>1, <1>2, <2>1, <2>2, KeptLinking
  <1>3. CASE row[req[r].new] # NoRow
    <2>1. End(r) /\ UNCHANGED temp
      BY <1>3 DEF Insert, Abort
    <2>2. req[r].dropped = {} /\ ~req[r].inserted
      BY <1>1 DEF Shape
    <2>3. \A c \in Contents : ~Goes(r, c)
      BY <1>1, <2>2 DEF Goes, At
    <2>4. Solo => AsRead(r) /\ \A s \in Requests \ {r} : ~Active(s)
      BY <1>1 DEF Kept, Lone
    <2>5. Solo => r \notin temp
      BY <2>2, <2>4 DEF AsRead
    <2>6. Solo /\ ~Deferred => \A c \in object : row[c] # NoRow
      BY <1>3, <2>4, HeldByTheOne
    <2>7. NoFaults'
      BY <1>1 DEF Kept, NoFaults
    <2> QED
      BY <1>1, <2>1, <2>3, <2>5, <2>6, <2>7, KeptAbort
  <1> QED
    BY <1>2, <1>3

\* A request that is alone flushes what it has read, and removes files.
LEMMA KeptClear ==
  ASSUME FilesInv, FilesInv', SameRun, Kept, Solo, ~Adding, NEW r \in Requests,
         \A s \in Requests \ {r} : ~Active(s), NEW q \in Request, Step(r, q),
         UNCHANGED <<tables, fin>>, NoFaults',
         req[r].pc \in {"flush", "cleanup", "drop"}, q.pc \in {"cleanup", "drop", "commit"},
         q.new = req[r].new, q.inserted = req[r].inserted, AsRead(r)',
         temp' \subseteq temp, object' \subseteq object,
         q.inserted => r \in temp' \/ r \notin temp,
         q.inserted => req[r].new \in object' \/ req[r].new \notin object,
         \A c \in Contents : Goes(r, c) => Goes(r, c)',
         \A c \in Contents : row[c] # NoRow /\ Readable(c) => Readable(c)' \/ Goes(r, c)',
         \A c \in object : c \in object' \/ Goes(r, c)'
  PROVE  Kept'
  <1>1. /\ req'[r] = q /\ \A s \in Requests \ {r} : req'[s] = req[s]
    BY StepRun DEF FilesInv
  <1>2. /\ Solo' <=> Solo
        /\ Adding' <=> Adding
        /\ Deferred' <=> Deferred
    BY DEF SameRun, Solo, Adding, Deferred
  <1>3. UNCHANGED <<doc, link, row, fin>>
    BY DEF tables
  <1>4. \A s \in Requests, c \in Contents : Goes(s, c) => Goes(s, c)'
    BY <1>1 DEF Goes, At
  <1>5. ASSUME NEW s \in Requests PROVE Lone(s)' /\ Adds(s)'
    BY <1>1, <1>2 DEF Lone, Adds, Active
  <1>6. ASSUME NEW s \in Requests \ {r} PROVE Brought(s)'
    BY <1>1, OthersRest DEF Brought, At
  <1>7. Brought(r)'
    BY <1>1, <1>2 DEF Kept, Brought, At
  <1>8. ASSUME NEW s \in Requests PROVE TaskFits(s)'
    <2>1. TaskFits(s)
      BY DEF Kept
    <2>2. ASSUME fin[s].stage # "none" PROVE s # r /\ (At(s, "done")' <=> At(s, "done"))
      BY <1>1, <2>1, <2>2 DEF TaskFits, At
    <2>3. InStage(s, "mark") =>
            \A c \in Contents : c \in object => c \in object' \/ \E o \in Requests : Goes(o, c)'
      OBVIOUS
    <2> QED
      BY <1>2, <1>3, <1>4, <2>1, <2>2, <2>3 DEF TaskFits, InStage, RowIs
  <1>9. ASSUME NEW c \in Contents PROVE RowKept(c)'
    <2>1. RowKept(c)
      BY DEF Kept
    <2>2. row[c] # NoRow => Readable(c)' \/ \E s \in Requests : Goes(s, c)'
      BY <1>4, <2>1 DEF RowKept
    <2> QED
      BY <1>2, <1>3, <2>1, <2>2 DEF RowKept
  <1>10. ASSUME NEW u \in temp' PROVE TempHeld(u)'
    <2>1. u \in Requests /\ TempHeld(u)
      BY DEF Kept, FilesInv, AllTables
    <2>2. Active(u) => u = r
      BY <2>1
    <2>3. Active(r)'
      BY <1>1 DEF Active
    <2> QED
      BY <1>3, <2>1, <2>2, <2>3 DEF TempHeld, RowIs
  <1>11. ASSUME ~Deferred, NEW c \in object' PROVE ObjectHeld(c)'
    <2>1. \/ row[c] # NoRow
          \/ req[r].new = c
      BY <1>11, HeldByTheOne
    <2> QED
      BY <1>1, <1>3, <2>1 DEF ObjectHeld
  <1> QED
    BY <1>2, <1>5, <1>6, <1>7, <1>8, <1>9, <1>10, <1>11 DEF Kept

LEMMA AloneToClear ==
  ASSUME FilesInv, Kept, Harmless, NEW r \in Requests,
         req[r].pc \in {"flush", "cleanup", "drop"}
  PROVE  /\ Solo /\ ~Adding /\ AsRead(r) /\ \A s \in Requests \ {r} : ~Active(s)
  <1>1. ~Adding
    BY AddingKeepsFiles
  <1>2. Solo
    BY <1>1 DEF Harmless, Solo, Adding
  <1> QED
    BY <1>1, <1>2 DEF Kept, Lone, Active

LEMMA KeptFlush ==
  ASSUME FilesInv, FilesInv', SameRun, Kept, Harmless, NEW r \in Requests, Flush(r)
  PROVE  Kept'
  <1>1. /\ req[r] \in Request /\ Shape(req[r]) /\ req[r].pc = "flush"
        /\ UNCHANGED <<tables, object, temp, fin, setting>>
    BY DEF FilesInv, RequestsInv, Flush, Runs, At
  <1>2. /\ Solo /\ ~Adding /\ AsRead(r) /\ \A s \in Requests \ {r} : ~Active(s)
    BY <1>1, AloneToClear
  <1>3. /\ req[r].dropped = {} /\ req[r].todo = req[r].old
        /\ req[r].op \in {"replace", "detach", "delete"}
    BY <1>1, <1>2 DEF Shape, AsRead
  <1>4. PICK pc \in {"commit", "cleanup"} :
          pc = IF req[r].old = {} THEN "commit" ELSE "cleanup"
    OBVIOUS
  <1>5. PICK q : q = [req[r] EXCEPT !.pc = pc]
    OBVIOUS
  <1>6. /\ q \in Request /\ q.pc = pc /\ q.op = req[r].op /\ q.doc = req[r].doc
        /\ q.new = req[r].new /\ q.old = req[r].old /\ q.todo = req[r].todo
        /\ q.was = req[r].was /\ q.version = req[r].version /\ q.file = req[r].file
        /\ q.dropped = {} /\ q.inserted = req[r].inserted
    BY <1>1, <1>3, <1>5 DEF Request
  <1>7. Step(r, q)
    <2>1. /\ req[r].op = "replace" => {req[r].doc} \X req[r].old \subseteq link
          /\ req[r].op = "replace" => req[r].inserted \/ RowIs(req[r].new, req[r].file)
      BY <1>1, <1>2 DEF AsRead, Linked
    <2> QED
      BY <1>4, <1>5, <2>1 DEF Flush
  <1>8. req'[r] = q
    BY <1>6, <1>7, StepRun DEF FilesInv
  <1>9. UNCHANGED <<doc, link, row>>
    BY <1>1 DEF tables
  <1>10. \A c \in Contents : ~Goes(r, c) /\ ~Goes(r, c)'
    BY <1>1, <1>3, <1>4, <1>6, <1>8 DEF Goes, At
  <1>11. AsRead(r)'
    <2>1. ASSUME NEW c \in req[r].old PROVE pc # "commit" /\ c \in q.todo
      BY <1>3, <1>4, <1>6, <2>1
    <2>2. (Deferred' <=> Deferred) /\ LinksOf(q.doc)' = LinksOf(q.doc)
      BY <1>9 DEF SameRun, Deferred, LinksOf
    <2>3. Linked(req[r])
      BY <1>1 DEF Linked
    <2>4. RowIs(q.new, q.file)' <=> RowIs(q.new, q.file)
      BY <1>9 DEF RowIs
    <2> QED
      BY <1>1, <1>2, <1>4, <1>6, <1>8, <1>9, <1>10, <2>1, <2>2, <2>3, <2>4 DEF AsRead, RowIs
  <1>12. NoFaults' /\ UNCHANGED <<tables, fin>>
    BY <1>1 DEF Kept, NoFaults
  <1>13. \A c \in Contents : Readable(c) => Readable(c)'
    BY <1>1, <1>9 DEF Readable
  <1> QED
    BY <1>1, <1>2, <1>4, <1>6, <1>7, <1>8, <1>10, <1>11, <1>12, <1>13, KeptClear

LEMMA AfterFileFields ==
  ASSUME NEW q \in Request, NEW c \in Contents, NEW n, n = AfterFile(q, c)
  PROVE  /\ n.pc = IF q.todo = {c} THEN "commit" ELSE "cleanup"
         /\ n.todo = q.todo \ {c} /\ n.version = q.version /\ n.linked = q.linked
  <1>1. PICK pc : pc = IF q.todo = {c} THEN "commit" ELSE "cleanup"
    OBVIOUS
  <1>2. PICK todo : todo = q.todo \ {c}
    OBVIOUS
  <1>3. n = [q EXCEPT !.todo = todo, !.cur = NoContent, !.pc = pc]
    BY <1>1, <1>2 DEF AfterFile
  <1> QED
    BY <1>1, <1>2, <1>3 DEF Request

LEMMA KeptCleanup ==
  ASSUME FilesInv, FilesInv', SameRun, Kept, Harmless, NEW r \in Requests,
         NEW c \in Contents, Cleanup(r, c)
  PROVE  Kept'
  <1>1. /\ req[r] \in Request /\ Shape(req[r]) /\ Fits(r) /\ req[r].pc = "cleanup"
        /\ c \in req[r].todo /\ UNCHANGED <<tables, fin>>
    BY DEF FilesInv, RequestsInv, Cleanup, Runs, At
  <1>2. /\ Solo /\ ~Adding /\ AsRead(r) /\ \A s \in Requests \ {r} : ~Active(s)
    BY <1>1, AloneToClear
  <1>3. /\ c \in req[r].old /\ Flushed(r) /\ req[r].doc \in Docs /\ Linked(req[r])
    BY <1>1 DEF Shape, Flushed, Linked
  <1>4. UNCHANGED <<doc, link, row>>
    BY <1>1 DEF tables
  <1>5. <<req[r].doc, c>> \in link /\ row[c] # NoRow /\ row[c].by = req[r].was[c].by
    <2>1. <<req[r].doc, c>> \in link
      BY <1>2, <1>3 DEF AsRead
    <2> QED
      BY <1>2, <1>3, <2>1 DEF AsRead, FilesInv, ReferencesHold, LinksOf
  <1>6. RowIs(c, req[r].was[c].by)
    BY <1>5 DEF RowIs
  <1>7. setting.remove = 0
    BY DEF Kept, NoFaults
  <1>8. (Deferred' <=> Deferred) /\ \A d \in Docs : LinksOf(d)' = LinksOf(d)
    BY <1>4 DEF SameRun, Deferred, LinksOf
  <1>9. CASE /\ LinkedElsewhere(r, c) /\ Step(r, AfterFile(req[r], c))
              /\ UNCHANGED <<object, temp, setting>>
    <2>1. PICK n : n = AfterFile(req[r], c)
      OBVIOUS
    <2>2. /\ n \in Request /\ n.pc \in {"commit", "cleanup"}
          /\ n.op = req[r].op /\ n.doc = req[r].doc /\ n.new = req[r].new
          /\ n.old = req[r].old /\ n.was = req[r].was /\ n.file = req[r].file
          /\ n.inserted = req[r].inserted /\ n.dropped = req[r].dropped
      BY <1>1, <2>1, AfterFileShape
    <2>3. /\ n.pc = IF req[r].todo = {c} THEN "commit" ELSE "cleanup"
          /\ n.todo = req[r].todo \ {c} /\ n.version = req[r].version
      BY <1>1, <2>1, AfterFileFields
    <2>4. Step(r, n) /\ req'[r] = n
      BY <1>9, <2>1, <2>2, StepRun DEF FilesInv
    <2>5. \A x \in Contents : Goes(r, x)' <=> Goes(r, x)
      BY <1>1, <2>2, <2>4 DEF Goes, At
    <2>6. \E d \in Docs \ {req[r].doc} : <<d, c>> \in link
      BY <1>9 DEF LinkedElsewhere
    <2>7. AsRead(r)'
      <3>1. ASSUME NEW x \in req[r].old
            PROVE  \/ Goes(r, x)' \/ (n.pc # "commit" /\ x \in n.todo)
                   \/ \E d \in Docs \ {req[r].doc} : <<d, x>> \in link
        <4>1. \/ Goes(r, x) \/ x \in req[r].todo
              \/ \E d \in Docs \ {req[r].doc} : <<d, x>> \in link
          BY <1>2, <1>3 DEF AsRead
        <4>2. x \in Contents
          BY <1>1 DEF Request
        <4> QED
          BY <2>3, <2>5, <2>6, <4>1, <4>2
      <3>2. (RowIs(n.new, n.file)' <=> RowIs(n.new, n.file)) /\ LinksOf(n.doc)' = LinksOf(n.doc)
        BY <1>3, <1>4, <1>8, <2>2 DEF RowIs
      <3> QED
        BY <1>1, <1>2, <1>3, <1>4, <1>8, <1>9, <2>2, <2>3, <2>4, <2>5, <3>1, <3>2 DEF AsRead, RowIs
    <2>8. NoFaults'
      BY <1>9 DEF Kept, NoFaults
    <2>9. \A x \in Contents : Readable(x) => Readable(x)'
      BY <1>4, <1>9 DEF Readable
    <2> QED
      BY <1>1, <1>2, <1>9, <2>2, <2>4, <2>5, <2>7, <2>8, <2>9, KeptClear
  <1>10. CASE /\ ~LinkedElsewhere(r, c)
              /\ temp' = IF req[r].was[c].state = "stored" THEN temp
                         ELSE temp \ {req[r].was[c].by}
              /\ object' = IF req[r].was[c].state = "pending" THEN object
                           ELSE object \ {c}
              /\ Step(r, [req[r] EXCEPT !.pc = "drop", !.cur = c])
              /\ UNCHANGED setting
    <2>1. PICK n : n = [req[r] EXCEPT !.pc = "drop", !.cur = c]
      OBVIOUS
    <2>2. /\ n \in Request /\ n.pc = "drop" /\ n.cur = c /\ n.todo = req[r].todo
          /\ n.op = req[r].op /\ n.doc = req[r].doc /\ n.new = req[r].new
          /\ n.old = req[r].old /\ n.was = req[r].was /\ n.file = req[r].file
          /\ n.inserted = req[r].inserted /\ n.dropped = req[r].dropped
          /\ n.version = req[r].version
      BY <1>1, <2>1 DEF Request
    <2>3. Step(r, n) /\ req'[r] = n
      BY <1>10, <2>1, <2>2, StepRun DEF FilesInv
    <2>4. \A x \in Contents : Goes(r, x)' <=> Goes(r, x) \/ x = c
      BY <1>1, <2>2, <2>3 DEF Goes, At
    <2>5. \A d \in Docs : <<d, c>> \in link => d = req[r].doc
      BY <1>6, <1>10 DEF LinkedElsewhere
    <2>6. /\ temp' \subseteq temp /\ object' \subseteq object
          /\ \A x \in object : x # c => x \in object'
          /\ ~Deferred => c \notin object'
          /\ row[c].state = "stored" \/ row[c].by \notin temp'
          /\ \A u \in temp : u # row[c].by => u \in temp'
      BY <1>2, <1>5, <1>10 DEF AsRead
    <2>7. AsRead(r)'
      <3>1. ASSUME NEW x \in Contents, Goes(r, x)'
            PROVE  /\ \A d \in Docs : <<d, x>> \in link => d = req[r].doc
                   /\ row[x].state = "stored" \/ row[x].by \notin temp'
                   /\ ~Deferred => x \notin object'
        <4>1. CASE x = c
          BY <2>5, <2>6, <4>1
        <4>2. CASE Goes(r, x)
          BY <1>2, <2>6, <4>2 DEF AsRead
        <4> QED
          BY <2>4, <3>1, <4>1, <4>2
      <3>2. ASSUME NEW x \in req[r].old
            PROVE  \/ Goes(r, x)' \/ x \in n.todo
                   \/ \E d \in Docs \ {req[r].doc} : <<d, x>> \in link
        <4>1. \/ Goes(r, x) \/ x \in req[r].todo
              \/ \E d \in Docs \ {req[r].doc} : <<d, x>> \in link
          BY <1>2, <1>3 DEF AsRead
        <4>2. x \in Contents
          BY <1>1 DEF Request
        <4> QED
          BY <2>2, <2>4, <4>1, <4>2
      <3>3. r \in temp' => n.inserted /\ Deferred
        BY <1>2, <2>2, <2>6 DEF AsRead
      <3>4. (RowIs(n.new, n.file)' <=> RowIs(n.new, n.file)) /\ LinksOf(n.doc)' = LinksOf(n.doc)
        BY <1>3, <1>4, <1>8, <2>2 DEF RowIs
      <3> QED
        BY <1>1, <1>2, <1>3, <1>4, <1>8, <2>2, <2>3, <3>1, <3>2, <3>3, <3>4 DEF AsRead, RowIs
    <2>8. NoFaults'
      BY <1>10 DEF Kept, NoFaults
    <2>9. ASSUME NEW x \in Contents, row[x] # NoRow, Readable(x)
          PROVE  Readable(x)' \/ Goes(r, x)'
      <3>1. CASE x = c
        BY <2>4, <3>1
      <3>2. CASE x # c
        <4>1. row[x].by # row[c].by
          BY <1>5, <3>2 DEF Kept, RowKept
        <4> QED
          BY <1>4, <2>6, <2>9, <3>2, <4>1 DEF Readable
      <3> QED
        BY <3>1, <3>2
    <2>10. n.inserted => /\ r \in temp' \/ r \notin temp
                         /\ req[r].new \in object' \/ req[r].new \notin object
      <3>1. row[c].by # r
        BY <1>1 DEF Fits, At
      <3>2. req[r].inserted => req[r].new # c
        BY <1>1, <1>5 DEF Fits
      <3> QED
        BY <2>2, <2>6, <3>1, <3>2
    <2>11. \A x \in object : x \in object' \/ Goes(r, x)'
      BY <2>4, <2>6
    <2> QED
      BY <1>1, <1>2, <2>2, <2>3, <2>4, <2>6, <2>7, <2>8, <2>9, <2>10, <2>11, KeptClear
  <1> QED
    BY <1>7, <1>9, <1>10 DEF Cleanup

\* The row it deletes is the one it has read, and nobody else's link names it.
LEMMA KeptDropRow ==
  ASSUME FilesInv, FilesInv', SameRun, Kept, Harmless, NEW r \in Requests, DropRow(r)
  PROVE  Kept'
  <1>1. /\ req[r] \in Request /\ Shape(req[r]) /\ req[r].pc = "drop"
        /\ UNCHANGED <<tables, object, temp, fin, setting>>
    BY DEF FilesInv, RequestsInv, DropRow, Runs, At
  <1>2. /\ Solo /\ ~Adding /\ AsRead(r) /\ \A s \in Requests \ {r} : ~Active(s)
    BY <1>1, AloneToClear
  <1>3. PICK c \in Contents : c = req[r].cur /\ c \in req[r].old
    BY <1>1 DEF Shape, Request
  <1>4. UNCHANGED <<doc, link, row>> /\ Goes(r, c) /\ Flushed(r) /\ Linked(req[r])
        /\ req[r].doc \in Docs
    BY <1>1, <1>3 DEF tables, Goes, At, Shape, Flushed, Linked
  <1>5. <<req[r].doc, c>> \in link /\ row[c] # NoRow /\ row[c].by = req[r].was[c].by
    <2>1. <<req[r].doc, c>> \in link
      BY <1>2, <1>3 DEF AsRead
    <2> QED
      BY <1>2, <1>3, <1>4, <2>1 DEF AsRead, FilesInv, ReferencesHold, LinksOf
  <1>6. RowIs(c, req[r].was[c].by) /\ ~LinkedElsewhere(r, c)
    BY <1>2, <1>4, <1>5 DEF RowIs, AsRead, LinkedElsewhere
  <1>7. PICK n : n = AfterFile(req[r], c)
    OBVIOUS
  <1>8. /\ n \in Request /\ n.pc \in {"commit", "cleanup"}
        /\ n.op = req[r].op /\ n.doc = req[r].doc /\ n.new = req[r].new
        /\ n.old = req[r].old /\ n.was = req[r].was /\ n.file = req[r].file
        /\ n.inserted = req[r].inserted /\ n.dropped = req[r].dropped
    BY <1>1, <1>7, AfterFileShape
  <1>9. /\ n.pc = IF req[r].todo = {c} THEN "commit" ELSE "cleanup"
        /\ n.todo = req[r].todo \ {c} /\ n.version = req[r].version
    BY <1>1, <1>7, AfterFileFields
  <1>10. PICK dropped \in SUBSET Contents : dropped = req[r].dropped \cup {c}
    BY <1>1 DEF Request
  <1>11. PICK q : q = [n EXCEPT !.dropped = dropped]
    OBVIOUS
  <1>12. /\ q \in Request /\ q.pc = n.pc /\ q.todo = n.todo /\ q.dropped = dropped
         /\ q.op = req[r].op /\ q.doc = req[r].doc /\ q.new = req[r].new
         /\ q.old = req[r].old /\ q.was = req[r].was /\ q.file = req[r].file
         /\ q.inserted = req[r].inserted /\ q.version = req[r].version
    BY <1>8, <1>9, <1>11 DEF Request
  <1>13. Step(r, q)
    <2>1. q = [AfterFile(req[r], c) EXCEPT !.dropped = @ \cup {c}]
      BY <1>7, <1>8, <1>10, <1>11
    <2> QED
      BY <1>3, <1>6, <2>1 DEF DropRow
  <1>14. req'[r] = q
    BY <1>12, <1>13, StepRun DEF FilesInv
  <1>15. \A x \in Contents : Goes(r, x)' <=> Goes(r, x)
    BY <1>1, <1>3, <1>8, <1>10, <1>12, <1>14 DEF Goes, At
  <1>16. AsRead(r)'
    <2>1. ASSUME NEW x \in req[r].old
          PROVE  \/ Goes(r, x)' \/ (q.pc # "commit" /\ x \in q.todo)
                 \/ \E d \in Docs \ {req[r].doc} : <<d, x>> \in link
      <3>1. \/ Goes(r, x) \/ x \in req[r].todo
            \/ \E d \in Docs \ {req[r].doc} : <<d, x>> \in link
        BY <1>2, <1>4 DEF AsRead
      <3>2. x \in Contents
        BY <1>1 DEF Request
      <3> QED
        BY <1>4, <1>9, <1>12, <1>15, <3>1, <3>2
    <2>2. (Deferred' <=> Deferred) /\ LinksOf(q.doc)' = LinksOf(q.doc)
      BY <1>4 DEF SameRun, Deferred, LinksOf
    <2>3. RowIs(q.new, q.file)' <=> RowIs(q.new, q.file)
      BY <1>4 DEF RowIs
    <2> QED
      BY <1>1, <1>2, <1>4, <1>8, <1>12, <1>14, <1>15, <2>1, <2>2, <2>3 DEF AsRead, RowIs
  <1>17. NoFaults' /\ UNCHANGED <<tables, fin>>
    BY <1>1 DEF Kept, NoFaults
  <1>18. \A x \in Contents : Readable(x) => Readable(x)'
    BY <1>1, <1>4 DEF Readable
  <1> QED
    BY <1>1, <1>2, <1>8, <1>12, <1>13, <1>15, <1>16, <1>17, <1>18, KeptClear

\* What a commit does to the rows and links of a request that keeps its word.
LEMMA CommittedTables ==
  ASSUME FilesInv, NEW r \in Requests, NEW q \in Request, q = req[r], q.pc = "commit",
         Committed(r)
  PROVE  /\ \A c \in Contents :
              /\ c \in q.dropped => row'[c] = NoRow
              /\ c \notin q.dropped /\ q.inserted /\ c = q.new =>
                   /\ row'[c].state = IF Deferred THEN "pending" ELSE "stored"
                   /\ row'[c].by = r /\ row'[c] # NoRow
              /\ c \notin q.dropped /\ ~(q.inserted /\ c = q.new) => row'[c] = row[c]
         /\ \A d \in Docs, c \in Contents :
              <<d, c>> \in link =>
                \/ <<d, c>> \in link'
                \/ d = q.doc /\ (q.op = "delete" \/ c \in q.old)
         /\ q.new \in Contents => <<q.doc, q.new>> \in link'
  <1>1. r # NoRequest
    BY SettingsAssumption DEF Requests, NoRequest
  <1>2. PICK state : state = IF Deferred THEN "pending" ELSE "stored"
    OBVIOUS
  <1>3. row' = [c \in Contents |-> IF c \in q.dropped THEN NoRow
                                  ELSE IF q.inserted /\ c = q.new
                                  THEN [state |-> state, by |-> r] ELSE row[c]]
    BY <1>2 DEF Committed
  <1>4. [state |-> state, by |-> r] # NoRow
    BY <1>1 DEF NoRow
  <1>5. PICK gone : gone = IF q.op = "delete" THEN Contents ELSE q.old
    OBVIOUS
  <1>6. link' = (link \ ({q.doc} \X gone)) \cup ({q.doc} \X ({q.new} \ {NoContent}))
    BY <1>5 DEF Committed
  <1>7. \A c \in Contents :
          c \notin q.dropped /\ q.inserted /\ c = q.new => row'[c] = [state |-> state, by |-> r]
    BY <1>3
  <1>8. ASSUME NEW d \in Docs, NEW c \in Contents, <<d, c>> \in link
        PROVE  \/ <<d, c>> \in link'
               \/ d = q.doc /\ (q.op = "delete" \/ c \in q.old)
    BY <1>5, <1>6, <1>8
  <1>9. q.new \in Contents => <<q.doc, q.new>> \in link'
    BY <1>6, NullsAssumption
  <1> QED
    BY <1>2, <1>3, <1>4, <1>7, <1>8, <1>9

LEMMA KeptCommitted ==
  ASSUME FilesInv, FilesInv', SameRun, Kept, Harmless, NEW r \in Requests,
         At(r, "commit"), Committed(r), End(r), UNCHANGED <<object, temp, setting>>,
         fin' = IF Deferred /\ req[r].inserted
                THEN [fin EXCEPT ![r] = [stage |-> "queued", file |-> req[r].new]]
                ELSE fin
  PROVE  Kept'
  <1>1. /\ req[r] \in Request /\ Shape(req[r]) /\ Fits(r) /\ req[r].pc = "commit"
        /\ Active(r)
    BY DEF FilesInv, RequestsInv, At, Active
  <1> PICK q \in Request : q = req[r]
    BY <1>1
  <1>2. /\ Shape(q) /\ q.pc = "commit" /\ q.doc \in Docs /\ q.dropped \subseteq q.old
        /\ q.old \in SUBSET Contents
        /\ q.new \in Contents \cup {NoContent}
        /\ q.inserted => q.new \in Contents
        /\ q.op \notin {"add", "replace"} => q.new = NoContent
    <2>1. q.inserted => q.new \in Contents
      BY <1>1 DEF Shape
    <2> QED
      BY <1>1, <2>1 DEF Shape, Request
  <1>3. /\ \A c \in q.dropped : row[c] # NoRow
        /\ q.inserted => row[q.new] = NoRow /\ q.new \notin q.dropped
        /\ \A c \in Contents : row[c].by # r
    BY <1>1 DEF Fits, RowIs, At
  <1>4. /\ \A c \in Contents :
             /\ c \in q.dropped => row'[c] = NoRow
             /\ c \notin q.dropped /\ q.inserted /\ c = q.new =>
                  /\ row'[c].state = IF Deferred THEN "pending" ELSE "stored"
                  /\ row'[c].by = r /\ row'[c] # NoRow
             /\ c \notin q.dropped /\ ~(q.inserted /\ c = q.new) => row'[c] = row[c]
        /\ \A d \in Docs, c \in Contents :
             <<d, c>> \in link =>
               \/ <<d, c>> \in link'
               \/ d = q.doc /\ (q.op = "delete" \/ c \in q.old)
        /\ q.new \in Contents => <<q.doc, q.new>> \in link'
    BY <1>2, CommittedTables
  <1>5. /\ Solo' <=> Solo
        /\ Adding' <=> Adding
        /\ Deferred' <=> Deferred
    BY DEF SameRun, Solo, Adding, Deferred
  <1>6. /\ Step(r, Done) /\ req'[r] = Done
        /\ \A s \in Requests \ {r} : req'[s] = req[s]
    BY StepRun, ReadyShaped DEF End, FilesInv
  <1>7. /\ Done.pc = "done" /\ Done.op = "edit" /\ Done.old = {} /\ Done.dropped = {}
        /\ ~Done.inserted
    BY ReadyShaped DEF Done, Ready
  <1>8. ASSUME Solo
        PROVE  AsRead(r) /\ \A s \in Requests \ {r} : ~Active(s)
    BY <1>1, <1>8 DEF Kept, Lone
  <1>9. Solo \/ (Adding /\ q.op # "delete" /\ q.old = {})
    BY AddingKeepsFiles DEF Harmless, Solo, Adding
  \* What goes with this commit, and nothing else goes.
  <1>10. ASSUME NEW c \in Contents, NEW s \in Requests, Goes(s, c)
         PROVE  Solo /\ s = r /\ c \in q.dropped
    <2>1. Solo
      BY <1>9, <1>10, AddingKeepsFiles
    <2>2. s = r
      BY <1>8, <1>10, <2>1, OthersRest
    <2> QED
      BY <1>1, <1>10, <2>1, <2>2 DEF Goes, At
  <1>11. \A c \in q.dropped : Goes(r, c)
    BY DEF Goes
  <1>12. ASSUME NEW s \in Requests PROVE Lone(s)' /\ Adds(s)' /\ Brought(s)'
    <2>1. CASE s = r
      BY <1>6, <1>7, <2>1 DEF Lone, Adds, Brought, Active, At
    <2>2. CASE s # r
      <3>1. Lone(s) /\ Adds(s) /\ Brought(s)
        BY DEF Kept
      <3>2. Solo => ~Active(s)
        BY <1>8, <2>2
      <3> QED
        BY <1>5, <1>6, <2>2, <3>1, <3>2 DEF Lone, Adds, Brought, Active, At
    <2> QED
      BY <2>1, <2>2
  <1>13. ASSUME NEW c \in Contents PROVE RowKept(c)'
    <2>1. SUFFICES ASSUME row'[c] # NoRow
                   PROVE  /\ Readable(c)' /\ \E d \in Docs : <<d, c>> \in link'
                          /\ row'[c].by \in Requests
                          /\ \A e \in Contents : row'[e].by = row'[c].by => e = c
                          /\ ~Deferred => row'[c].state # "pending"
      BY <1>5 DEF RowKept
    <2>2. c \notin q.dropped
      BY <1>4, <2>1
    <2>3. NoRow.by \notin Requests
      BY SettingsAssumption DEF NoRow, Requests, NoRequest
    <2>4. CASE q.inserted /\ c = q.new
      <3>1. /\ row'[c].state = IF Deferred THEN "pending" ELSE "stored"
            /\ row'[c].by = r
        BY <1>4, <2>2, <2>4
      <3>2. Readable(c)'
        BY <2>1, <2>4, <3>1 DEF Readable, Kept, Brought
      <3>3. ASSUME NEW e \in Contents, row'[e].by = r PROVE e = c
        BY <1>3, <1>4, <2>3, <2>4, <3>3
      <3> QED
        BY <1>2, <1>4, <2>4, <3>1, <3>2, <3>3
    <2>5. CASE ~(q.inserted /\ c = q.new)
      <3>1. row'[c] = row[c]
        BY <1>4, <2>2, <2>5
      <3>2. RowKept(c) /\ row[c] # NoRow
        BY <2>1, <3>1 DEF Kept
      <3>3. \A s \in Requests : ~Goes(s, c)
        BY <1>10, <2>2
      <3>4. Readable(c)'
        BY <3>1, <3>2, <3>3 DEF RowKept, Readable
      <3>5. ASSUME NEW e \in Contents, row'[e].by = row[c].by PROVE e = c
        BY <1>3, <1>4, <2>3, <3>2, <3>5 DEF RowKept
      <3>6. PICK d \in Docs : <<d, c>> \in link
        BY <3>2 DEF RowKept
      <3>7. \E e \in Docs : <<e, c>> \in link'
        <4>1. CASE <<d, c>> \in link'
          BY <4>1
        <4>2. CASE d = q.doc /\ (q.op = "delete" \/ c \in q.old)
          <5>1. AsRead(r)
            BY <1>8, <1>9, <4>2
          <5>2. c \in q.old
            BY <3>6, <4>2, <5>1 DEF AsRead, LinksOf
          <5>3. Flushed(r)
            BY <1>2, <4>2, <5>2 DEF Flushed
          <5>4. PICK e \in Docs \ {q.doc} : <<e, c>> \in link
            BY <1>2, <3>3, <5>1, <5>2, <5>3 DEF AsRead
          <5> QED
            BY <1>4, <5>4
        <4> QED
          BY <1>4, <3>6, <4>1, <4>2
      <3> QED
        BY <3>1, <3>2, <3>4, <3>5, <3>7 DEF RowKept
    <2> QED
      BY <2>4, <2>5
  \* Rows of other uploads that stay are as they were.
  <1>14. ASSUME NEW c \in Contents, NEW u \in Requests, u # r
         PROVE  /\ RowIs(c, u)' => RowIs(c, u) /\ row'[c] = row[c] /\ c \notin q.dropped
                /\ RowIs(c, u) /\ c \notin q.dropped => RowIs(c, u)' /\ row'[c] = row[c]
    BY <1>3, <1>4, <1>14 DEF RowIs
  <1>15. fin \in [Requests -> Finalizer] /\ fin[r].stage = "none"
    BY <1>1 DEF FilesInv, AllTables, Kept, TaskFits, At
  <1>16. ASSUME NEW s \in Requests \ {r} PROVE TaskFits(s)'
    <2>1. fin'[s] = fin[s] /\ TaskFits(s)
      BY <1>15 DEF Kept
    <2>2. SUFFICES ASSUME fin[s].stage # "none" PROVE TaskFits(s)'
      BY <2>1 DEF TaskFits
    <2>3. Deferred' /\ At(s, "done")'
      BY <1>5, <1>6, <2>1, <2>2 DEF TaskFits, At
    <2>4. ASSUME NEW c \in Contents, RowIs(c, s)'
          PROVE  /\ c = fin[s].file
                 /\ row'[c].state = IF fin[s].stage = "unlink" THEN "stored" ELSE "pending"
                 /\ fin[s].stage = "mark" => c \in object'
      <3>1. RowIs(c, s) /\ row'[c] = row[c] /\ c \notin q.dropped
        BY <1>14, <2>4
      <3> QED
        BY <1>10, <2>1, <2>2, <3>1 DEF TaskFits, InStage
    <2>5. ASSUME Solo, fin[s].stage # "unlink", s \in temp PROVE RowIs(fin[s].file, s)'
      <3>1. fin[s].file \in Contents
        BY <2>2 DEF FilesInv, AllTables
      <3>2. /\ RowIs(fin[s].file, s) /\ row[fin[s].file].state = "pending"
        BY <2>1, <2>2, <2>5, <3>1 DEF TaskFits, InStage
      <3>3. fin[s].file \notin q.dropped
        <4>1. AsRead(r)
          BY <1>8, <2>5
        <4> QED
          BY <1>11, <2>5, <3>1, <3>2, <4>1 DEF AsRead, RowIs
      <3>4. PICK c \in Contents : c = fin[s].file
        BY <3>1
      <3>5. RowIs(c, s)'
        BY <1>14, <3>2, <3>3, <3>4
      <3> QED
        BY <2>1, <3>4, <3>5
    <2> QED
      BY <1>5, <2>1, <2>3, <2>4, <2>5 DEF TaskFits, InStage
  <1>17. TaskFits(r)'
    <2>1. CASE ~(Deferred /\ q.inserted)
      BY <1>15, <2>1 DEF TaskFits
    <2>2. CASE Deferred /\ q.inserted
      <3>1. fin'[r].stage = "queued" /\ fin'[r].file = q.new
        BY <1>15, <2>2
      <3>2. \A c \in Contents : RowIs(c, r)' => c = q.new
        BY <1>3, <1>4, SettingsAssumption DEF RowIs
      <3>3. RowIs(q.new, r)' /\ row'[q.new].state = "pending"
        BY <1>2, <1>3, <1>4, <2>2 DEF RowIs
      <3>4. At(r, "done")' /\ Deferred'
        BY <1>5, <1>6, <1>7, <2>2 DEF At
      <3>5. RowIs(fin[r].file, r)'
        BY <3>1, <3>3
      <3> QED
        BY <3>1, <3>2, <3>3, <3>4, <3>5 DEF TaskFits, InStage
    <2> QED
      BY <2>1, <2>2
  <1>18. ASSUME Solo, NEW u \in temp PROVE TempHeld(u)'
    <2>1. u \in Requests /\ TempHeld(u) /\ AsRead(r)
      BY <1>8, <1>18 DEF Kept, FilesInv, AllTables
    <2>2. CASE u = r
      BY <1>15, <1>18, <2>1, <2>2 DEF TempHeld, AsRead
    <2>3. CASE u # r
      <3>1. ~Active(u) /\ fin'[u] = fin[u]
        BY <1>8, <1>15, <1>18, <2>1, <2>3
      <3>2. ASSUME NEW c \in Contents, RowIs(c, u), row[c].state # "stored"
            PROVE  RowIs(c, u)' /\ row'[c].state # "stored"
        <4>1. c \notin q.dropped
          BY <1>11, <1>18, <2>1, <3>2 DEF AsRead, RowIs
        <4> QED
          BY <1>14, <2>1, <2>3, <3>2, <4>1
      <3> QED
        BY <2>1, <3>1, <3>2 DEF TempHeld
    <2> QED
      BY <2>2, <2>3
  <1>19. ASSUME Solo, ~Deferred, NEW c \in object PROVE ObjectHeld(c)'
    <2>1. c \in Contents /\ AsRead(r)
      BY <1>8, <1>19 DEF FilesInv, AllTables
    <2>2. c \notin q.dropped
      BY <1>11, <1>19, <2>1 DEF AsRead
    <2>3. row[c] # NoRow \/ q.new = c
      BY <1>8, <1>19, HeldByTheOne
    <2>4. row[c] # NoRow \/ (q.inserted /\ c = q.new)
      <3>1. SUFFICES ASSUME q.new = c, ~q.inserted PROVE row[c] # NoRow
        BY <2>3
      <3>2. q.op \in {"add", "replace"}
        BY <1>2, <2>1, <3>1, NullsAssumption
      <3> QED
        BY <1>2, <2>1, <3>1, <3>2 DEF AsRead, Linked, RowIs
    <2> QED
      BY <1>4, <2>1, <2>2, <2>4 DEF ObjectHeld
  <1>20. NoFaults'
    BY DEF Kept, NoFaults
  <1> QED
    BY <1>5, <1>12, <1>13, <1>16, <1>17, <1>18, <1>19, <1>20 DEF Kept

LEMMA KeptCommit ==
  ASSUME FilesInv, FilesInv', SameRun, Kept, Harmless, NEW r \in Requests, Commit(r)
  PROVE  Kept'
  <1>1. /\ At(r, "commit") /\ End(r) /\ UNCHANGED <<object, temp, setting>>
        /\ req[r] \in Request /\ Shape(req[r]) /\ Active(r)
    BY DEF Commit, Runs, At, Abort, Active, FilesInv, RequestsInv
  <1>2. CASE ~Commits(r) /\ UNCHANGED <<tables, fin>>
    <2>1. ~Solo
      <3>1. SUFFICES ASSUME Solo PROVE FALSE
        OBVIOUS
      <3>2. AsRead(r)
        BY <1>1, <3>1 DEF Kept, Lone
      <3>3. doc[req[r].doc] = [live |-> TRUE, version |-> req[r].version]
        <4>1. doc[req[r].doc] \in [live: BOOLEAN, version: Nat]
          BY <1>1 DEF FilesInv, AllTables, Shape, At
        <4>2. doc[req[r].doc].live = TRUE /\ doc[req[r].doc].version = req[r].version
          BY <3>2, <4>1 DEF AsRead
        <4> QED
          BY <4>1, <4>2
      <3>4. req[r].op = "add" => req[r].inserted \/ RowIs(req[r].new, req[r].file)
        BY <1>1, <3>2 DEF AsRead, Linked, At
      <3> QED
        BY <1>2, <3>3, <3>4 DEF Commits
    <2>2. \A c \in Contents : ~Goes(r, c)
      BY <2>1, AddingKeepsFiles DEF Harmless, Solo, Adding
    <2>3. NoFaults'
      BY <1>1 DEF Kept, NoFaults
    <2> QED
      BY <1>1, <1>2, <2>1, <2>2, <2>3, KeptAbort
  <1>3. CASE /\ Committed(r)
             /\ fin' = IF Deferred /\ req[r].inserted
                       THEN [fin EXCEPT ![r] = [stage |-> "queued", file |-> req[r].new]]
                       ELSE fin
    BY <1>1, <1>3, KeptCommitted
  <1> QED
    BY <1>2, <1>3 DEF Commit

LEMMA KeptVictim ==
  ASSUME FilesInv, FilesInv', SameRun, Kept, Harmless, NEW r \in Requests, DeadlockVictim(r)
  PROVE  Kept'
  <1>1. End(r) /\ UNCHANGED <<tables, object, temp, fin, setting>>
    BY DEF DeadlockVictim, Abort
  <1>2. PICK s \in Requests : s \in WaitsFor(r)
    BY DEF DeadlockVictim, WaitsFor
  <1>3. Active(r)
    BY <1>2 DEF WaitsFor, At, Active
  <1>4. ~Solo
    BY <1>2, <1>3, NobodyToWaitFor DEF Kept, Lone
  <1>5. \A c \in Contents : ~Goes(r, c)
    BY <1>4, AddingKeepsFiles DEF Harmless, Solo, Adding
  <1>6. NoFaults'
    BY <1>1 DEF Kept, NoFaults
  <1> QED
    BY <1>1, <1>3, <1>4, <1>5, <1>6, KeptAbort

-----------------------------------------------------------------------------
(* The background task.                                                    *)

\* A task decides the row of its own upload, if it is there, and no other.
LEMMA TaskRow ==
  ASSUME FilesInv, Kept, NEW r \in Requests, fin[r].stage # "none",
         NEW state \in {"stored", "failed"}, SetStorageState(r, state)
  PROVE  /\ \A c \in Contents : row'[c].by = row[c].by /\ (row'[c] = NoRow <=> row[c] = NoRow)
         /\ \A c \in Contents : ~RowIs(c, r) => row'[c] = row[c]
         /\ \A c \in Contents : RowIs(c, r) => c = fin[r].file /\ row'[c].state = state
         /\ \A c \in Contents, u \in Requests : RowIs(c, u)' <=> RowIs(c, u)
  <1>1. PICK c \in Contents : c = fin[r].file
    BY DEF FilesInv, AllTables
  <1>2. row \in [Contents -> FileRow]
    BY DEF FilesInv, AllTables
  <1>3. \A e \in Contents : RowIs(e, r) => e = c
    BY <1>1 DEF Kept, TaskFits
  <1>4. CASE RowIs(c, r)
    <2>1. PICK o \in FileRow : o = row[c]
      BY <1>2
    <2>2. PICK n : n = [o EXCEPT !.state = state]
      OBVIOUS
    <2>3. n \in FileRow /\ n.by = o.by /\ n.state = state
      BY <2>2 DEF FileRow
    <2>4. row' = [row EXCEPT ![c] = n]
      BY <1>1, <1>4, <2>1, <2>2 DEF SetStorageState
    <2>5. o # NoRow /\ n # NoRow
      BY <1>4, <2>1, <2>3 DEF RowIs, NoRow
    <2>6. \A e \in Contents : row'[e].by = row[e].by /\ (row'[e] = NoRow <=> row[e] = NoRow)
      BY <1>2, <2>1, <2>3, <2>4, <2>5
    <2> QED
      BY <1>1, <1>2, <1>3, <1>4, <2>3, <2>4, <2>6 DEF RowIs
  <1>5. CASE ~RowIs(c, r)
    <2>1. row' = row
      BY <1>1, <1>5 DEF SetStorageState
    <2> QED
      BY <1>1, <1>3, <1>5, <2>1 DEF RowIs
  <1> QED
    BY <1>4, <1>5

\* A task goes on, and what is read or removed by requests is not disturbed.
LEMMA KeptTask ==
  ASSUME FilesInv, FilesInv', SameRun, Kept, NEW r \in Requests, fin[r].stage # "none",
         UNCHANGED <<doc, link, req>>, NoFaults',
         \A s \in Requests \ {r} : fin'[s] = fin[s],
         temp' \subseteq temp, temp \subseteq temp' \cup {r}, object \subseteq object',
         \A c \in Contents : row'[c].by = row[c].by /\ (row'[c] = NoRow <=> row[c] = NoRow),
         \A c \in Contents : ~RowIs(c, r) => row'[c] = row[c],
         \A c \in Contents : RowIs(c, r) =>
           /\ row[c].state = "stored" => row'[c].state = "stored"
           /\ row'[c].state # "stored" => row[c].state # "stored" /\ temp' = temp
           /\ Readable(c) => Readable(c)' \/ \E s \in Requests : Goes(s, c),
         TaskFits(r)', Solo /\ r \in temp' => TempHeld(r)'
  PROVE  Kept'
  <1>1. /\ Solo' <=> Solo
        /\ Adding' <=> Adding
        /\ Deferred' <=> Deferred
    BY DEF SameRun, Solo, Adding, Deferred
  <1>2. Deferred /\ At(r, "done")
    BY DEF Kept, TaskFits
  <1>3. \A c \in Contents, u \in Requests : RowIs(c, u)' <=> RowIs(c, u)
    BY DEF RowIs
  <1>4. \A c \in Contents, s \in Requests : Goes(s, c)' <=> Goes(s, c)
    BY DEF Goes, At
  <1>5. ASSUME NEW c \in Contents, row[c].state = "stored" PROVE row'[c].state = "stored"
    BY <1>5
  <1>6. ASSUME NEW s \in Requests PROVE Lone(s)'
    <2>1. SUFFICES ASSUME Solo, Active(s)
                   PROVE  AsRead(s)' /\ \A o \in Requests \ {s} : ~Active(o)'
      BY <1>1 DEF Lone, Active
    <2>2. AsRead(s) /\ \A o \in Requests \ {s} : ~Active(o)
      BY <2>1 DEF Kept, Lone
    <2>3. req[s] \in Request /\ Shape(req[s])
      BY DEF FilesInv, RequestsInv
    <2>4. /\ doc'[req'[s].doc].live /\ doc'[req'[s].doc].version = req'[s].version
          /\ \A c \in req'[s].old : <<req'[s].doc, c>> \in link'
          /\ req'[s].op = "delete" => LinksOf(req[s].doc)' \subseteq req'[s].old
      BY <2>2 DEF AsRead, LinksOf
    <2>5. ASSUME NEW c \in Contents
          PROVE  /\ row'[c].by = req'[s].was[c].by
                 /\ req'[s].was[c].state = "stored" => row'[c].state = "stored"
                 /\ (~Deferred => req[s].was[c].state # "pending")'
      BY <1>1, <1>2, <1>5, <2>2 DEF AsRead
    <2>6. Linked(req[s]) /\ req[s].op \in {"add", "replace"} =>
            req[s].inserted \/ RowIs(req[s].new, req[s].file)'
      <3>1. Linked(req[s]) /\ req[s].op \in {"add", "replace"} => req[s].new \in Contents
        BY <2>3 DEF Shape, Linked
      <3> QED
        BY <2>2, <3>1 DEF AsRead, RowIs
    <2>7. (r # s /\ (s \in temp' => s \in temp)) \/ s \notin temp'
      BY <1>2, <2>1 DEF Active, At
    <2>8. ASSUME NEW c \in Contents, Goes(s, c)
          PROVE  row'[c].state = "stored" \/ row'[c].by \notin temp'
      BY <1>5, <2>2, <2>8 DEF AsRead
    <2>9. (Flushed(s) =>
             \A c \in req[s].old :
               \/ Goes(s, c) \/ (req[s].pc # "commit" /\ c \in req[s].todo)
               \/ \E d \in Docs \ {req[s].doc} : <<d, c>> \in link)'
      <3>1. req[s].old \subseteq Contents
        BY <2>3 DEF Request
      <3> QED
        BY <1>4, <2>2, <3>1 DEF AsRead, Flushed
    <2>10. AsRead(s)'
      BY <1>1, <1>2, <1>4, <2>2, <2>4, <2>5, <2>6, <2>7, <2>8, <2>9 DEF AsRead
    <2> QED
      BY <2>2, <2>10 DEF Active
  <1>7. ASSUME NEW s \in Requests PROVE Adds(s)' /\ Brought(s)'
    <2>1. Adds(s) /\ Brought(s)
      BY DEF Kept
    <2>2. req[s].inserted => s # r
      <3>1. req[r] = Done
        BY <1>2 DEF FilesInv, RequestsInv, Shape, At
      <3> QED
        BY <3>1, ReadyShaped
    <2> QED
      BY <1>1, <1>2, <2>1, <2>2 DEF Adds, Brought, At
  <1>8. ASSUME NEW s \in Requests PROVE TaskFits(s)'
    <2>1. CASE s = r
      BY <2>1
    <2>2. CASE s # r
      <3>1. TaskFits(s) /\ fin'[s] = fin[s]
        BY <2>2 DEF Kept
      <3>2. SUFFICES ASSUME fin[s].stage # "none" PROVE TaskFits(s)'
        BY <3>1 DEF TaskFits
      <3>3. ASSUME NEW c \in Contents, RowIs(c, s) PROVE row'[c] = row[c]
        BY <2>2, <3>3 DEF RowIs
      <3>4. PICK f \in Contents : f = fin[s].file
        BY <3>2 DEF FilesInv, AllTables
      <3>5. RowIs(fin[s].file, s)' <=> RowIs(fin[s].file, s)
        <4>1. RowIs(f, s)' <=> RowIs(f, s)
          BY <1>3
        <4> QED
          BY <3>1, <3>4, <4>1
      <3> QED
        BY <1>1, <1>3, <1>4, <3>1, <3>2, <3>3, <3>5 DEF TaskFits, InStage, At
    <2> QED
      BY <2>1, <2>2
  <1>9. ASSUME NEW c \in Contents PROVE RowKept(c)'
    <2>1. RowKept(c)
      BY DEF Kept
    <2>2. SUFFICES ASSUME row[c] # NoRow
                   PROVE  Readable(c)' \/ \E s \in Requests : Goes(s, c)
      BY <1>1, <1>2, <1>4, <2>1 DEF RowKept
    <2>3. CASE RowIs(c, r)
      BY <2>1, <2>2, <2>3 DEF RowKept
    <2>4. CASE ~RowIs(c, r)
      BY <2>1, <2>2, <2>4 DEF RowKept, Readable, RowIs
    <2> QED
      BY <2>3, <2>4
  <1>10. ASSUME Solo, NEW u \in temp' PROVE TempHeld(u)'
    <2>1. CASE u = r
      BY <1>10, <2>1
    <2>2. CASE u # r
      <3>1. u \in Requests /\ TempHeld(u) /\ fin'[u] = fin[u]
        BY <1>10, <2>2 DEF Kept, FilesInv, AllTables
      <3>2. ASSUME NEW c \in Contents, RowIs(c, u) PROVE row'[c] = row[c]
        BY <2>2, <3>2 DEF RowIs
      <3> QED
        BY <1>3, <3>1, <3>2 DEF TempHeld, Active
    <2> QED
      BY <2>1, <2>2
  <1> QED
    BY <1>1, <1>2, <1>6, <1>7, <1>8, <1>9, <1>10 DEF Kept

LEMMA KeptFinPut ==
  ASSUME FilesInv, FilesInv', SameRun, Kept, NEW r \in Requests, FinPut(r)
  PROVE  Kept'
  <1>1. /\ InStage(r, "queued") /\ UNCHANGED <<doc, link, row, temp, req>>
        /\ fin[r].stage # "none"
    BY DEF FinPut, InStage, tables
  <1>2. /\ fin \in [Requests -> Finalizer] /\ fin[r].file \in Contents /\ TaskFits(r)
    BY <1>1 DEF FilesInv, AllTables, Kept
  <1>3. PICK stage \in {"mark", "fail"} :
          /\ fin' = [fin EXCEPT ![r].stage = stage]
          /\ IF stage = "mark" THEN object' = object \cup {fin[r].file} ELSE object' = object
    BY DEF FinPut
  <1>4. /\ fin'[r].stage = stage /\ fin'[r].file = fin[r].file
        /\ \A s \in Requests \ {r} : fin'[s] = fin[s]
    BY <1>2, <1>3 DEF Finalizer
  <1>5. NoFaults'
    <2>1. CASE UNCHANGED setting
      BY <2>1 DEF Kept, NoFaults
    <2>2. CASE setting' = [setting EXCEPT !.put = @ - 1]
      BY <2>2 DEF Kept, NoFaults, FilesInv, AllTables, Setting
    <2> QED
      BY <2>1, <2>2 DEF FinPut
  <1>6. TaskFits(r)'
    <2>1. (Solo' <=> Solo) /\ (Deferred' <=> Deferred)
      BY DEF SameRun, Solo, Deferred
    <2>2. ASSUME NEW c \in Contents, RowIs(c, r)'
          PROVE  c = fin[r].file /\ row[c].state = "pending"
      BY <1>1, <1>2, <2>2 DEF TaskFits, InStage, RowIs
    <2>3. Solo /\ r \in temp => RowIs(fin[r].file, r)
      BY <1>1, <1>2 DEF TaskFits, InStage
    <2>4. PICK f \in Contents : f = fin[r].file
      BY <1>2
    <2>5. RowIs(f, r)' <=> RowIs(f, r)
      BY <1>1 DEF RowIs
    <2>6. RowIs(fin[r].file, r)' <=> RowIs(fin[r].file, r)
      BY <1>4, <2>4, <2>5
    <2> QED
      BY <1>1, <1>2, <1>3, <1>4, <2>1, <2>2, <2>3, <2>6 DEF TaskFits, InStage, At
  <1>7. TempHeld(r)'
    BY <1>4 DEF TempHeld
  <1>8. \A c \in Contents : Readable(c) => Readable(c)'
    BY <1>1, <1>3 DEF Readable
  <1> QED
    BY <1>1, <1>3, <1>4, <1>5, <1>6, <1>7, <1>8, KeptTask

LEMMA KeptFinMark ==
  ASSUME FilesInv, FilesInv', SameRun, Kept, NEW r \in Requests, FinMark(r)
  PROVE  Kept'
  <1>1. /\ InStage(r, "mark") /\ UNCHANGED <<doc, link, object, temp, req, setting>>
        /\ fin[r].stage # "none" /\ SetStorageState(r, "stored")
        /\ fin' = [fin EXCEPT ![r].stage = "unlink"]
    BY DEF FinMark, InStage
  <1>2. /\ fin \in [Requests -> Finalizer] /\ fin[r].file \in Contents /\ TaskFits(r)
    BY <1>1 DEF FilesInv, AllTables, Kept
  <1>3. /\ fin'[r].stage = "unlink" /\ fin'[r].file = fin[r].file
        /\ \A s \in Requests \ {r} : fin'[s] = fin[s]
    BY <1>1, <1>2 DEF Finalizer
  <1>4. /\ \A c \in Contents : row'[c].by = row[c].by /\ (row'[c] = NoRow <=> row[c] = NoRow)
        /\ \A c \in Contents : ~RowIs(c, r) => row'[c] = row[c]
        /\ \A c \in Contents : RowIs(c, r) => c = fin[r].file /\ row'[c].state = "stored"
        /\ \A c \in Contents, u \in Requests : RowIs(c, u)' <=> RowIs(c, u)
    BY <1>1, TaskRow
  <1>5. ASSUME NEW c \in Contents, RowIs(c, r)
        PROVE  Readable(c)' \/ \E s \in Requests : Goes(s, c)
    <2>1. c \in object \/ \E s \in Requests : Goes(s, c)
      BY <1>1, <1>2, <1>5 DEF TaskFits
    <2>2. row'[c] # NoRow /\ row'[c].state = "stored"
      BY <1>4, <1>5 DEF RowIs
    <2> QED
      BY <1>1, <2>1, <2>2 DEF Readable
  <1>6. TaskFits(r)'
    <2>1. Deferred' /\ At(r, "done")'
      BY <1>1, <1>2 DEF TaskFits, Deferred, At
    <2> QED
      BY <1>3, <1>4, <2>1 DEF TaskFits, InStage
  <1>7. TempHeld(r)'
    BY <1>3 DEF TempHeld
  <1>8. NoFaults'
    BY <1>1 DEF Kept, NoFaults
  <1> QED
    BY <1>1, <1>3, <1>4, <1>5, <1>6, <1>7, <1>8, KeptTask

LEMMA KeptFinUnlink ==
  ASSUME FilesInv, FilesInv', SameRun, Kept, NEW r \in Requests, FinUnlink(r)
  PROVE  Kept'
  <1>1. /\ InStage(r, "unlink") /\ UNCHANGED <<doc, link, row, object, req, setting>>
        /\ fin[r].stage # "none" /\ temp' = temp \ {r} /\ fin' = [fin EXCEPT ![r] = NoTask]
    BY DEF FinUnlink, InStage, tables
  <1>2. fin \in [Requests -> Finalizer] /\ TaskFits(r)
    BY DEF FilesInv, AllTables, Kept
  <1>3. fin'[r].stage = "none" /\ \A s \in Requests \ {r} : fin'[s] = fin[s]
    BY <1>1, <1>2 DEF NoTask
  <1>4. TaskFits(r)'
    BY <1>3 DEF TaskFits
  <1>5. ASSUME NEW c \in Contents, RowIs(c, r)
        PROVE  row[c].state = "stored" /\ (Readable(c) => Readable(c)')
    BY <1>1, <1>2, <1>5 DEF TaskFits, Readable
  <1>6. NoFaults'
    BY <1>1 DEF Kept, NoFaults
  <1> QED
    BY <1>1, <1>3, <1>4, <1>5, <1>6, KeptTask

LEMMA KeptFinFail ==
  ASSUME FilesInv, FilesInv', SameRun, Kept, NEW r \in Requests, FinFail(r)
  PROVE  Kept'
  <1>1. /\ InStage(r, "fail") /\ UNCHANGED <<doc, link, object, temp, req, setting>>
        /\ fin[r].stage # "none" /\ SetStorageState(r, "failed")
        /\ fin' = [fin EXCEPT ![r] = NoTask]
    BY DEF FinFail, InStage
  <1>2. /\ fin \in [Requests -> Finalizer] /\ fin[r].file \in Contents /\ TaskFits(r)
    BY <1>1 DEF FilesInv, AllTables, Kept
  <1>3. fin'[r].stage = "none" /\ \A s \in Requests \ {r} : fin'[s] = fin[s]
    BY <1>1, <1>2 DEF NoTask
  <1>4. /\ \A c \in Contents : row'[c].by = row[c].by /\ (row'[c] = NoRow <=> row[c] = NoRow)
        /\ \A c \in Contents : ~RowIs(c, r) => row'[c] = row[c]
        /\ \A c \in Contents : RowIs(c, r) => c = fin[r].file /\ row'[c].state = "failed"
        /\ \A c \in Contents, u \in Requests : RowIs(c, u)' <=> RowIs(c, u)
    BY <1>1, TaskRow
  <1>5. ASSUME NEW c \in Contents, RowIs(c, r)
        PROVE  row[c].state = "pending" /\ (Readable(c) => Readable(c)')
    <2>1. row[c].state = "pending"
      BY <1>1, <1>2, <1>5 DEF TaskFits, InStage
    <2>2. row'[c] # NoRow /\ row'[c].state = "failed" /\ row'[c].by = row[c].by
      BY <1>4, <1>5 DEF RowIs
    <2> QED
      BY <1>1, <2>1, <2>2 DEF Readable
  <1>6. TaskFits(r)'
    BY <1>3 DEF TaskFits
  <1>7. ASSUME Solo, r \in temp' PROVE TempHeld(r)'
    <2>1. PICK c \in Contents : c = fin[r].file
      BY <1>2
    <2>2. RowIs(c, r)
      BY <1>1, <1>2, <1>7, <2>1 DEF TaskFits, InStage
    <2> QED
      BY <1>4, <2>2 DEF TempHeld
  <1>8. NoFaults'
    BY <1>1 DEF Kept, NoFaults
  <1> QED
    BY <1>1, <1>3, <1>4, <1>5, <1>6, <1>7, <1>8, KeptTask

-----------------------------------------------------------------------------
(* Theorems about harmless calls.                                          *)

KeptInv == FilesInv /\ (Harmless => Kept)

LEMMA KeptInductive == KeptInv /\ [Next]_vars => KeptInv'
  <1> SUFFICES ASSUME KeptInv, [Next]_vars PROVE KeptInv'
    OBVIOUS
  <1>1. FilesInv /\ FilesInv' /\ SameRun
    BY FilesInductive, RunStays DEF KeptInv, FilesInv
  <1>2. Harmless' <=> Harmless
    BY <1>1 DEF SameRun, Harmless
  <1> SUFFICES ASSUME Harmless PROVE Kept'
    BY <1>1, <1>2 DEF KeptInv
  <1>3. Kept
    BY DEF KeptInv
  <1>4. ASSUME NEW r \in Requests, Call(r) PROVE Kept'
    BY <1>1, <1>3, <1>4, KeptBegin
  <1>5. ASSUME NEW r \in Requests, RequestStep(r) PROVE Kept'
    <2>1. CASE Lookup(r) \/ PutNow(r) \/ Insert(r) \/ Flush(r)
      BY <1>1, <1>3, <2>1, KeptLookup, KeptPutNow, KeptInsert, KeptFlush
    <2>2. CASE (\E c \in Contents : Cleanup(r, c)) \/ DropRow(r)
      BY <1>1, <1>3, <2>2, KeptCleanup, KeptDropRow
    <2>3. CASE Commit(r) \/ DeadlockVictim(r)
      BY <1>1, <1>3, <2>3, KeptCommit, KeptVictim
    <2> QED
      BY <1>5, <2>1, <2>2, <2>3 DEF RequestStep
  <1>6. ASSUME NEW r \in Requests, FinalizerStep(r) PROVE Kept'
    BY <1>1, <1>3, <1>6, KeptFinPut, KeptFinMark, KeptFinUnlink, KeptFinFail DEF FinalizerStep
  <1>7. ~Crash
    BY <1>3 DEF Kept, NoFaults, Crash
  <1>8. CASE UNCHANGED vars
    <2>1. UNCHANGED <<doc, link, row, object, temp, req, fin, setting>>
      BY <1>8 DEF vars
    <2> QED
      BY <1>3, <2>1 DEF Kept, NoFaults, Lone, Adds, Brought, TaskFits, RowKept, TempHeld,
         ObjectHeld, AsRead, Goes, Solo, Adding, Deferred, Active, At, Flushed, Linked,
         RowIs, Readable, LinksOf, InStage
  <1> QED
    BY <1>4, <1>5, <1>6, <1>7, <1>8 DEF Next

LEMMA KeptAlways == Spec => []KeptInv
  <1>1. Init => KeptInv
    BY FilesInitially, KeptInitially DEF KeptInv
  <1> QED
    BY <1>1, KeptInductive, PTL DEF Spec

\* Harmless calls lose no attachment: what a document links can be downloaded,
\* from the object store or from the temp file of its upload, unless a request is
\* removing that very link.
THEOREM AttachmentsStay == Spec => []AttachmentsKept
  <1>1. KeptInv => AttachmentsKept
    <2> SUFFICES ASSUME KeptInv, Harmless, NEW d \in Docs, NEW c \in LinksOf(d)
                 PROVE  \/ Readable(c)
                        \/ \E r \in Requests : Flushed(r) /\ req[r].doc = d /\ c \in req[r].old
      BY DEF AttachmentsKept, LinkedReadable
    <2>1. FilesInv /\ Kept
      BY DEF KeptInv
    <2>2. c \in Contents /\ <<d, c>> \in link /\ row[c] # NoRow
      BY <2>1 DEF LinksOf, FilesInv, ReferencesHold
    <2>3. SUFFICES ASSUME NEW r \in Requests, Goes(r, c)
                   PROVE  Flushed(r) /\ req[r].doc = d /\ c \in req[r].old
      BY <2>1, <2>2 DEF Kept, RowKept
    <2>4. Active(r)
      BY <2>1, <2>2, <2>3, OthersRest
    <2>5. Solo
      BY <2>1, <2>2, <2>3, AddingKeepsFiles DEF Harmless, Solo, Adding
    <2>6. AsRead(r) /\ Shape(req[r])
      BY <2>1, <2>4, <2>5 DEF Kept, Lone, FilesInv, RequestsInv
    <2>7. req[r].doc = d
      BY <2>2, <2>3, <2>6 DEF AsRead
    <2>8. c \in req[r].old /\ req[r].pc \in {"cleanup", "drop", "commit"}
      BY <2>3, <2>6 DEF Goes, Shape, At
    <2> QED
      BY <2>7, <2>8 DEF Flushed
  <1> QED
    BY <1>1, KeptAlways, PTL

\* Harmless calls leave nothing behind: no files row without a link, and with
\* calls one after another no temp file and, on disk, no object without its row.
THEOREM NothingStaysBehind == Spec => []NothingLeaks
  <1>1. KeptInv => NothingLeaks
    <2> SUFFICES ASSUME KeptInv, Harmless
                 PROVE  /\ \A c \in Contents : row[c] # NoRow => \E d \in Docs : <<d, c>> \in link
                        /\ Solo =>
                             /\ \A u \in temp :
                                  \/ Active(u) \/ fin[u] # NoTask
                                  \/ \E c \in Contents : RowIs(c, u) /\ row[c].state # "stored"
                             /\ ~Deferred =>
                                  \A c \in object :
                                      \/ row[c] # NoRow
                                      \/ \E r \in Requests : Active(r) /\ req[r].new = c
      BY DEF NothingLeaks, Solo
    <2>1. Kept
      BY DEF KeptInv
    <2>2. \A c \in Contents : row[c] # NoRow => \E d \in Docs : <<d, c>> \in link
      BY <2>1 DEF Kept, RowKept
    <2>3. ASSUME Solo, NEW u \in temp
          PROVE  \/ Active(u) \/ fin[u] # NoTask
                 \/ \E c \in Contents : RowIs(c, u) /\ row[c].state # "stored"
      <3>1. NoTask.stage = "none"
        BY DEF NoTask
      <3> QED
        BY <2>1, <2>3, <3>1 DEF Kept, TempHeld
    <2>4. ASSUME Solo, ~Deferred, NEW c \in object
          PROVE  \/ row[c] # NoRow
                 \/ \E r \in Requests : Active(r) /\ req[r].new = c
      BY <2>1, <2>4 DEF Kept, ObjectHeld, Active
    <2> QED
      BY <2>2, <2>3, <2>4
  <1> QED
    BY <1>1, KeptAlways, PTL
=============================================================================
