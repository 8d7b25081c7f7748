----------------------------- MODULE SearchSync -----------------------------
(***************************************************************************)
(* The Meilisearch index as a copy of the documents table. Every change is *)
(* committed first; the handler then publishes a task of the search queue, *)
(* and a worker that takes the task reads the rows and sends them. The     *)
(* table and the index are never changed together.                         *)
(*   doc      documents: whether the row is there, and its content (the    *)
(*            number of the change that wrote it)                          *)
(*   order    the documents in the order of created_at                     *)
(*   index    the content the index has of each document, 0 for none       *)
(*   due      tasks whose change is committed and that are not published   *)
(*   queue    the search queue                                             *)
(*   wk       the worker processes                                         *)
(*   used     how many changes, rebuilds, losses and kills there have been *)
(***************************************************************************)
EXTENDS Naturals, FiniteSets, FiniteSetsExt, Sequences

CONSTANTS
    Docs, Workers,
    PageSize,      \* batch_size of a rebuild
    Limits         \* bounds: what a behaviour may have of each kind of Events

\* Creates, edits and deletes; runs of reindex_search.py; publishes that fail and
\* requests that Meilisearch refuses; workers killed in a task.
Events == {"changes", "rebuilds", "lost", "kills"}

ASSUME BoundsAssumption ==
    PageSize \in Nat \ {0} /\ Limits \subseteq [Events -> Nat]

VARIABLES doc, order, index, due, queue, wk, used

vars == <<doc, order, index, due, queue, wk, used>>
table == <<doc, order>>

Task == [kind: {"sync", "batch", "delete", "rebuild"}, docs: SUBSET Docs]
NoTask == [kind |-> "rebuild", docs |-> {}]

\* payload is what the worker has read of the task's documents, 0 for no row.
Process == [pc: {"idle", "page", "read", "send", "remove"}, task: Task,
            payload: [Docs -> Nat], offset: Nat]
Idle == [pc |-> "idle", task |-> NoTask, payload |-> [d \in Docs |-> 0],
         offset |-> 0]

TypeOK ==
    /\ doc \in [Docs -> [live: BOOLEAN, text: Nat]]
    /\ order \in Seq(Docs)
    /\ index \in [Docs -> Nat]
    /\ DOMAIN due = Task /\ \A t \in Task : due[t] \in Nat
    /\ queue \in Seq(Task)
    /\ wk \in [Workers -> Process]
    /\ used \in [Events -> Nat]

Init ==
    /\ doc = [d \in Docs |-> [live |-> FALSE, text |-> 0]]
    /\ order = <<>>
    /\ index = [d \in Docs |-> 0]
    /\ due = [t \in Task |-> 0]
    /\ queue = <<>>
    /\ wk = [w \in Workers |-> Idle]
    /\ used = [k \in Events |-> 0]

-----------------------------------------------------------------------------
(* The handlers: commit, then publish.                                     *)

LiveDocs == {d \in Docs : doc[d].live}

\* One more event of a kind, within one of the bounds.
Count(kind) ==
    /\ used' = [used EXCEPT ![kind] = @ + 1]
    /\ \E limit \in Limits : \A k \in Events : used'[k] <= limit[k]

Change == Count("changes") /\ UNCHANGED <<index, queue, wk>>

Due(kind, ds) == due' = [due EXCEPT ![[kind |-> kind, docs |-> ds]] = @ + 1]

Create(d) ==
    /\ ~doc[d].live /\ doc[d].text = 0
    /\ Change
    /\ doc' = [doc EXCEPT ![d] = [live |-> TRUE, text |-> 1]]
    /\ order' = Append(order, d)
    /\ Due("sync", {d})

\* Fault: the endpoint forgets to enqueue.
Edit_NotQueued(ds) ==
    /\ ds # {} /\ ds \subseteq LiveDocs
    /\ Change
    /\ doc' = [d \in Docs |-> IF d \in ds THEN [doc[d] EXCEPT !.text = @ + 1]
                                          ELSE doc[d]]
    /\ UNCHANGED <<due, order>>

\* One document, or the many of a bulk review or a rules backfill.
Edit(ds) ==
    /\ ds # {} /\ ds \subseteq LiveDocs
    /\ Change
    /\ doc' = [d \in Docs |-> IF d \in ds THEN [doc[d] EXCEPT !.text = @ + 1]
                                          ELSE doc[d]]
    /\ Due(IF Cardinality(ds) = 1 THEN "sync" ELSE "batch", ds)
    /\ UNCHANGED order

Delete(d) ==
    /\ doc[d].live
    /\ Change
    /\ doc' = [doc EXCEPT ![d].live = FALSE]
    /\ Due("delete", {d})
    /\ UNCHANGED order

Enqueue(t) ==
    /\ due[t] > 0
    /\ due' = [due EXCEPT ![t] = @ - 1]
    /\ queue' = Append(queue, t)
    /\ UNCHANGED <<table, index, wk, used>>

\* The publish fails: a warning is logged and the request succeeds.
EnqueueLost(t) ==
    /\ due[t] > 0
    /\ Count("lost")
    /\ due' = [due EXCEPT ![t] = @ - 1]
    /\ UNCHANGED <<table, index, queue, wk>>

Reindex ==
    /\ Count("rebuilds")
    /\ queue' = Append(queue, [kind |-> "rebuild", docs |-> {}])
    /\ UNCHANGED <<table, index, due, wk>>

-----------------------------------------------------------------------------
(* The tasks.                                                              *)

IsAt(w, pc) == wk[w].pc = pc
Step(w, p) == wk' = [wk EXCEPT ![w] = p]

Take(w) ==
    /\ IsAt(w, "idle")
    /\ queue # <<>>
    /\ queue' = Tail(queue)
    /\ LET t == Head(queue)
       IN  Step(w, [Idle EXCEPT !.task = t,
                      !.pc = CASE t.kind = "rebuild" -> "page"
                               [] t.kind = "delete" -> "remove"
                               [] OTHER -> "read"])
    /\ UNCHANGED <<table, index, due, used>>

\* The place of the i-th created document among the rows there are now. (No two have
\* the same created_at here; the order of such rows is the database's to choose,
\* for each page anew.)
Place(i) == Cardinality({k \in 1 .. i : doc[order[k]].live})

RowsAt(places) ==
    {order[i] : i \in {k \in DOMAIN order : doc[order[k]].live /\ Place(k) \in places}}

\* Fault: a page starts one row late.
PageFrom_OffByOne(from) == RowsAt(from + 2 .. from + PageSize + 1)

\* The ids of one page: order by created_at, offset, limit.
PageFrom(from) == RowsAt(from + 1 .. from + PageSize)

\* The next page of a rebuild, by offset over the rows there are now.
Page(w) ==
    /\ IsAt(w, "page")
    /\ LET ids == PageFrom(wk[w].offset)
       IN  IF ids = {}
           THEN Step(w, Idle)
           ELSE Step(w, [wk[w] EXCEPT !.pc = "read", !.task.docs = ids,
                           !.offset = @ + Cardinality(ids)])
    /\ UNCHANGED <<table, index, due, queue, used>>

ReadRows(w) ==
    /\ IsAt(w, "read")
    /\ Step(w, [wk[w] EXCEPT !.pc = "send",
                  !.payload = [d \in Docs |->
                      IF d \in wk[w].task.docs /\ doc[d].live
                      THEN doc[d].text ELSE 0]])
    /\ UNCHANGED <<table, index, due, queue, used>>

\* What a task does next. Only the task of a single document looks for rows
\* that are gone.
AfterSend(p) ==
    CASE p.task.kind = "rebuild" -> [p EXCEPT !.pc = "page"]
      [] p.task.kind = "sync" /\ \A d \in Docs : p.payload[d] = 0
                                 -> [p EXCEPT !.pc = "remove"]
      [] OTHER -> Idle

Send(w) ==
    /\ IsAt(w, "send")
    /\ LET sent == wk[w].payload
       IN  index' = [d \in Docs |-> IF sent[d] # 0 THEN sent[d] ELSE index[d]]
    /\ Step(w, AfterSend(wk[w]))
    /\ UNCHANGED <<table, due, queue, used>>

DeleteEntry(w) ==
    /\ IsAt(w, "remove")
    /\ index' = [d \in Docs |-> IF d \in wk[w].task.docs THEN 0 ELSE index[d]]
    /\ Step(w, Idle)
    /\ UNCHANGED <<table, due, queue, used>>

\* Meilisearch refuses: the task raises and is acknowledged, nobody retries it.
RequestFails(w) ==
    /\ wk[w].pc \in {"send", "remove"}
    /\ Count("lost")
    /\ Step(w, Idle)
    /\ UNCHANGED <<table, index, due, queue>>

\* The worker dies; its unacknowledged task is delivered again.
Killed(w) ==
    /\ ~IsAt(w, "idle")
    /\ Count("kills")
    /\ queue' = Append(queue, IF wk[w].task.kind = "rebuild"
                              THEN [kind |-> "rebuild", docs |-> {}]
                              ELSE wk[w].task)
    /\ Step(w, Idle)
    /\ UNCHANGED <<table, index, due>>

-----------------------------------------------------------------------------
WorkerStep(w) == Take(w) \/ Page(w) \/ ReadRows(w) \/ Send(w) \/ DeleteEntry(w)

Next ==
    \/ \E d \in Docs : Create(d) \/ Delete(d)
    \/ \E ds \in SUBSET Docs : Edit(ds)
    \/ \E t \in Task : Enqueue(t) \/ EnqueueLost(t)
    \/ Reindex
    \/ \E w \in Workers : WorkerStep(w) \/ RequestFails(w) \/ Killed(w)

\* Handlers that committed go on to publish, and workers work.
Fairness ==
    /\ \A t \in Task : WF_vars(Enqueue(t))
    /\ \A w \in Workers : WF_vars(WorkerStep(w))

Spec == Init /\ [][Next]_vars
FairSpec == Spec /\ Fairness

-----------------------------------------------------------------------------
(* Properties.                                                             *)

Truth(d) == IF doc[d].live THEN doc[d].text ELSE 0
Quiet == /\ \A t \in Task : due[t] = 0
         /\ queue = <<>>
         /\ \A w \in Workers : IsAt(w, "idle")

\* When nothing is left to do and nothing was lost the index is the table: every
\* create, edit and delete has been reflected, in whatever order its commit, its
\* task, a redelivery and a rebuild fell (with one worker process).
QuietMeansIndexed ==
    Quiet /\ used.lost = 0 => \A d \in Docs : index[d] = Truth(d)

RebuildStarts == \E w \in Workers : IsAt(w, "page") /\ wk[w].offset = 0
RowsIndexed == \A d \in LiveDocs : index[d] = doc[d].text
Troubles == used.changes + used.lost + used.kills
MostTroubles == Max({limit.changes + limit.lost + limit.kills : limit \in Limits})

\* The index catches up. Every change reaches it in the end, unless something is
\* lost; and whatever was lost before it, a rebuild that meets no further change,
\* loss or kill has every row indexed: its pages by offset leave no row out.
IndexCatchesUp ==
    /\ \A d \in Docs : index[d] # Truth(d) ~> index[d] = Truth(d) \/ used.lost > 0
    /\ \A n \in 0 .. MostTroubles :
         RebuildStarts /\ Troubles = n ~> RowsIndexed \/ Troubles > n
=============================================================================
