---------------------------- MODULE CopiesProofs ----------------------------
(***************************************************************************)
(* The copies of what the application keeps. What holds of the search index *)
(* for every set of documents, page size and limits: type correctness, and  *)
(* that with one worker process an idle system that lost nothing has the    *)
(* index of its table. Of backups for every set of attachments and backup   *)
(* requests and every setting: type correctness, that the sets an accepted  *)
(* run-all or an export leaves can be restored together, and that a refused *)
(* or failed run-all leaves no file but those it tried in vain to delete.   *)
(* And of restores for every set of requests, objects, databases and        *)
(* archives: type correctness, that                                         *)
(* databases restored into different targets never leave the application    *)
(* without a whole database, that a set is back when both of its halves     *)
(* are, and that an objects restore is exact where no two of them overlap.  *)
(***************************************************************************)
EXTENDS SearchSync, Backups, Restore, FiniteSetTheorems, SequenceTheorems, TLAPS

OneWorker == \A v, w \in Workers : v = w

-----------------------------------------------------------------------------
(* The search index.                                                       *)

\* A document that has been deleted never comes back.
Dead(d) == ~doc[d].live /\ doc[d].text > 0

\* A task names documents that have been created, one that deletes their entries
\* documents that are gone.
Known(t) ==
    /\ t.kind # "rebuild" => \A d \in t.docs : doc[d].text > 0
    /\ t.kind = "delete" => \A d \in t.docs : Dead(d)

TasksKnown ==
    /\ \A t \in Task : due[t] > 0 => Known(t)
    /\ \A i \in 1 .. Len(queue) : Known(queue[i])
    /\ \A w \in Workers : ~IsAt(w, "idle") => Known(wk[w].task)

\* Where a task is, and what its worker has read: contents the document had, and
\* none of a document that is gone.
Works(p) ==
    /\ p.pc = "page" => p.task.kind = "rebuild"
    /\ p.pc \in {"read", "send"} => p.task.kind # "delete"
    /\ p.pc = "remove" => p.task.kind # "rebuild" /\ \A d \in p.task.docs : Dead(d)
    /\ p.pc = "send" =>
         \A d \in Docs :
           /\ p.payload[d] <= doc[d].text
           /\ p.task.kind # "rebuild" /\ d \in p.task.docs /\ p.payload[d] = 0 => Dead(d)

Working == \A w \in Workers : Works(wk[w])

Written ==
    \A d \in Docs : index[d] <= doc[d].text /\ (doc[d].live => doc[d].text > 0)

\* A task that will bring the entry of a document up to date: of a row that is gone
\* only the delete task does.
Names(t, d) ==
    /\ d \in t.docs
    /\ IF doc[d].live THEN t.kind \in {"sync", "batch"} ELSE t.kind = "delete"

Holds(p, d) ==
    /\ Names(p.task, d)
    /\ p.pc \in {"read", "remove"} \/ (p.pc = "send" /\ p.payload[d] = doc[d].text)

DueFor(d) == \E t \in Task : due[t] > 0 /\ Names(t, d)
QueuedFor(d) == \E i \in 1 .. Len(queue) : Names(queue[i], d)
HeldFor(d) == \E w \in Workers : Holds(wk[w], d)
Coming(d) == DueFor(d) \/ QueuedFor(d) \/ HeldFor(d)

\* The entry is right and no worker is about to overwrite it with an old content.
Shown(d) ==
    /\ index[d] = Truth(d)
    /\ \A w \in Workers : IsAt(w, "send") => wk[w].payload[d] \in {0, Truth(d)}

IndexInv ==
    /\ TypeOK /\ TasksKnown /\ Working /\ Written
    /\ OneWorker /\ used.lost = 0 => \A d \in Docs : Coming(d) \/ Shown(d)

-----------------------------------------------------------------------------
(* Lemmas.                                                                 *)

LEMMA SearchInitially == Init => IndexInv
  <1> SUFFICES ASSUME Init PROVE IndexInv
    OBVIOUS
  <1>1. Idle \in Process /\ Idle.pc = "idle"
    BY DEF Idle, Process, NoTask, Task
  <1>2. TypeOK
    <2>1. used \in [Events -> Nat] /\ wk \in [Workers -> Process]
      BY <1>1 DEF Init
    <2>2. order \in Seq(Docs) /\ queue \in Seq(Task)
      BY DEF Init
    <2> QED
      BY <2>1, <2>2 DEF Init, TypeOK
  <1>3. \A w \in Workers : wk[w].pc = "idle"
    BY <1>1 DEF Init
  <1>4. \A d \in Docs : index[d] = Truth(d)
    BY DEF Init, Truth
  <1>5. Len(queue) = 0
    BY DEF Init
  <1> QED
    BY <1>2, <1>3, <1>4, <1>5
    DEF Init, IndexInv, TasksKnown, Working, Works, Written, Shown, IsAt

LEMMA CountRun ==
  ASSUME TypeOK, NEW kind \in Events, Count(kind)
  PROVE  /\ used' \in [Events -> Nat] /\ used'.lost >= used.lost
         /\ kind = "lost" => used'.lost # 0
         /\ used.lost \in Nat /\ used'.lost \in Nat
  <1>1. used \in [Events -> Nat] /\ used' = [used EXCEPT ![kind] = @ + 1]
    BY DEF TypeOK, Count
  <1>2. "lost" \in Events
    BY DEF Events
  <1> QED
    BY <1>1, <1>2

\* A page has documents only, finitely many.
LEMMA PageTyped ==
  ASSUME TypeOK, NEW from
  PROVE  PageFrom(from) \in SUBSET Docs /\ Cardinality(PageFrom(from)) \in Nat
  <1> DEFINE I == {k \in DOMAIN order : doc[order[k]].live /\ Place(k) \in from + 1 .. from + PageSize}
             f == [i \in I |-> order[i]]
  <1>1. order \in Seq(Docs)
    BY DEF TypeOK
  <1>2. DOMAIN order = 1 .. Len(order) /\ Len(order) \in Nat
        /\ \A i \in 1 .. Len(order) : order[i] \in Docs
    BY <1>1
  <1>3. PageFrom(from) = {order[i] : i \in I}
    BY DEF PageFrom, RowsAt
  <1>4. IsFiniteSet(I)
    <2>1. IsFiniteSet(1 .. Len(order))
      BY <1>2, FS_Interval
    <2> QED
      BY <1>2, <2>1, FS_Subset
  <1> HIDE DEF I
  <1>5. f \in Surjection(I, PageFrom(from))
    BY <1>3 DEF Surjection
  <1>6. IsFiniteSet(PageFrom(from))
    BY <1>4, <1>5, FS_Surjection
  <1>7. PageFrom(from) \in SUBSET Docs
    BY <1>2, <1>3 DEF I
  <1> QED
    BY <1>6, <1>7, FS_CardinalityType

\* A handler commits a change, and what it will publish covers what it changed.
LEMMA ChangeStep ==
  ASSUME IndexInv, NEW kind \in Events, Count(kind), UNCHANGED <<index, queue, wk>>,
         NEW t \in Task, due' = [due EXCEPT ![t] = @ + 1], Known(t)',
         doc' \in [Docs -> [live: BOOLEAN, text: Nat]], order' \in Seq(Docs),
         \A d \in Docs : /\ doc'[d].text >= doc[d].text
                         /\ doc'[d].live => doc'[d].text > 0
                         /\ Dead(d) => doc'[d] = doc[d]
                         /\ doc'[d] = doc[d] \/ Names(t, d)'
  PROVE  IndexInv'
  <1>1. TypeOK /\ TasksKnown /\ Working /\ Written
    BY DEF IndexInv
  <1>2. /\ \A u \in Task : due[u] \in Nat /\ due'[u] \in Nat /\ due'[u] >= due[u]
        /\ DOMAIN due' = Task /\ due'[t] > 0
        /\ \A u \in Task : u # t => due'[u] = due[u]
    BY <1>1 DEF TypeOK
  <1>3. TypeOK'
    BY <1>1, <1>2, CountRun DEF TypeOK
  <1>4. \A d \in Docs : /\ Dead(d) => Dead(d)'
                        /\ doc[d].text > 0 => doc'[d].text > 0
                        /\ doc[d].text \in Nat /\ doc'[d].text \in Nat
    BY <1>1 DEF TypeOK, Dead
  <1>5. ASSUME NEW u, u.docs \in SUBSET Docs, Known(u) PROVE Known(u)'
    BY <1>4, <1>5 DEF Known
  <1>6. TasksKnown'
    <2>1. ASSUME NEW u \in Task, due'[u] > 0 PROVE Known(u)'
      <3>1. u # t => Known(u)
        BY <1>1, <1>2, <2>1 DEF TasksKnown
      <3> QED
        BY <1>5, <3>1 DEF Task
    <2>2. ASSUME NEW i \in 1 .. Len(queue) PROVE Known(queue[i])'
      <3>1. PICK u \in Task : u = queue[i]
        BY <1>1 DEF TypeOK
      <3>2. Known(u)
        BY <1>1, <3>1 DEF TasksKnown
      <3>3. Known(u)'
        BY <1>5, <3>2 DEF Task
      <3> QED
        BY <3>1, <3>3 DEF Known
    <2>3. ASSUME NEW w \in Workers, ~IsAt(w, "idle")' PROVE Known(wk[w].task)'
      <3>1. PICK u \in Task : u = wk[w].task
        BY <1>1 DEF TypeOK, Process
      <3>2. Known(u)
        BY <1>1, <2>3, <3>1 DEF TasksKnown, IsAt
      <3>3. Known(u)'
        BY <1>5, <3>2 DEF Task
      <3> QED
        BY <3>1, <3>3 DEF Known
    <2> QED
      BY <2>1, <2>2, <2>3 DEF TasksKnown
  <1>7. Working'
    <2>1. ASSUME NEW w \in Workers, IsAt(w, "send"), NEW d \in Docs
          PROVE  wk[w].payload[d] <= doc'[d].text
      <3>1. wk[w].payload[d] \in Nat /\ wk[w].payload[d] <= doc[d].text
        BY <1>1, <2>1 DEF TypeOK, Process, Working, Works, IsAt
      <3> QED
        BY <1>4, <3>1
    <2>2. \A w \in Workers : wk[w].task.docs \subseteq Docs
      BY <1>1 DEF TypeOK, Process, Task
    <2> QED
      BY <1>1, <1>4, <2>1, <2>2 DEF Working, Works, IsAt
  <1>8. Written'
    <2>1. \A d \in Docs : index[d] \in Nat
      BY <1>1 DEF TypeOK
    <2> QED
      BY <1>1, <1>4, <2>1 DEF Written
  <1>9. ASSUME OneWorker, used'.lost = 0, NEW d \in Docs PROVE (Coming(d) \/ Shown(d))'
    <2>1. used.lost = 0
      BY <1>1, <1>9, CountRun
    <2>2. CASE Names(t, d)'
      BY <1>2, <2>2 DEF Coming, DueFor
    <2>3. CASE doc'[d] = doc[d]
      <3>1. \A u : Names(u, d)' <=> Names(u, d)
        BY <2>3 DEF Names
      <3>2. CASE Shown(d)
        BY <2>3, <3>2 DEF Shown, Truth, IsAt
      <3>3. CASE DueFor(d)
        BY <1>2, <3>1, <3>3 DEF Coming, DueFor
      <3>4. CASE QueuedFor(d)
        <4>1. PICK i \in 1 .. Len(queue) : Names(queue[i], d)
          BY <3>4 DEF QueuedFor
        <4>2. Names(queue[i], d)'
          BY <2>3, <4>1 DEF Names
        <4> QED
          BY <4>2 DEF Coming, QueuedFor
      <3>5. CASE HeldFor(d)
        <4>1. PICK w \in Workers : Holds(wk[w], d)
          BY <3>5 DEF HeldFor
        <4>2. Holds(wk[w], d)'
          BY <2>3, <4>1 DEF Holds, Names
        <4> QED
          BY <4>2 DEF Coming, HeldFor
      <3> QED
        BY <1>9, <2>1, <3>2, <3>3, <3>4, <3>5 DEF IndexInv, Coming
    <2> QED
      BY <2>2, <2>3
  <1> QED
    BY <1>3, <1>6, <1>7, <1>8, <1>9 DEF IndexInv

LEMMA CreateStep ==
  ASSUME IndexInv, NEW d \in Docs, Create(d)
  PROVE  IndexInv'
  <1>1. TypeOK
    BY DEF IndexInv
  <1>2. PICK t : t = [kind |-> "sync", docs |-> {d}]
    OBVIOUS
  <1>3. t \in Task /\ t.kind = "sync" /\ t.docs = {d}
    BY <1>2 DEF Task
  <1>4. PICK n \in [live: BOOLEAN, text: Nat] : n = [live |-> TRUE, text |-> 1]
    OBVIOUS
  <1>5. doc' = [doc EXCEPT ![d] = n] /\ n.live /\ n.text = 1
    BY <1>4 DEF Create
  <1>6. /\ doc' \in [Docs -> [live: BOOLEAN, text: Nat]] /\ doc'[d] = n
        /\ \A e \in Docs : e # d => doc'[e] = doc[e]
        /\ \A e \in Docs : doc[e].text \in Nat
    BY <1>1, <1>5 DEF TypeOK
  <1>7. order' \in Seq(Docs) /\ doc[d].text = 0
    BY <1>1 DEF Create, TypeOK
  <1>8. Known(t)' /\ Names(t, d)'
    BY <1>3, <1>5, <1>6 DEF Known, Names
  <1>9. \A e \in Docs : /\ doc'[e].text >= doc[e].text
                        /\ doc'[e].live => doc'[e].text > 0
                        /\ Dead(e) => doc'[e] = doc[e]
                        /\ doc'[e] = doc[e] \/ Names(t, e)'
    BY <1>5, <1>6, <1>7, <1>8 DEF IndexInv, Written, Dead
  <1>10. /\ Count("changes") /\ "changes" \in Events
         /\ UNCHANGED <<index, queue, wk>> /\ due' = [due EXCEPT ![t] = @ + 1]
    BY <1>2 DEF Create, Change, Due, Events
  <1> QED
    BY <1>3, <1>6, <1>7, <1>8, <1>9, <1>10, ChangeStep

LEMMA EditStep ==
  ASSUME IndexInv, NEW ds \in SUBSET Docs, Edit(ds)
  PROVE  IndexInv'
  <1>1. TypeOK
    BY DEF IndexInv
  <1>2. PICK k \in {"sync", "batch"} : k = IF Cardinality(ds) = 1 THEN "sync" ELSE "batch"
    OBVIOUS
  <1>3. PICK t : t = [kind |-> k, docs |-> ds]
    OBVIOUS
  <1>4. t \in Task /\ t.kind = k /\ t.docs = ds
    BY <1>3 DEF Task
  <1>5. /\ doc' = [d \in Docs |-> IF d \in ds THEN [doc[d] EXCEPT !.text = @ + 1] ELSE doc[d]]
        /\ doc \in [Docs -> [live: BOOLEAN, text: Nat]]
    BY <1>1 DEF Edit, TypeOK
  <1>6. ASSUME NEW d \in Docs
        PROVE  /\ doc'[d] \in [live: BOOLEAN, text: Nat]
               /\ doc'[d].live = doc[d].live /\ doc[d].text \in Nat
               /\ doc'[d].text = IF d \in ds THEN doc[d].text + 1 ELSE doc[d].text
               /\ d \notin ds => doc'[d] = doc[d]
               /\ d \in ds => doc[d].live
    <2>1. d \in ds => doc[d].live
      BY DEF Edit, LiveDocs
    <2> QED
      BY <1>5, <2>1
  <1>7. doc' \in [Docs -> [live: BOOLEAN, text: Nat]]
    BY <1>5, <1>6
  <1>8. Known(t)' /\ \A d \in ds : Names(t, d)'
    BY <1>2, <1>4, <1>6 DEF Known, Names
  <1>9. \A e \in Docs : /\ doc'[e].text >= doc[e].text
                        /\ doc'[e].live => doc'[e].text > 0
                        /\ Dead(e) => doc'[e] = doc[e]
                        /\ doc'[e] = doc[e] \/ Names(t, e)'
    BY <1>6, <1>8 DEF IndexInv, Written, Dead
  <1>10. /\ Count("changes") /\ "changes" \in Events /\ order' \in Seq(Docs)
         /\ UNCHANGED <<index, queue, wk>> /\ due' = [due EXCEPT ![t] = @ + 1]
    BY <1>1, <1>2, <1>3 DEF Edit, Change, Due, Events, TypeOK
  <1> QED
    BY <1>4, <1>7, <1>8, <1>9, <1>10, ChangeStep

LEMMA DropStep ==
  ASSUME IndexInv, NEW d \in Docs, Delete(d)
  PROVE  IndexInv'
  <1>1. TypeOK
    BY DEF IndexInv
  <1>2. PICK t : t = [kind |-> "delete", docs |-> {d}]
    OBVIOUS
  <1>3. t \in Task /\ t.kind = "delete" /\ t.docs = {d}
    BY <1>2 DEF Task
  <1>4. PICK o \in [live: BOOLEAN, text: Nat] : o = doc[d]
    BY <1>1 DEF TypeOK
  <1>5. PICK n : n = [o EXCEPT !.live = FALSE]
    OBVIOUS
  <1>6. n \in [live: BOOLEAN, text: Nat] /\ ~n.live /\ n.text = o.text
    BY <1>5
  <1>7. doc' = [doc EXCEPT ![d] = n]
    BY <1>4, <1>5 DEF Delete
  <1>8. /\ doc' \in [Docs -> [live: BOOLEAN, text: Nat]] /\ doc'[d] = n
        /\ \A e \in Docs : e # d => doc'[e] = doc[e]
        /\ \A e \in Docs : doc[e].text \in Nat
    BY <1>1, <1>6, <1>7 DEF TypeOK
  <1>9. o.live /\ o.text > 0
    BY <1>4 DEF Delete, IndexInv, Written
  <1>10. Known(t)' /\ Names(t, d)'
    BY <1>3, <1>6, <1>8, <1>9 DEF Known, Names, Dead
  <1>11. \A e \in Docs : /\ doc'[e].text >= doc[e].text
                         /\ doc'[e].live => doc'[e].text > 0
                         /\ Dead(e) => doc'[e] = doc[e]
                         /\ doc'[e] = doc[e] \/ Names(t, e)'
    BY <1>4, <1>6, <1>8, <1>9, <1>10 DEF IndexInv, Written, Dead
  <1>12. /\ Count("changes") /\ "changes" \in Events /\ order' \in Seq(Docs)
         /\ UNCHANGED <<index, queue, wk>> /\ due' = [due EXCEPT ![t] = @ + 1]
    BY <1>1, <1>2 DEF Delete, Change, Due, Events, TypeOK
  <1> QED
    BY <1>3, <1>8, <1>10, <1>11, <1>12, ChangeStep

-----------------------------------------------------------------------------
(* The queue and the worker.                                               *)

LEMMA Appended ==
  ASSUME TypeOK, NEW t \in Task, queue' = Append(queue, t)
  PROVE  /\ queue' \in Seq(Task) /\ Len(queue) \in Nat /\ Len(queue') = Len(queue) + 1
         /\ \A i \in 1 .. Len(queue) : queue'[i] = queue[i]
         /\ queue'[Len(queue) + 1] = t
         /\ \A d : QueuedFor(d) /\ doc' = doc => QueuedFor(d)'
         /\ \A d : Names(t, d) /\ doc' = doc => QueuedFor(d)'
         /\ TasksKnown /\ Known(t) /\ doc' = doc =>
              \A i \in 1 .. Len(queue') : Known(queue'[i])
  <1>1. queue \in Seq(Task) /\ Len(queue) \in Nat
    BY DEF TypeOK
  <1>2. /\ queue' \in Seq(Task) /\ Len(queue') = Len(queue) + 1
        /\ \A i \in 1 .. Len(queue) : queue'[i] = queue[i]
        /\ queue'[Len(queue) + 1] = t
    BY <1>1, AppendProperties
  <1>3. ASSUME NEW d, QueuedFor(d), doc' = doc PROVE QueuedFor(d)'
    <2>1. PICK i \in 1 .. Len(queue) : Names(queue[i], d)
      BY <1>3 DEF QueuedFor
    <2>2. i \in 1 .. Len(queue') /\ Names(queue'[i], d)
      BY <1>1, <1>2, <2>1
    <2> QED
      BY <1>3, <2>2 DEF QueuedFor, Names
  <1>4. ASSUME NEW d, Names(t, d), doc' = doc PROVE QueuedFor(d)'
    <2>1. Len(queue) + 1 \in 1 .. Len(queue')
      BY <1>1, <1>2
    <2>2. Names(queue'[Len(queue) + 1], d)
      BY <1>2, <1>4
    <2> QED
      BY <1>4, <2>1, <2>2 DEF QueuedFor, Names
  <1>5. ASSUME TasksKnown, Known(t), NEW i \in 1 .. Len(queue') PROVE Known(queue'[i])
    <2>1. i \in 1 .. Len(queue) \/ i = Len(queue) + 1
      BY <1>1, <1>2
    <2>2. CASE i \in 1 .. Len(queue)
      BY <1>2, <1>5, <2>2 DEF TasksKnown
    <2> QED
      BY <1>2, <1>5, <2>1, <2>2
  <1> QED
    BY <1>1, <1>2, <1>3, <1>4, <1>5

\* A task is published, lost or added while the workers stay where they are.
LEMMA QueueStep ==
  ASSUME IndexInv, UNCHANGED <<doc, order, index, wk>>,
         queue' \in Seq(Task), used' \in [Events -> Nat],
         DOMAIN due' = Task, \A t \in Task : due'[t] \in Nat /\ due'[t] <= due[t],
         \A i \in 1 .. Len(queue') : Known(queue'[i]),
         used'.lost = 0 =>
            /\ used.lost = 0
            /\ \A d \in Docs : DueFor(d) \/ QueuedFor(d) => DueFor(d)' \/ QueuedFor(d)'
  PROVE  IndexInv'
  <1>1. TypeOK /\ TasksKnown /\ Working /\ Written
    BY DEF IndexInv
  <1>2. TypeOK'
    BY <1>1 DEF TypeOK
  <1>3. \A t \in Task : due[t] \in Nat
    BY <1>1 DEF TypeOK
  <1>4. TasksKnown'
    BY <1>1, <1>3 DEF TasksKnown, Known, Dead, IsAt
  <1>5. Working' /\ Written'
    BY <1>1 DEF Working, Works, Written, Dead
  <1>6. ASSUME OneWorker, used'.lost = 0, NEW d \in Docs PROVE (Coming(d) \/ Shown(d))'
    <2>1. Coming(d) \/ Shown(d)
      BY <1>6 DEF IndexInv
    <2>2. HeldFor(d) => HeldFor(d)'
      BY DEF HeldFor, Holds, Names
    <2>3. Shown(d) => Shown(d)'
      BY DEF Shown, Truth, IsAt
    <2> QED
      BY <1>6, <2>1, <2>2, <2>3 DEF Coming
  <1> QED
    BY <1>2, <1>4, <1>5, <1>6 DEF IndexInv

LEMMA PublishStep ==
  ASSUME IndexInv, NEW t \in Task, Enqueue(t) \/ EnqueueLost(t)
  PROVE  IndexInv'
  <1>1. TypeOK /\ TasksKnown /\ due[t] > 0 /\ due' = [due EXCEPT ![t] = @ - 1]
        /\ UNCHANGED <<doc, order, index, wk>>
    BY DEF IndexInv, Enqueue, EnqueueLost, table
  <1>2. /\ DOMAIN due' = Task /\ \A u \in Task : due'[u] \in Nat /\ due'[u] <= due[u]
        /\ \A u \in Task : u # t => due'[u] = due[u]
    BY <1>1 DEF TypeOK
  <1>3. CASE Enqueue(t)
    <2>1. queue' = Append(queue, t) /\ used' = used
      BY <1>3 DEF Enqueue
    <2>2. Known(t)
      BY <1>1 DEF TasksKnown
    <2>3. ASSUME NEW d \in Docs, DueFor(d) \/ QueuedFor(d)
          PROVE  DueFor(d)' \/ QueuedFor(d)'
      <3>1. CASE QueuedFor(d)
        BY <1>1, <2>1, <3>1, Appended
      <3>2. CASE DueFor(d)
        <4>1. PICK u \in Task : due[u] > 0 /\ Names(u, d)
          BY <3>2 DEF DueFor
        <4>2. CASE u = t
          BY <1>1, <2>1, <4>1, <4>2, Appended
        <4>3. CASE u # t
          BY <1>1, <1>2, <4>1, <4>3 DEF DueFor, Names
        <4> QED
          BY <4>2, <4>3
      <3> QED
        BY <2>3, <3>1, <3>2
    <2>4. used' \in [Events -> Nat] /\ queue' \in Seq(Task)
      BY <1>1, <2>1, Appended DEF TypeOK
    <2>5. \A i \in 1 .. Len(queue') : Known(queue'[i])
      BY <1>1, <2>1, <2>2, Appended
    <2> QED
      BY <1>1, <1>2, <2>1, <2>3, <2>4, <2>5, QueueStep
  <1>4. CASE EnqueueLost(t)
    <2>1. queue' = queue /\ Count("lost") /\ "lost" \in Events
      BY <1>4 DEF EnqueueLost, Events
    <2>2. used' \in [Events -> Nat] /\ used'.lost # 0
      BY <1>1, <2>1, CountRun
    <2>3. queue' \in Seq(Task) /\ \A i \in 1 .. Len(queue') : Known(queue'[i])
      BY <1>1, <2>1 DEF TypeOK, TasksKnown
    <2> QED
      BY <1>1, <1>2, <2>2, <2>3, QueueStep
  <1> QED
    BY <1>3, <1>4

LEMMA ReindexStep ==
  ASSUME IndexInv, Reindex
  PROVE  IndexInv'
  <1>1. TypeOK /\ TasksKnown /\ UNCHANGED <<doc, order, index, due, wk>>
    BY DEF IndexInv, Reindex, table
  <1>2. PICK t : t = [kind |-> "rebuild", docs |-> {}]
    OBVIOUS
  <1>3. t \in Task /\ Known(t) /\ queue' = Append(queue, t)
    BY <1>2 DEF Task, Known, Reindex
  <1>4. "rebuilds" \in Events /\ Count("rebuilds")
    BY DEF Events, Reindex
  <1>5. used' \in [Events -> Nat] /\ (used'.lost = 0 => used.lost = 0)
    BY <1>1, <1>4, CountRun
  <1>6. /\ DOMAIN due' = Task /\ \A u \in Task : due'[u] \in Nat /\ due'[u] <= due[u]
    BY <1>1 DEF TypeOK
  <1>7. queue' \in Seq(Task) /\ \A i \in 1 .. Len(queue') : Known(queue'[i])
    BY <1>1, <1>3, Appended
  <1>8. \A d : DueFor(d) \/ QueuedFor(d) => DueFor(d)' \/ QueuedFor(d)'
    BY <1>1, <1>3, Appended DEF DueFor, Names
  <1> QED
    BY <1>1, <1>5, <1>6, <1>7, <1>8, QueueStep

\* A worker goes on to p: each entry is right, or something will bring it up to date.
LEMMA WorkerMove ==
  ASSUME IndexInv, NEW w \in Workers, NEW p \in Process, Step(w, p),
         UNCHANGED <<doc, order, due>>,
         index' \in [Docs -> Nat], \A d \in Docs : index'[d] <= doc[d].text,
         queue' \in Seq(Task), used' \in [Events -> Nat],
         \A i \in 1 .. Len(queue') : Known(queue'[i]),
         p.pc # "idle" => Known(p.task), Works(p),
         OneWorker /\ used'.lost = 0 =>
            \A d \in Docs :
               \/ DueFor(d) \/ QueuedFor(d)' \/ Holds(p, d)
               \/ /\ index'[d] = Truth(d)
                  /\ p.pc = "send" => p.payload[d] \in {0, Truth(d)}
  PROVE  IndexInv'
  <1>1. TypeOK /\ TasksKnown /\ Working /\ Written
    BY DEF IndexInv
  <1>2. /\ wk' \in [Workers -> Process] /\ wk'[w] = p
        /\ \A v \in Workers \ {w} : wk'[v] = wk[v]
    BY <1>1 DEF TypeOK, Step
  <1>3. TypeOK'
    BY <1>1, <1>2 DEF TypeOK
  <1>4. TasksKnown'
    <2>1. \A t : Known(t) <=> Known(t)'
      BY DEF Known, Dead
    <2>2. \A v \in Workers : wk'[v].pc # "idle" => Known(wk'[v].task)
      BY <1>1, <1>2 DEF TasksKnown, IsAt
    <2>3. \A v \in Workers : (~IsAt(v, "idle") => Known(wk[v].task))'
      BY <2>2 DEF Known, Dead, IsAt
    <2>4. \A i \in 1 .. Len(queue') : Known(queue[i])'
      BY DEF Known, Dead
    <2>5. \A t \in Task : (due[t] > 0 => Known(t))'
      BY <1>1 DEF TasksKnown, Known, Dead
    <2> QED
      BY <2>3, <2>4, <2>5 DEF TasksKnown
  <1>5. Working'
    <2>1. \A v \in Workers : Works(wk'[v])
      BY <1>1, <1>2 DEF Working
    <2> QED
      BY <2>1 DEF Working, Works, Dead
  <1>6. Written'
    BY <1>1 DEF Written
  <1>7. ASSUME OneWorker, used'.lost = 0, NEW d \in Docs PROVE (Coming(d) \/ Shown(d))'
    <2>1. CASE DueFor(d)
      BY <2>1 DEF Coming, DueFor, Names
    <2>2. CASE QueuedFor(d)'
      BY <2>2 DEF Coming
    <2>3. CASE Holds(p, d)
      <3>1. Holds(wk[w], d)'
        BY <1>2, <2>3 DEF Holds, Names
      <3> QED
        BY <3>1 DEF Coming, HeldFor
    <2>4. CASE /\ index'[d] = Truth(d)
               /\ p.pc = "send" => p.payload[d] \in {0, Truth(d)}
      <3>1. \A v \in Workers : wk'[v] = p
        BY <1>2, <1>7 DEF OneWorker
      <3> QED
        BY <2>4, <3>1 DEF Shown, Truth, IsAt
    <2> QED
      BY <1>7, <2>1, <2>2, <2>3, <2>4
  <1> QED
    BY <1>3, <1>4, <1>5, <1>6, <1>7 DEF IndexInv

LEMMA WorkerBefore ==
  ASSUME IndexInv, NEW w \in Workers, OneWorker, used.lost = 0, NEW d \in Docs
  PROVE  \/ DueFor(d) \/ QueuedFor(d) \/ Holds(wk[w], d)
         \/ /\ index[d] = Truth(d)
            /\ wk[w].pc = "send" => wk[w].payload[d] \in {0, Truth(d)}
  <1>1. \A v \in Workers : v = w
    BY DEF OneWorker
  <1>2. Coming(d) \/ Shown(d)
    BY DEF IndexInv
  <1> QED
    BY <1>1, <1>2 DEF Coming, HeldFor, Shown, IsAt

LEMMA IdleWorks ==
  /\ Idle \in Process /\ Works(Idle) /\ Idle.pc = "idle"
  /\ Idle.task \in Task /\ Idle.payload \in [Docs -> Nat]
  BY DEF Idle, Process, NoTask, Task, Works

LEMMA TakeStep ==
  ASSUME IndexInv, NEW w \in Workers, Take(w)
  PROVE  IndexInv'
  <1>1. /\ TypeOK /\ TasksKnown /\ Working /\ Written /\ wk[w].pc = "idle"
        /\ queue # <<>> /\ queue' = Tail(queue)
        /\ UNCHANGED <<doc, order, index, due, used>>
    BY DEF IndexInv, Take, IsAt, table
  <1>2. /\ queue \in Seq(Task) /\ Len(queue) \in Nat /\ Head(queue) \in Task
        /\ queue' \in Seq(Task) /\ Len(queue') = Len(queue) - 1
        /\ \A i \in 1 .. Len(queue') : queue'[i] = queue[i + 1]
        /\ Head(queue) = queue[1] /\ 1 \in 1 .. Len(queue)
    BY <1>1, HeadTailProperties DEF TypeOK
  <1>3. PICK t \in Task : t = Head(queue) /\ t = queue[1]
    BY <1>2
  <1>4. PICK pc : pc = CASE t.kind = "rebuild" -> "page"
                         [] t.kind = "delete" -> "remove"
                         [] OTHER -> "read"
    OBVIOUS
  <1>5. /\ t.kind = "rebuild" => pc = "page"
        /\ t.kind = "delete" => pc = "remove"
        /\ t.kind \in {"sync", "batch"} => pc = "read"
        /\ t.kind \in {"sync", "batch", "delete", "rebuild"}
    BY <1>4 DEF Task
  <1>6. PICK p : p = [Idle EXCEPT !.task = t, !.pc = pc]
    OBVIOUS
  <1>7. p \in Process /\ p.pc = pc /\ p.task = t
    BY <1>5, <1>6 DEF Idle, Process
  <1>8. Step(w, p)
    BY <1>3, <1>4, <1>6 DEF Take
  <1>9. Known(t)
    BY <1>1, <1>2, <1>3 DEF TasksKnown
  <1>10. Works(p)
    BY <1>5, <1>7, <1>9 DEF Works, Known
  <1>11. \A i \in 1 .. Len(queue') : Known(queue'[i])
    <2>1. \A i \in 1 .. Len(queue') : i + 1 \in 1 .. Len(queue)
      BY <1>2
    <2> QED
      BY <1>1, <1>2, <2>1 DEF TasksKnown
  <1>12. ASSUME NEW d \in Docs, QueuedFor(d) PROVE QueuedFor(d)' \/ Holds(p, d)
    <2>1. PICK i \in 1 .. Len(queue) : Names(queue[i], d)
      BY <1>12 DEF QueuedFor
    <2>2. CASE i = 1
      BY <1>3, <1>5, <1>7, <2>1, <2>2 DEF Holds, Names
    <2>3. CASE i # 1
      <3>1. i - 1 \in 1 .. Len(queue') /\ queue'[i - 1] = queue[i]
        BY <1>2, <2>3
      <3> QED
        BY <1>1, <2>1, <3>1 DEF QueuedFor, Names
    <2> QED
      BY <2>2, <2>3
  <1>13. ASSUME OneWorker, used'.lost = 0, NEW d \in Docs
         PROVE  \/ DueFor(d) \/ QueuedFor(d)' \/ Holds(p, d)
                \/ /\ index'[d] = Truth(d)
                   /\ p.pc = "send" => p.payload[d] \in {0, Truth(d)}
    BY <1>1, <1>5, <1>7, <1>12, <1>13, WorkerBefore DEF Holds
  <1>14. index' \in [Docs -> Nat] /\ used' \in [Events -> Nat]
         /\ \A d \in Docs : index'[d] <= doc[d].text
    BY <1>1 DEF TypeOK, Written
  <1> QED
    BY <1>1, <1>2, <1>7, <1>8, <1>9, <1>10, <1>11, <1>13, <1>14, WorkerMove

LEMMA SameQueue ==
  ASSUME IndexInv, UNCHANGED <<doc, queue>>
  PROVE  /\ queue' \in Seq(Task) /\ \A i \in 1 .. Len(queue') : Known(queue'[i])
         /\ \A d : QueuedFor(d) => QueuedFor(d)'
  BY DEF IndexInv, TypeOK, TasksKnown, QueuedFor, Names

LEMMA PageStep ==
  ASSUME IndexInv, NEW w \in Workers, Page(w)
  PROVE  IndexInv'
  <1>1. /\ TypeOK /\ TasksKnown /\ Working /\ Written /\ wk[w].pc = "page"
        /\ UNCHANGED <<doc, order, index, due, queue, used>>
    BY DEF IndexInv, Page, IsAt, table
  <1>2. PICK o \in Process : o = wk[w]
    BY <1>1 DEF TypeOK
  <1>3. o.task.kind = "rebuild" /\ o.pc = "page"
    BY <1>1, <1>2 DEF Working, Works
  <1>4. /\ queue' \in Seq(Task) /\ index' \in [Docs -> Nat] /\ used' \in [Events -> Nat]
        /\ \A i \in 1 .. Len(queue') : Known(queue'[i])
        /\ \A d \in Docs : index'[d] <= doc[d].text
    BY <1>1, SameQueue DEF TypeOK, Written
  <1>5. ASSUME NEW p, p.pc \in {"idle", "read"}, OneWorker, used'.lost = 0, NEW d \in Docs
        PROVE  \/ DueFor(d) \/ QueuedFor(d)' \/ Holds(p, d)
               \/ /\ index'[d] = Truth(d)
                  /\ p.pc = "send" => p.payload[d] \in {0, Truth(d)}
    BY <1>1, <1>5, SameQueue, WorkerBefore DEF Holds
  <1>6. CASE Step(w, Idle)
    BY <1>1, <1>4, <1>5, <1>6, IdleWorks, WorkerMove
  <1>7. CASE Step(w, [wk[w] EXCEPT !.pc = "read", !.task.docs = PageFrom(wk[w].offset),
                                   !.offset = @ + Cardinality(PageFrom(wk[w].offset))])
    <2>1. PICK ids \in SUBSET Docs : /\ ids = PageFrom(wk[w].offset)
                                    /\ Cardinality(ids) \in Nat
      BY <1>1, PageTyped
    <2>2. PICK offset \in Nat : offset = o.offset + Cardinality(ids)
      BY <2>1 DEF Process
    <2>3. PICK t : t = [o.task EXCEPT !.docs = ids]
      OBVIOUS
    <2>4. t \in Task /\ t.kind = "rebuild"
      BY <1>3, <2>3 DEF Process, Task
    <2>5. PICK p : p = [o EXCEPT !.pc = "read", !.task = t, !.offset = offset]
      OBVIOUS
    <2>6. p \in Process /\ p.pc = "read" /\ p.task = t
      BY <2>4, <2>5 DEF Process
    <2>7. Step(w, p)
      BY <1>2, <1>7, <2>1, <2>2, <2>3, <2>5
    <2>8. Known(t) /\ Works(p)
      BY <2>4, <2>6 DEF Known, Works
    <2> QED
      BY <1>1, <1>4, <1>5, <2>6, <2>7, <2>8, WorkerMove
  <1> QED
    BY <1>6, <1>7 DEF Page

\* The payload is what the table has, so that what is sent next is right until the
\* next change, which brings a task of its own.
LEMMA ReadStep ==
  ASSUME IndexInv, NEW w \in Workers, ReadRows(w)
  PROVE  IndexInv'
  <1>1. /\ TypeOK /\ TasksKnown /\ Working /\ Written /\ wk[w].pc = "read"
        /\ UNCHANGED <<doc, order, index, due, queue, used>>
    BY DEF IndexInv, ReadRows, IsAt, table
  <1>2. PICK o \in Process : o = wk[w]
    BY <1>1 DEF TypeOK
  <1>3. o.task.kind # "delete" /\ o.pc = "read" /\ Known(o.task)
    BY <1>1, <1>2 DEF Working, Works, TasksKnown, IsAt
  <1>4. /\ queue' \in Seq(Task) /\ index' \in [Docs -> Nat] /\ used' \in [Events -> Nat]
        /\ \A i \in 1 .. Len(queue') : Known(queue'[i])
        /\ \A d \in Docs : index'[d] <= doc[d].text
        /\ \A d \in Docs : doc[d].text \in Nat /\ (doc[d].live => doc[d].text > 0)
    BY <1>1, SameQueue DEF TypeOK, Written
  <1>5. PICK read : read = [d \in Docs |-> IF d \in o.task.docs /\ doc[d].live
                                          THEN doc[d].text ELSE 0]
    OBVIOUS
  <1>6. /\ read \in [Docs -> Nat]
        /\ \A d \in Docs : read[d] = IF d \in o.task.docs /\ doc[d].live
                                     THEN doc[d].text ELSE 0
    BY <1>4, <1>5
  <1>7. PICK p : p = [o EXCEPT !.pc = "send", !.payload = read]
    OBVIOUS
  <1>8. p \in Process /\ p.pc = "send" /\ p.payload = read /\ p.task = o.task
    BY <1>6, <1>7 DEF Process
  <1>9. Step(w, p)
    BY <1>2, <1>5, <1>7 DEF ReadRows
  <1>10. Works(p)
    <2>1. ASSUME NEW d \in Docs, d \in o.task.docs, read[d] = 0, o.task.kind # "rebuild"
          PROVE  Dead(d)
      BY <1>3, <1>4, <1>6, <2>1 DEF Known, Dead
    <2> QED
      BY <1>3, <1>4, <1>6, <1>8, <2>1 DEF Works
  <1>11. ASSUME OneWorker, used'.lost = 0, NEW d \in Docs
         PROVE  \/ DueFor(d) \/ QueuedFor(d)' \/ Holds(p, d)
                \/ /\ index'[d] = Truth(d)
                   /\ p.pc = "send" => p.payload[d] \in {0, Truth(d)}
    <2>1. CASE Holds(o, d)
      <3>1. d \in o.task.docs /\ doc[d].live
        BY <1>3, <2>1 DEF Holds, Names
      <3> QED
        BY <1>6, <1>8, <2>1, <3>1 DEF Holds
    <2>2. CASE index[d] = Truth(d)
      BY <1>1, <1>6, <1>8, <2>2 DEF Truth
    <2>3. QueuedFor(d) => QueuedFor(d)'
      BY <1>1, SameQueue
    <2> QED
      BY <1>1, <1>2, <1>11, <2>1, <2>2, <2>3, WorkerBefore
  <1> QED
    BY <1>1, <1>3, <1>4, <1>8, <1>9, <1>10, <1>11, WorkerMove

\* What was to be brought up to date is, unless the table has changed since.
LEMMA SendStep ==
  ASSUME IndexInv, NEW w \in Workers, Send(w)
  PROVE  IndexInv'
  <1>1. /\ TypeOK /\ TasksKnown /\ Working /\ Written /\ wk[w].pc = "send"
        /\ UNCHANGED <<doc, order, due, queue, used>>
    BY DEF IndexInv, Send, IsAt, table
  <1>2. PICK o \in Process : o = wk[w]
    BY <1>1 DEF TypeOK
  <1>3. /\ o.task.kind # "delete" /\ o.pc = "send" /\ Known(o.task) /\ Works(o)
        /\ \A d \in Docs : o.payload[d] \in Nat /\ o.payload[d] <= doc[d].text
    BY <1>1, <1>2 DEF Working, Works, TasksKnown, IsAt, Process
  <1>4. /\ index \in [Docs -> Nat]
        /\ index' = [d \in Docs |-> IF o.payload[d] # 0 THEN o.payload[d] ELSE index[d]]
        /\ \A d \in Docs : doc[d].text \in Nat /\ index[d] <= doc[d].text
    BY <1>1, <1>2 DEF Send, TypeOK, Written
  <1>5. /\ queue' \in Seq(Task) /\ index' \in [Docs -> Nat] /\ used' \in [Events -> Nat]
        /\ \A i \in 1 .. Len(queue') : Known(queue'[i])
        /\ \A d \in Docs : index'[d] <= doc[d].text
        /\ \A d \in Docs : index'[d] = IF o.payload[d] # 0 THEN o.payload[d] ELSE index[d]
    BY <1>1, <1>3, <1>4, SameQueue DEF TypeOK
  <1>6. PICK p : p = AfterSend(o)
    OBVIOUS
  <1>7. /\ p \in Process /\ Works(p) /\ (p.pc # "idle" => Known(p.task))
        /\ p.pc # "send"
    <2>1. CASE o.task.kind = "rebuild"
      <3>1. p = [o EXCEPT !.pc = "page"]
        BY <1>6, <2>1 DEF AfterSend
      <3>2. p \in Process /\ p.pc = "page" /\ p.task = o.task
        BY <3>1 DEF Process
      <3> QED
        BY <1>3, <2>1, <3>2 DEF Works
    <2>2. CASE o.task.kind = "sync" /\ \A d \in Docs : o.payload[d] = 0
      <3>1. p = [o EXCEPT !.pc = "remove"]
        BY <1>6, <2>2 DEF AfterSend
      <3>2. p \in Process /\ p.pc = "remove" /\ p.task = o.task
        BY <3>1 DEF Process
      <3>3. \A d \in o.task.docs : d \in Docs
        BY DEF Process, Task
      <3> QED
        BY <1>3, <2>2, <3>2, <3>3 DEF Works
    <2>3. CASE /\ o.task.kind # "rebuild"
               /\ ~(o.task.kind = "sync" /\ \A d \in Docs : o.payload[d] = 0)
      <3>1. p = Idle
        BY <1>6, <2>3 DEF AfterSend
      <3> QED
        BY <3>1, IdleWorks
    <2> QED
      BY <2>1, <2>2, <2>3
  <1>8. Step(w, p)
    BY <1>2, <1>6 DEF Send
  <1>9. ASSUME OneWorker, used'.lost = 0, NEW d \in Docs
        PROVE  \/ DueFor(d) \/ QueuedFor(d)' \/ Holds(p, d)
               \/ /\ index'[d] = Truth(d)
                  /\ p.pc = "send" => p.payload[d] \in {0, Truth(d)}
    <2>1. CASE Holds(o, d)
      <3>1. doc[d].live /\ o.payload[d] = doc[d].text
        BY <1>3, <2>1 DEF Holds, Names
      <3>2. doc[d].text > 0
        BY <1>1, <3>1 DEF Written
      <3>3. index'[d] = Truth(d)
        BY <1>4, <1>5, <3>1, <3>2 DEF Truth
      <3> QED
        BY <1>7, <3>3
    <2>2. CASE index[d] = Truth(d) /\ o.payload[d] \in {0, Truth(d)}
      BY <1>5, <1>7, <2>2
    <2>3. QueuedFor(d) => QueuedFor(d)'
      BY <1>1, SameQueue
    <2> QED
      BY <1>1, <1>2, <1>9, <2>1, <2>2, <2>3, WorkerBefore
  <1> QED
    BY <1>1, <1>5, <1>7, <1>8, <1>9, WorkerMove

LEMMA DeleteStep ==
  ASSUME IndexInv, NEW w \in Workers, DeleteEntry(w)
  PROVE  IndexInv'
  <1>1. /\ TypeOK /\ TasksKnown /\ Working /\ Written /\ wk[w].pc = "remove"
        /\ UNCHANGED <<doc, order, due, queue, used>> /\ Step(w, Idle)
    BY DEF IndexInv, DeleteEntry, IsAt, table
  <1>2. PICK o \in Process : o = wk[w]
    BY <1>1 DEF TypeOK
  <1>3. o.pc = "remove" /\ \A d \in o.task.docs : Dead(d)
    BY <1>1, <1>2 DEF Working, Works
  <1>4. /\ index \in [Docs -> Nat]
        /\ index' = [d \in Docs |-> IF d \in o.task.docs THEN 0 ELSE index[d]]
        /\ \A d \in Docs : doc[d].text \in Nat /\ index[d] <= doc[d].text
    BY <1>1, <1>2 DEF DeleteEntry, TypeOK, Written
  <1>5. /\ queue' \in Seq(Task) /\ index' \in [Docs -> Nat] /\ used' \in [Events -> Nat]
        /\ \A i \in 1 .. Len(queue') : Known(queue'[i])
        /\ \A d \in Docs : index'[d] <= doc[d].text
        /\ \A d \in Docs : index'[d] = IF d \in o.task.docs THEN 0 ELSE index[d]
    BY <1>1, <1>4, SameQueue DEF TypeOK
  <1>6. ASSUME OneWorker, used'.lost = 0, NEW d \in Docs
        PROVE  \/ DueFor(d) \/ QueuedFor(d)' \/ Holds(Idle, d)
               \/ /\ index'[d] = Truth(d)
                  /\ Idle.pc = "send" => Idle.payload[d] \in {0, Truth(d)}
    <2>1. CASE d \in o.task.docs
      BY <1>3, <1>5, <2>1, IdleWorks DEF Truth, Dead
    <2>2. CASE d \notin o.task.docs
      <3>1. ~Holds(o, d)
        BY <2>2 DEF Holds, Names
      <3>2. QueuedFor(d) => QueuedFor(d)'
        BY <1>1, SameQueue
      <3> QED
        BY <1>1, <1>2, <1>5, <1>6, <2>2, <3>1, <3>2, IdleWorks, WorkerBefore
    <2> QED
      BY <2>1, <2>2
  <1> QED
    BY <1>1, <1>5, <1>6, IdleWorks, WorkerMove

LEMMA RefusedStep ==
  ASSUME IndexInv, NEW w \in Workers, RequestFails(w)
  PROVE  IndexInv'
  <1>1. /\ TypeOK /\ TasksKnown /\ Written /\ Count("lost") /\ "lost" \in Events
        /\ UNCHANGED <<doc, order, index, due, queue>> /\ Step(w, Idle)
    BY DEF IndexInv, RequestFails, table, Events
  <1>2. used' \in [Events -> Nat] /\ used'.lost # 0
    BY <1>1, CountRun
  <1>3. /\ queue' \in Seq(Task) /\ index' \in [Docs -> Nat]
        /\ \A i \in 1 .. Len(queue') : Known(queue'[i])
        /\ \A d \in Docs : index'[d] <= doc[d].text
    BY <1>1, SameQueue DEF TypeOK, Written
  <1> QED
    BY <1>1, <1>2, <1>3, IdleWorks, WorkerMove

\* What the killed worker was to bring up to date is back in the queue.
LEMMA KilledStep ==
  ASSUME IndexInv, NEW w \in Workers, Killed(w)
  PROVE  IndexInv'
  <1>1. /\ TypeOK /\ TasksKnown /\ Working /\ Written /\ Count("kills") /\ "kills" \in Events
        /\ wk[w].pc # "idle"
        /\ UNCHANGED <<doc, order, index, due>> /\ Step(w, Idle)
    BY DEF IndexInv, Killed, table, Events, IsAt
  <1>2. used' \in [Events -> Nat] /\ (used'.lost = 0 => used.lost = 0)
    BY <1>1, CountRun
  <1>3. \E t \in Task :
          /\ queue' = Append(queue, t) /\ Known(t)
          /\ wk[w].task.kind # "rebuild" => t = wk[w].task
    <2>1. PICK o \in Task : o = wk[w].task
      BY <1>1 DEF TypeOK, Process
    <2>2. Known(o)
      BY <1>1, <2>1 DEF TasksKnown, IsAt
    <2>3. PICK n : n = [kind |-> "rebuild", docs |-> {}]
      OBVIOUS
    <2>4. n \in Task /\ Known(n)
      BY <2>3 DEF Task, Known
    <2>5. queue' = Append(queue, IF o.kind = "rebuild" THEN n ELSE o)
      BY <2>1, <2>3 DEF Killed
    <2> QED
      BY <2>1, <2>2, <2>4, <2>5
  <1> PICK t \in Task :
        /\ queue' = Append(queue, t) /\ Known(t)
        /\ wk[w].task.kind # "rebuild" => t = wk[w].task
    BY <1>3
  <1>4. /\ queue' \in Seq(Task) /\ index' \in [Docs -> Nat]
        /\ \A i \in 1 .. Len(queue') : Known(queue'[i])
        /\ \A d \in Docs : index'[d] <= doc[d].text
    BY <1>1, Appended DEF TypeOK, Written
  <1>5. ASSUME OneWorker, used'.lost = 0, NEW d \in Docs
        PROVE  \/ DueFor(d) \/ QueuedFor(d)' \/ Holds(Idle, d)
               \/ /\ index'[d] = Truth(d)
                  /\ Idle.pc = "send" => Idle.payload[d] \in {0, Truth(d)}
    <2>1. QueuedFor(d) => QueuedFor(d)'
      BY <1>1, Appended
    <2>2. Holds(wk[w], d) => QueuedFor(d)'
      <3>1. SUFFICES ASSUME Holds(wk[w], d) PROVE QueuedFor(d)'
        OBVIOUS
      <3>2. wk[w].task.kind # "rebuild"
        BY <3>1 DEF Holds, Names
      <3>3. Names(t, d)
        BY <3>1, <3>2 DEF Holds
      <3> QED
        BY <1>1, <3>3, Appended
    <2> QED
      BY <1>1, <1>2, <1>5, <2>1, <2>2, IdleWorks, WorkerBefore
  <1> QED
    BY <1>1, <1>2, <1>4, <1>5, IdleWorks, WorkerMove

-----------------------------------------------------------------------------
(* Theorems.                                                               *)

LEMMA IndexInductive == IndexInv /\ [Next]_vars => IndexInv'
  <1> SUFFICES ASSUME IndexInv, [Next]_vars PROVE IndexInv'
    OBVIOUS
  <1>1. ASSUME NEW w \in Workers, WorkerStep(w) PROVE IndexInv'
    BY <1>1, TakeStep, PageStep, ReadStep, SendStep, DeleteStep DEF WorkerStep
  <1>2. CASE UNCHANGED vars
    <2>1. UNCHANGED <<doc, order, index, due, queue, wk, used>>
      BY <1>2 DEF vars
    <2>2. /\ queue' \in Seq(Task) /\ used' \in [Events -> Nat] /\ DOMAIN due' = Task
          /\ \A t \in Task : due'[t] \in Nat /\ due'[t] <= due[t]
      BY <2>1 DEF IndexInv, TypeOK
    <2>3. \A d : DueFor(d) \/ QueuedFor(d) => DueFor(d)' \/ QueuedFor(d)'
      BY <2>1, SameQueue DEF DueFor, Names
    <2> QED
      BY <2>1, <2>2, <2>3, SameQueue, QueueStep
  <1> QED
    BY <1>1, <1>2, CreateStep, EditStep, DropStep, PublishStep, ReindexStep, RefusedStep,
       KilledStep DEF Next

\* Every table, task and process keeps its type; a page of a rebuild has documents
\* only, and finitely many, however many there are.
THEOREM SearchTypeCorrect == Spec => []TypeOK
  <1>1. IndexInv => TypeOK
    BY DEF IndexInv
  <1> QED
    BY <1>1, SearchInitially, IndexInductive, PTL DEF Spec

\* With one worker process an idle system that lost no publish and no request has
\* the index of its table, however commits, publishes, kills, redeliveries and
\* rebuilds fall.
THEOREM IndexIsTable ==
  ASSUME OneWorker
  PROVE  Spec => []QuietMeansIndexed
  <1>1. IndexInv => QuietMeansIndexed
    <2> SUFFICES ASSUME IndexInv, Quiet, used.lost = 0, NEW d \in Docs
                 PROVE  index[d] = Truth(d)
      BY DEF QuietMeansIndexed
    <2>1. ~DueFor(d)
      BY DEF Quiet, DueFor
    <2>2. ~QueuedFor(d)
      BY DEF Quiet, QueuedFor
    <2>3. ~HeldFor(d)
      BY DEF Quiet, HeldFor, Holds, IsAt
    <2> QED
      BY <2>1, <2>2, <2>3 DEF IndexInv, Coming, Shown
  <1> QED
    BY <1>1, SearchInitially, IndexInductive, PTL DEF Spec

-----------------------------------------------------------------------------
(***************************************************************************)
(*                                Backups                                  *)
(***************************************************************************)

-----------------------------------------------------------------------------
(* Type correctness.                                                       *)

Pending == Kinds \cup {"compare", "copy", "publish"}
BackupEnded == {"ok", "refused", "failed", "dead"}

File == [job : Jobs, kind : Kinds, data : SUBSET Files]
Temporary == [job : Jobs, kind : Kinds]

JobRecord ==
    [mode : {"none", "all", "full"},
     pc : {"waiting"} \cup Pending \cup CleansUp \cup BackupEnded,
     marker : Nat, todo : SUBSET Files, got : SUBSET Files,
     kept : SUBSET File, staged : SUBSET File, stuck : SUBSET File]

TypeInv ==
    /\ rows \subseteq Files /\ objects \subseteq Files /\ changes \in Nat
    /\ adding \subseteq Files /\ removing \subseteq Files
    /\ dir \subseteq File /\ tmp \subseteq Temporary
    /\ job \in [Jobs -> JobRecord]
    /\ setting \in Setting

\* The attachments: what is to be added is stored and has no row yet, and a row
\* has its object unless a removal is about to take the row too.
StoreInv ==
    /\ adding \subseteq objects /\ adding \cap rows = {}
    /\ rows \ removing \subseteq objects
    /\ setting.removable = {} => removing = {}

\* The kinds that are made before a kind.
Earlier(kind) == CASE kind = "db" -> {} [] kind = "objects" -> {"db"}
                   [] kind = "config" -> {"db", "objects"}

\* The files that a backup knows of: those it keeps and those it could not delete.
Held(j) == job[j].kept \cup job[j].stuck

\* The order in which a backup makes its kinds, each once; what is open under its
\* temporary name has not been finished.
InOrder(j) ==
    /\ job[j].pc = "waiting" => job[j].kept = {}
    /\ job[j].pc \in {"waiting"} \cup Pending => job[j].stuck = {}
    /\ job[j].pc \in Kinds => Made(j) = Earlier(job[j].pc)
    /\ job[j].pc = "compare" =>
         /\ job[j].mode = "all"
         /\ Made(j) \in {{"db"}, {"db", "objects"}, Kinds}
    /\ job[j].pc \in {"copy", "publish"} => job[j].mode # "all"
    /\ \A kind \in Kinds : [job |-> j, kind |-> kind] \in tmp =>
         /\ \A file \in Held(j) : file.kind # kind
         /\ job[j].pc = kind \/ job[j].pc \in {"failing", "failed", "dead"}

\* A backup's files are its own; no file of it is in the directory that it does not
\* know of, and when a run-all has been cleaned up it keeps none.
Remembers(j) ==
    /\ \A file \in job[j].kept : file.job = j
    /\ \A file \in dir : file.job = j => file \in Held(j)
    /\ job[j].mode = "all" /\ job[j].pc \in {"refused", "failed"} => job[j].kept = {}

FilesInv == \A j \in Jobs : InOrder(j) /\ Remembers(j)

-----------------------------------------------------------------------------
(* Fields of the steps.                                                    *)

\* An event that is spent leaves what goes on beside the backups.
LEMMA Spent ==
  ASSUME setting \in Setting, NEW kind \in {"jobs", "uploads", "fails"}, Spend(kind)
  PROVE  /\ setting' \in Setting
         /\ setting'.brief = setting.brief
         /\ setting'.removable = setting.removable
  <1>1. /\ setting.jobs \in Nat /\ setting.uploads \in Nat /\ setting.fails \in Nat
        /\ setting[kind] > 0
    BY DEF Setting, Spend
  <1>2. PICK n \in Nat : setting' = [setting EXCEPT ![kind] = n]
    <2>1. setting[kind] \in Nat /\ setting[kind] > 0
      BY <1>1
    <2>2. setting[kind] - 1 \in Nat
      BY <2>1
    <2> QED
      BY <2>2 DEF Spend
  <1>3. CASE kind = "jobs"
    BY <1>2, <1>3 DEF Setting
  <1>4. CASE kind = "uploads"
    BY <1>2, <1>4 DEF Setting
  <1>5. CASE kind = "fails"
    BY <1>2, <1>5 DEF Setting
  <1> QED
    BY <1>3, <1>4, <1>5

\* A step of one backup leaves the others.
LEMMA SetOthers ==
  ASSUME TypeInv, NEW j \in Jobs, NEW r \in JobRecord, Set(j, r)
  PROVE  /\ job' \in [Jobs -> JobRecord]
         /\ job'[j] = r
         /\ \A k \in Jobs \ {j} : job'[k] = job[k]
  BY DEF TypeInv, Set

LEMMA WaitingTyped == Waiting \in JobRecord
  BY DEF Waiting, JobRecord, File

LEMMA BeginRun ==
  ASSUME TypeInv, NEW j \in Jobs, NEW mode \in {"all", "full"}, Begin(j, mode)
  PROVE  /\ TypeInv'
         /\ job[j].pc = "waiting"
         /\ job'[j].mode = mode /\ job'[j].pc = "db" /\ job'[j].marker = changes
         /\ job'[j].todo = {} /\ job'[j].got = {}
         /\ job'[j].kept = {} /\ job'[j].staged = {} /\ job'[j].stuck = {}
         /\ \A k \in Jobs \ {j} : job'[k] = job[k]
         /\ setting'.brief = setting.brief /\ setting'.removable = setting.removable
  <1> DEFINE r == [Waiting EXCEPT !.mode = mode, !.pc = "db", !.marker = Marker]
  <1>1. /\ Waiting \in JobRecord
        /\ Waiting.todo = {} /\ Waiting.got = {}
        /\ Waiting.kept = {} /\ Waiting.staged = {} /\ Waiting.stuck = {}
    BY WaitingTyped DEF Waiting
  <1>2. /\ r \in JobRecord
        /\ r.mode = mode /\ r.pc = "db" /\ r.marker = changes
        /\ r.todo = {} /\ r.got = {} /\ r.kept = {} /\ r.staged = {} /\ r.stuck = {}
    BY <1>1 DEF JobRecord, TypeInv, Pending, Kinds, Marker
  <1>3. Set(j, r)
    BY DEF Begin
  <1> HIDE DEF r
  <1>4. /\ job' \in [Jobs -> JobRecord]
        /\ job'[j] = r
        /\ \A k \in Jobs \ {j} : job'[k] = job[k]
    BY <1>2, <1>3, SetOthers
  <1>5. /\ setting' \in Setting
        /\ setting'.brief = setting.brief /\ setting'.removable = setting.removable
    BY Spent DEF TypeInv, Begin
  <1>6. UNCHANGED <<rows, objects, changes, adding, removing, dir, tmp>>
    BY DEF Begin, store
  <1>7. TypeInv'
    BY <1>4, <1>5, <1>6 DEF TypeInv
  <1> QED
    BY <1>2, <1>4, <1>5, <1>7 DEF Begin, At

LEMMA OpenRun ==
  ASSUME TypeInv, NEW j \in Jobs, NEW kind \in Kinds, Open(j, kind)
  PROVE  /\ TypeInv'
         /\ At(j, kind) /\ [job |-> j, kind |-> kind] \notin tmp
         /\ tmp' = tmp \cup {[job |-> j, kind |-> kind]}
         /\ job'[j].mode = job[j].mode /\ job'[j].pc = job[j].pc
         /\ job'[j].marker = job[j].marker /\ job'[j].stuck = job[j].stuck
         /\ job'[j].kept = job[j].kept /\ job'[j].staged = job[j].staged
         /\ job'[j].got = IF kind = "db" THEN rows ELSE {}
         /\ job'[j].todo = IF kind = "objects" THEN objects ELSE {}
         /\ \A k \in Jobs \ {j} : job'[k] = job[k]
  <1>1. PICK got \in SUBSET Files : got = IF kind = "db" THEN rows ELSE {}
    BY DEF TypeInv
  <1>2. PICK todo \in SUBSET Files : todo = IF kind = "objects" THEN objects ELSE {}
    BY DEF TypeInv
  <1> DEFINE r == [job[j] EXCEPT !.got = got, !.todo = todo]
  <1>3. Set(j, r)
    BY <1>1, <1>2 DEF Open
  <1>4. job[j] \in JobRecord
    BY DEF TypeInv
  <1>5. /\ r \in JobRecord /\ r.mode = job[j].mode /\ r.pc = job[j].pc
        /\ r.marker = job[j].marker /\ r.stuck = job[j].stuck
        /\ r.kept = job[j].kept
        /\ r.staged = job[j].staged /\ r.got = got /\ r.todo = todo
    BY <1>4 DEF JobRecord
  <1> HIDE DEF r
  <1>6. /\ job' \in [Jobs -> JobRecord]
        /\ job'[j] = r
        /\ \A k \in Jobs \ {j} : job'[k] = job[k]
    BY <1>3, <1>5, SetOthers
  <1>7. [job |-> j, kind |-> kind] \in Temporary
    BY DEF Temporary
  <1>8. TypeInv'
    BY <1>6, <1>7 DEF Open, store, TypeInv
  <1> QED
    BY <1>1, <1>2, <1>5, <1>6, <1>8 DEF Open

\* The steps of a backup that read one object or pass it over.
Reads(j, f, read) ==
    /\ job[j].pc = "objects" /\ Opened(j, "objects") /\ f \in job[j].todo
    /\ Set(j, [job[j] EXCEPT !.todo = @ \ {f}, !.got = @ \cup read])
    /\ \/ read = {f} /\ f \in objects
       \/ read = {} /\ f \notin objects
    /\ UNCHANGED <<store, dir, tmp, exports, setting>>

LEMMA ReadingReads ==
  ASSUME TypeInv, NEW j \in Jobs, NEW f \in Files,
         ReadObject(j, f) \/ Unlisted(j, f)
  PROVE  \E read \in SUBSET Files : Reads(j, f, read)
  <1>1. job[j] \in JobRecord
    BY DEF TypeInv
  <1>2. CASE ReadObject(j, f)
    <2>1. Reads(j, f, {f})
      BY <1>2 DEF ReadObject, Reads, Opened, At
    <2> QED
      BY <2>1
  <1>3. CASE Unlisted(j, f)
    <2>1. [job[j] EXCEPT !.todo = @ \ {f}]
             = [job[j] EXCEPT !.todo = @ \ {f}, !.got = @ \cup {}]
      BY <1>1 DEF JobRecord
    <2>2. Reads(j, f, {})
      BY <1>3, <2>1 DEF Unlisted, Reads, Opened, At
    <2> QED
      BY <2>2
  <1> QED
    BY <1>2, <1>3

LEMMA ReadsRun ==
  ASSUME TypeInv, NEW j \in Jobs, NEW f \in Files, NEW read \in SUBSET Files,
         Reads(j, f, read)
  PROVE  /\ TypeInv'
         /\ job'[j].mode = job[j].mode /\ job'[j].pc = job[j].pc
         /\ job'[j].marker = job[j].marker /\ job'[j].stuck = job[j].stuck
         /\ job'[j].kept = job[j].kept /\ job'[j].staged = job[j].staged
         /\ job'[j].got = job[j].got \cup read
         /\ job'[j].todo = job[j].todo \ {f}
         /\ \A k \in Jobs \ {j} : job'[k] = job[k]
  <1> DEFINE r == [job[j] EXCEPT !.todo = @ \ {f}, !.got = @ \cup read]
  <1>1. Set(j, r)
    BY DEF Reads
  <1>2. job[j] \in JobRecord
    BY DEF TypeInv
  <1>3. /\ r \in JobRecord /\ r.mode = job[j].mode /\ r.pc = job[j].pc
        /\ r.marker = job[j].marker /\ r.stuck = job[j].stuck
        /\ r.kept = job[j].kept
        /\ r.staged = job[j].staged /\ r.got = job[j].got \cup read
        /\ r.todo = job[j].todo \ {f}
    BY <1>2 DEF JobRecord
  <1> HIDE DEF r
  <1>4. /\ job' \in [Jobs -> JobRecord]
        /\ job'[j] = r
        /\ \A k \in Jobs \ {j} : job'[k] = job[k]
    BY <1>1, <1>3, SetOthers
  <1>5. TypeInv'
    BY <1>4 DEF Reads, store, TypeInv
  <1> QED
    BY <1>3, <1>4, <1>5

LEMMA CloseRun ==
  ASSUME TypeInv, NEW j \in Jobs, NEW kind \in Kinds, Close(j, kind)
  PROVE  \E file \in File :
         /\ file = BackupFile(j, kind, job[j].got)
         /\ TypeInv'
         /\ job[j].pc = kind /\ [job |-> j, kind |-> kind] \in tmp
         /\ At(j, kind) /\ job[j].todo = {}
         /\ dir' = dir \cup {file}
         /\ tmp' = tmp \ {[job |-> j, kind |-> kind]}
         /\ job'[j].mode = job[j].mode /\ job'[j].pc = AfterClose(j, kind)
         /\ job'[j].marker = job[j].marker /\ job'[j].stuck = job[j].stuck
         /\ job'[j].kept = job[j].kept \cup {file}
         /\ job'[j].staged = job[j].staged
         /\ job'[j].got = {} /\ job'[j].todo = job[j].todo
         /\ \A k \in Jobs \ {j} : job'[k] = job[k]
  <1>1. job[j] \in JobRecord
    BY DEF TypeInv
  <1>2. BackupFile(j, kind, job[j].got) \in File
    BY <1>1 DEF BackupFile, File, JobRecord
  <1>3. PICK file \in File : file = BackupFile(j, kind, job[j].got)
    BY <1>2
  <1>4. PICK pc \in {"waiting"} \cup Pending \cup BackupEnded : pc = AfterClose(j, kind)
    BY DEF AfterClose, After, Pending, Kinds
  <1> DEFINE r == [job[j] EXCEPT !.kept = @ \cup {file}, !.got = {}, !.pc = pc]
  <1>5. Set(j, r)
    BY <1>3, <1>4 DEF Close
  <1>6. /\ r \in JobRecord /\ r.mode = job[j].mode /\ r.pc = pc
        /\ r.marker = job[j].marker /\ r.stuck = job[j].stuck
        /\ r.kept = job[j].kept \cup {file}
        /\ r.staged = job[j].staged /\ r.got = {} /\ r.todo = job[j].todo
    BY <1>1 DEF JobRecord
  <1> HIDE DEF r
  <1>7. /\ job' \in [Jobs -> JobRecord]
        /\ job'[j] = r
        /\ \A k \in Jobs \ {j} : job'[k] = job[k]
    BY <1>5, <1>6, SetOthers
  <1>8. TypeInv'
    BY <1>3, <1>7 DEF Close, store, TypeInv
  <1>9. /\ job[j].pc = kind /\ [job |-> j, kind |-> kind] \in tmp
        /\ At(j, kind) /\ job[j].todo = {}
        /\ dir' = dir \cup {file}
        /\ tmp' = tmp \ {[job |-> j, kind |-> kind]}
    BY <1>3 DEF Close, Opened, At
  <1> QED
    BY <1>3, <1>4, <1>6, <1>7, <1>8, <1>9

\* The steps of a backup that move on and leave its files and the directory of
\* temporary files: in which order they were made, they are remembered.
MovesTo(j, pc) ==
    /\ job'[j].mode = job[j].mode /\ job'[j].pc = pc
    /\ job'[j].marker = job[j].marker /\ job'[j].stuck = job[j].stuck
    /\ job'[j].kept = job[j].kept
    /\ job'[j].got = job[j].got /\ job'[j].todo = job[j].todo
    /\ \A k \in Jobs \ {j} : job'[k] = job[k]
    /\ tmp' = tmp

LEMMA RefusedRun ==
  ASSUME TypeInv, NEW j \in Jobs, Refused(j)
  PROVE  /\ TypeInv' /\ MovesTo(j, "refusing")
         /\ job[j].pc = "compare"
         /\ job'[j].staged = job[j].staged
  <1> DEFINE r == [job[j] EXCEPT !.pc = "refusing"]
  <1>1. Set(j, r)
    BY DEF Refused
  <1>2. job[j] \in JobRecord
    BY DEF TypeInv
  <1>3. /\ r \in JobRecord /\ r.mode = job[j].mode /\ r.pc = "refusing"
        /\ r.marker = job[j].marker /\ r.stuck = job[j].stuck
        /\ r.kept = job[j].kept
        /\ r.staged = job[j].staged /\ r.got = job[j].got /\ r.todo = job[j].todo
    BY <1>2 DEF JobRecord, CleansUp
  <1> HIDE DEF r
  <1>4. /\ job' \in [Jobs -> JobRecord]
        /\ job'[j] = r
        /\ \A k \in Jobs \ {j} : job'[k] = job[k]
    BY <1>1, <1>3, SetOthers
  <1>5. UNCHANGED <<store, dir, tmp, exports, setting>>
    BY DEF Refused
  <1>6. TypeInv'
    BY <1>4, <1>5 DEF store, TypeInv
  <1> QED
    BY <1>3, <1>4, <1>5, <1>6 DEF MovesTo, Refused, At

LEMMA CleanedUpRun ==
  ASSUME TypeInv, NEW j \in Jobs, CleanedUp(j)
  PROVE  \E pc \in {"refused", "failed"} :
         /\ TypeInv' /\ MovesTo(j, pc)
         /\ job[j].pc \in CleansUp /\ (pc = "failed" \/ job[j].pc = "refusing")
         /\ job[j].kept = {}
         /\ job'[j].staged = job[j].staged
  <1>1. PICK pc \in {"refused", "failed"} :
          pc = IF job[j].pc = "refusing" THEN "refused" ELSE "failed"
    OBVIOUS
  <1>2. job[j] \in JobRecord
    BY DEF TypeInv
  <1> DEFINE r == [job[j] EXCEPT !.pc = pc]
  <1>3. Set(j, r)
    BY <1>1, <1>2 DEF CleanedUp, JobRecord
  <1>4. /\ r \in JobRecord /\ r.mode = job[j].mode /\ r.pc = pc
        /\ r.marker = job[j].marker /\ r.stuck = job[j].stuck
        /\ r.kept = job[j].kept
        /\ r.staged = job[j].staged /\ r.got = job[j].got /\ r.todo = job[j].todo
    BY <1>2 DEF JobRecord, BackupEnded
  <1> HIDE DEF r
  <1>5. /\ job' \in [Jobs -> JobRecord]
        /\ job'[j] = r
        /\ \A k \in Jobs \ {j} : job'[k] = job[k]
    BY <1>3, <1>4, SetOthers
  <1>6. UNCHANGED <<store, dir, tmp, exports, setting>>
    BY DEF CleanedUp
  <1>7. TypeInv'
    BY <1>5, <1>6 DEF store, TypeInv
  <1>8. job[j].pc \in CleansUp /\ job[j].kept = {}
    BY DEF CleanedUp, At
  <1> QED
    BY <1>1, <1>4, <1>5, <1>6, <1>7, <1>8 DEF MovesTo

\* A file is deleted, or stays because it could not be.
LEMMA RemovalRun ==
  ASSUME TypeInv, NEW j \in Jobs, NEW file \in job[j].kept,
         Removes(j, file) \/ CannotRemove(j, file)
  PROVE  \E stuck \in SUBSET File :
         /\ TypeInv'
         /\ job[j].pc \in CleansUp
         /\ job'[j].mode = job[j].mode /\ job'[j].pc = job[j].pc
         /\ job'[j].marker = job[j].marker /\ job'[j].staged = job[j].staged
         /\ job'[j].kept = job[j].kept \ {file}
         /\ job'[j].stuck = stuck
         /\ \/ dir' = dir \ {file} /\ stuck = job[j].stuck
            \/ dir' = dir /\ stuck = job[j].stuck \cup {file}
         /\ \A k \in Jobs \ {j} : job'[k] = job[k]
         /\ setting'.brief = setting.brief /\ setting'.removable = setting.removable
         /\ UNCHANGED <<store, tmp, exports>>
  <1>1. job[j] \in JobRecord
    BY DEF TypeInv
  <1>2. file \in File /\ job[j].stuck \in SUBSET File
    BY <1>1 DEF JobRecord
  <1>3. PICK stuck \in SUBSET File :
          /\ \/ Removes(j, file) /\ stuck = job[j].stuck
             \/ CannotRemove(j, file) /\ stuck = job[j].stuck \cup {file}
    BY <1>2
  <1> DEFINE r == [job[j] EXCEPT !.kept = @ \ {file}, !.stuck = stuck]
  <1>4. Set(j, r)
    <2>1. CASE Removes(j, file) /\ stuck = job[j].stuck
      <3>1. [job[j] EXCEPT !.kept = @ \ {file}] = r
        BY <1>1, <2>1 DEF JobRecord
      <3> QED
        BY <2>1, <3>1 DEF Removes
    <2>2. CASE CannotRemove(j, file) /\ stuck = job[j].stuck \cup {file}
      BY <2>2 DEF CannotRemove
    <2> QED
      BY <1>3, <2>1, <2>2
  <1>5. /\ r \in JobRecord /\ r.mode = job[j].mode /\ r.pc = job[j].pc
        /\ r.marker = job[j].marker /\ r.staged = job[j].staged
        /\ r.kept = job[j].kept \ {file} /\ r.stuck = stuck
    BY <1>1 DEF JobRecord
  <1> HIDE DEF r
  <1>6. /\ job' \in [Jobs -> JobRecord]
        /\ job'[j] = r
        /\ \A k \in Jobs \ {j} : job'[k] = job[k]
    BY <1>4, <1>5, SetOthers
  <1>7. /\ setting' \in Setting
        /\ setting'.brief = setting.brief /\ setting'.removable = setting.removable
    <2>1. setting' = setting \/ Spend("fails")
      BY <1>3 DEF Removes, CannotRemove
    <2> QED
      BY <2>1, Spent DEF TypeInv
  <1>8. /\ UNCHANGED <<store, tmp, exports>>
        /\ \/ dir' = dir \ {file} /\ stuck = job[j].stuck
           \/ dir' = dir /\ stuck = job[j].stuck \cup {file}
    BY <1>3 DEF Removes, CannotRemove
  <1>9. TypeInv'
    BY <1>6, <1>7, <1>8 DEF store, TypeInv
  <1>10. job[j].pc \in CleansUp
    BY <1>3 DEF Removes, CannotRemove, CleanUpTurn, At
  <1> QED
    BY <1>5, <1>6, <1>7, <1>8, <1>9, <1>10

LEMMA AgreesRun ==
  ASSUME TypeInv, NEW j \in Jobs, Agrees(j)
  PROVE  /\ TypeInv' /\ MovesTo(j, NextKind(j))
         /\ job[j].pc = "compare" /\ changes = job[j].marker
         /\ job'[j].staged = job[j].staged
  <1>1. PICK pc \in {"waiting"} \cup Pending \cup BackupEnded : pc = NextKind(j)
    BY DEF NextKind, Pending, Kinds, BackupEnded
  <1> DEFINE r == [job[j] EXCEPT !.pc = pc]
  <1>2. Set(j, r)
    BY <1>1 DEF Agrees
  <1>3. job[j] \in JobRecord
    BY DEF TypeInv
  <1>4. /\ r \in JobRecord /\ r.mode = job[j].mode /\ r.pc = pc
        /\ r.marker = job[j].marker /\ r.stuck = job[j].stuck
        /\ r.kept = job[j].kept
        /\ r.staged = job[j].staged /\ r.got = job[j].got /\ r.todo = job[j].todo
    BY <1>3 DEF JobRecord
  <1> HIDE DEF r
  <1>5. /\ job' \in [Jobs -> JobRecord]
        /\ job'[j] = r
        /\ \A k \in Jobs \ {j} : job'[k] = job[k]
    BY <1>2, <1>4, SetOthers
  <1>6. UNCHANGED <<store, dir, tmp, exports, setting>>
    BY DEF Agrees
  <1>7. TypeInv'
    BY <1>5, <1>6 DEF store, TypeInv
  <1>8. job[j].pc = "compare" /\ changes = job[j].marker
    BY DEF Agrees, At, Marker
  <1> QED
    BY <1>1, <1>4, <1>5, <1>6, <1>7, <1>8 DEF MovesTo

LEMMA CopyRun ==
  ASSUME TypeInv, NEW j \in Jobs, NEW kind \in Kinds, Copy(j, kind)
  PROVE  \E file \in dir \cap job[j].kept :
         /\ file.kind = kind
         /\ TypeInv'
         /\ job[j].pc = "copy"
         /\ MovesTo(j, IF kind = "config" THEN "publish" ELSE "copy")
         /\ job'[j].staged = job[j].staged \cup {file}
  <1>1. PICK file \in dir \cap job[j].kept :
          /\ file.kind = kind
          /\ Set(j, [job[j] EXCEPT !.staged = @ \cup {file},
                     !.pc = IF kind = "config" THEN "publish" ELSE @])
    BY DEF Copy
  <1>2. job[j] \in JobRecord
    BY DEF TypeInv
  <1>3. job[j].pc = "copy"
    BY DEF Copy, CopyTurn, At
  <1>4. PICK pc \in {"publish", "copy"} :
          pc = IF kind = "config" THEN "publish" ELSE "copy"
    OBVIOUS
  <1> DEFINE r == [job[j] EXCEPT !.staged = @ \cup {file}, !.pc = pc]
  <1>5. Set(j, r)
    BY <1>1, <1>2, <1>3, <1>4 DEF JobRecord
  <1>6. /\ r \in JobRecord /\ r.mode = job[j].mode /\ r.pc = pc
        /\ r.marker = job[j].marker /\ r.stuck = job[j].stuck
        /\ r.kept = job[j].kept
        /\ r.staged = job[j].staged \cup {file}
        /\ r.got = job[j].got /\ r.todo = job[j].todo
    BY <1>2 DEF JobRecord, Pending
  <1> HIDE DEF r
  <1>7. /\ job' \in [Jobs -> JobRecord]
        /\ job'[j] = r
        /\ \A k \in Jobs \ {j} : job'[k] = job[k]
    BY <1>5, <1>6, SetOthers
  <1>8. UNCHANGED <<store, dir, tmp, exports, setting>>
    BY DEF Copy
  <1>9. TypeInv'
    BY <1>7, <1>8 DEF store, TypeInv
  <1> QED
    BY <1>1, <1>3, <1>4, <1>6, <1>7, <1>8, <1>9 DEF MovesTo

LEMMA PublishRun ==
  ASSUME TypeInv, NEW j \in Jobs, Publish(j)
  PROVE  /\ TypeInv' /\ MovesTo(j, "ok")
         /\ job[j].pc = "publish"
         /\ job'[j].staged = {}
  <1> DEFINE r == [job[j] EXCEPT !.pc = "ok", !.staged = {}]
  <1>1. Set(j, r)
    BY DEF Publish
  <1>2. job[j] \in JobRecord
    BY DEF TypeInv
  <1>3. /\ r \in JobRecord /\ r.mode = job[j].mode /\ r.pc = "ok"
        /\ r.marker = job[j].marker /\ r.stuck = job[j].stuck
        /\ r.kept = job[j].kept
        /\ r.staged = {} /\ r.got = job[j].got /\ r.todo = job[j].todo
    BY <1>2 DEF JobRecord, BackupEnded
  <1> HIDE DEF r
  <1>4. /\ job' \in [Jobs -> JobRecord]
        /\ job'[j] = r
        /\ \A k \in Jobs \ {j} : job'[k] = job[k]
    BY <1>1, <1>3, SetOthers
  <1>5. UNCHANGED <<store, dir, tmp, setting>>
    BY DEF Publish
  <1>6. TypeInv'
    BY <1>4, <1>5 DEF store, TypeInv
  <1> QED
    BY <1>3, <1>4, <1>5, <1>6 DEF MovesTo, Publish, At

LEMMA RaisesRun ==
  ASSUME TypeInv, NEW j \in Jobs, Raises(j)
  PROVE  \E pc \in {"failing", "failed"} :
         /\ TypeInv' /\ MovesTo(j, pc)
         /\ pc = "failed" => job[j].mode # "all"
         /\ job[j].pc \in Pending
         /\ job'[j].staged = {}
         /\ dir' = dir
         /\ setting'.brief = setting.brief /\ setting'.removable = setting.removable
  <1>0. PICK pc \in {"failing", "failed"} :
          pc = IF job[j].mode = "all" THEN "failing" ELSE "failed"
    OBVIOUS
  <1> DEFINE r == [job[j] EXCEPT !.pc = pc, !.staged = {}]
  <1>1. Set(j, r)
    BY <1>0 DEF Raises
  <1>2. job[j] \in JobRecord
    BY DEF TypeInv
  <1>3. /\ r \in JobRecord /\ r.mode = job[j].mode /\ r.pc = pc
        /\ r.marker = job[j].marker /\ r.stuck = job[j].stuck
        /\ r.kept = job[j].kept
        /\ r.staged = {} /\ r.got = job[j].got /\ r.todo = job[j].todo
    BY <1>2 DEF JobRecord, BackupEnded, CleansUp
  <1> HIDE DEF r
  <1>4. /\ job' \in [Jobs -> JobRecord]
        /\ job'[j] = r
        /\ \A k \in Jobs \ {j} : job'[k] = job[k]
    BY <1>1, <1>3, SetOthers
  <1>5. setting' = setting \/ Spend("fails")
    BY DEF Raises
  <1>6. /\ setting' \in Setting
        /\ setting'.brief = setting.brief /\ setting'.removable = setting.removable
    BY <1>5, Spent DEF TypeInv
  <1>7. UNCHANGED <<store, dir, tmp>>
    BY DEF Raises
  <1>8. TypeInv'
    BY <1>4, <1>6, <1>7 DEF store, TypeInv
  <1>9. job[j].pc \in Pending
    BY DEF Raises, At, Pending
  <1> QED
    BY <1>0, <1>3, <1>4, <1>6, <1>7, <1>8, <1>9 DEF MovesTo

LEMMA DiesRun ==
  ASSUME TypeInv, NEW j \in Jobs, Dies(j)
  PROVE  /\ TypeInv' /\ MovesTo(j, "dead")
         /\ job[j].pc \in Pending \cup CleansUp
         /\ job'[j].staged = job[j].staged
         /\ dir' = dir
         /\ setting'.brief = setting.brief /\ setting'.removable = setting.removable
  <1> DEFINE r == [job[j] EXCEPT !.pc = "dead"]
  <1>1. Set(j, r)
    BY DEF Dies
  <1>2. job[j] \in JobRecord
    BY DEF TypeInv
  <1>3. /\ r \in JobRecord /\ r.mode = job[j].mode /\ r.pc = "dead"
        /\ r.marker = job[j].marker /\ r.stuck = job[j].stuck
        /\ r.kept = job[j].kept
        /\ r.staged = job[j].staged /\ r.got = job[j].got /\ r.todo = job[j].todo
    BY <1>2 DEF JobRecord, BackupEnded
  <1> HIDE DEF r
  <1>4. /\ job' \in [Jobs -> JobRecord]
        /\ job'[j] = r
        /\ \A k \in Jobs \ {j} : job'[k] = job[k]
    BY <1>1, <1>3, SetOthers
  <1>5. /\ setting' \in Setting
        /\ setting'.brief = setting.brief /\ setting'.removable = setting.removable
    BY Spent DEF TypeInv, Dies
  <1>6. UNCHANGED <<store, dir, tmp>>
    BY DEF Dies
  <1>7. TypeInv'
    BY <1>4, <1>5, <1>6 DEF store, TypeInv
  <1> QED
    BY <1>3, <1>4, <1>5, <1>6, <1>7 DEF MovesTo, Dies, Pending

\* Steps of the attachments leave the backups and their files.
Beside == UNCHANGED <<dir, tmp, job, exports>>

LEMMA StoreStep ==
  ASSUME TypeInv, NEW f \in Files,
         Put(f) \/ CommitPut(f) \/ Remove(f) \/ CommitRemove(f)
  PROVE  /\ TypeInv' /\ Beside
         /\ setting'.brief = setting.brief /\ setting'.removable = setting.removable
  <1>1. CASE Put(f)
    <2>1. /\ setting' \in Setting
          /\ setting'.brief = setting.brief /\ setting'.removable = setting.removable
      BY <1>1, Spent DEF TypeInv, Put
    <2> QED
      BY <1>1, <2>1 DEF Put, TypeInv, Beside
  <1>2. CASE CommitPut(f)
    BY <1>2 DEF CommitPut, TypeInv, Beside
  <1>3. CASE Remove(f)
    BY <1>3 DEF Remove, TypeInv, Beside
  <1>4. CASE CommitRemove(f)
    BY <1>4 DEF CommitRemove, TypeInv, Beside
  <1> QED
    BY <1>1, <1>2, <1>3, <1>4

-----------------------------------------------------------------------------
(* The files of backups.                                                   *)

\* What a step leaves of the backups it is not about.
LEMMA FilesFrame ==
  ASSUME NEW k \in Jobs, InOrder(k), Remembers(k),
         job'[k] = job[k],
         \A kind \in Kinds : [job |-> k, kind |-> kind] \in tmp'
             => [job |-> k, kind |-> kind] \in tmp,
         \A file \in dir' : file.job = k => file \in dir
  PROVE  InOrder(k)' /\ Remembers(k)'
  <1>1. Made(k)' = Made(k) /\ Held(k)' = Held(k)
    BY DEF Made, Held
  <1>2. InOrder(k)'
    BY <1>1 DEF InOrder
  <1>3. Remembers(k)'
    BY <1>1 DEF Remembers
  <1> QED
    BY <1>2, <1>3

\* A backup that moves on without a file of a new kind.
LEMMA FilesMove ==
  ASSUME TypeInv, FilesInv, NEW j \in Jobs, NEW pc, MovesTo(j, pc),
         dir' \subseteq dir, job[j].pc \in Pending \cup CleansUp,
         pc \in Kinds => Made(j) = Earlier(pc),
         pc \in Kinds \cup CleansUp \cup BackupEnded \cup {"copy", "publish"},
         pc \in {"copy", "publish"} => job[j].mode # "all",
         pc \in Kinds \cup {"copy", "publish"} => job[j].pc \in Pending,
         pc \in {"failing", "failed", "dead"}
            \/ \A kind \in Kinds : [job |-> j, kind |-> kind] \notin tmp,
         job[j].mode = "all" /\ pc \in {"refused", "failed"} => job[j].kept = {}
  PROVE  FilesInv'
  <1>1. Made(j)' = Made(j) /\ Held(j)' = Held(j)
    BY DEF Made, Held, MovesTo
  <1>2. pc \in {"waiting"} \cup Pending => job[j].stuck = {}
    BY DEF FilesInv, InOrder, Pending, Kinds, CleansUp, BackupEnded
  <1>3. InOrder(j)'
    BY <1>1, <1>2 DEF MovesTo, FilesInv, InOrder, Kinds, CleansUp, BackupEnded
  <1>4. Remembers(j)'
    BY <1>1 DEF MovesTo, FilesInv, Remembers
  <1>5. ASSUME NEW k \in Jobs \ {j}
        PROVE  InOrder(k)' /\ Remembers(k)'
    BY <1>5, FilesFrame DEF MovesTo, FilesInv
  <1> QED
    BY <1>3, <1>4, <1>5 DEF FilesInv

\* Nothing is open while a backup compares, copies or publishes.
LEMMA NothingOpen ==
  ASSUME FilesInv, NEW j \in Jobs, job[j].pc \in {"compare", "copy", "publish"},
         NEW kind \in Kinds
  PROVE  [job |-> j, kind |-> kind] \notin tmp
  BY DEF FilesInv, InOrder, Kinds

LEMMA FilesInductive ==
  ASSUME TypeInv, FilesInv, [BackupsNext]_backupVars
  PROVE  TypeInv' /\ FilesInv'
  <1>1. ASSUME NEW f \in Files, Put(f) \/ CommitPut(f) \/ Remove(f) \/ CommitRemove(f)
        PROVE  TypeInv' /\ FilesInv'
    <2>1. TypeInv' /\ Beside
      BY <1>1, StoreStep
    <2> QED
      BY <2>1, FilesFrame DEF Beside, FilesInv
  <1>2. ASSUME NEW j \in Jobs, NEW mode \in {"all", "full"}, Begin(j, mode)
        PROVE  TypeInv' /\ FilesInv'
    <2>1. /\ TypeInv' /\ job[j].pc = "waiting"
          /\ job'[j].pc = "db" /\ job'[j].kept = {} /\ job'[j].stuck = {}
          /\ \A k \in Jobs \ {j} : job'[k] = job[k]
      BY <1>2, BeginRun
    <2>2. dir' = dir /\ tmp' = tmp
      BY <1>2 DEF Begin
    <2>3. Made(j)' = {} /\ Held(j) = {}
      BY <2>1 DEF Made, Held, FilesInv, InOrder
    <2>4. \A kind \in Kinds : [job |-> j, kind |-> kind] \notin tmp
      BY <2>1 DEF FilesInv, InOrder, Kinds
    <2>5. InOrder(j)'
      BY <2>1, <2>2, <2>3, <2>4 DEF InOrder, Earlier, Kinds
    <2>6. Remembers(j)'
      BY <2>1, <2>2, <2>3 DEF FilesInv, Remembers
    <2> QED
      BY <2>1, <2>2, <2>5, <2>6, FilesFrame DEF FilesInv
  <1>3. ASSUME NEW j \in Jobs, NEW kind \in Kinds, Open(j, kind)
        PROVE  TypeInv' /\ FilesInv'
    <2>1. /\ TypeInv' /\ job[j].pc = kind
          /\ tmp' = tmp \cup {[job |-> j, kind |-> kind]}
          /\ job'[j].pc = job[j].pc /\ job'[j].kept = job[j].kept
          /\ job'[j].mode = job[j].mode /\ job'[j].stuck = job[j].stuck
          /\ \A k \in Jobs \ {j} : job'[k] = job[k]
      BY <1>3, OpenRun DEF At
    <2>2. dir' = dir
      BY <1>3 DEF Open
    <2>3. Made(j)' = Made(j) /\ Held(j)' = Held(j)
      BY <2>1 DEF Made, Held
    <2>4. \A file \in Held(j) : file.kind # kind
      <3>1. Made(j) = Earlier(kind) /\ job[j].stuck = {}
        BY <2>1 DEF FilesInv, InOrder, Pending
      <3>2. kind \notin Made(j)
        BY <3>1 DEF Earlier, Kinds
      <3> QED
        BY <3>1, <3>2 DEF Held, Made
    <2>5. InOrder(j)'
      BY <2>1, <2>3, <2>4 DEF FilesInv, InOrder, Kinds
    <2>6. Remembers(j)'
      BY <2>1, <2>2, <2>3 DEF FilesInv, Remembers, Kinds
    <2>7. ASSUME NEW k \in Jobs \ {j} PROVE InOrder(k)' /\ Remembers(k)'
      BY <2>1, <2>2, <2>7, FilesFrame DEF FilesInv
    <2> QED
      BY <2>1, <2>5, <2>6, <2>7 DEF FilesInv
  <1>4. ASSUME NEW j \in Jobs, NEW kind \in Kinds, Close(j, kind)
        PROVE  TypeInv' /\ FilesInv'
    <2>1. PICK file \in File :
            /\ file = BackupFile(j, kind, job[j].got)
            /\ TypeInv' /\ job[j].pc = kind
            /\ dir' = dir \cup {file}
            /\ tmp' = tmp \ {[job |-> j, kind |-> kind]}
            /\ job'[j].mode = job[j].mode /\ job'[j].pc = AfterClose(j, kind)
            /\ job'[j].kept = job[j].kept \cup {file} /\ job'[j].stuck = job[j].stuck
            /\ \A k \in Jobs \ {j} : job'[k] = job[k]
      BY <1>4, CloseRun
    <2>2. file.job = j /\ file.kind = kind
      BY <2>1 DEF BackupFile
    <2>3. Made(j)' = Made(j) \cup {kind} /\ Held(j)' = Held(j) \cup {file}
      BY <2>1, <2>2 DEF Made, Held
    <2>4. Made(j) = Earlier(kind) /\ job'[j].stuck = {}
      BY <2>1 DEF FilesInv, InOrder, Pending
    <2>5. \A k \in Kinds : [job |-> j, kind |-> k] \notin tmp'
      BY <2>1 DEF FilesInv, InOrder, Kinds
    <2>6. ASSUME job[j].mode = "all" PROVE InOrder(j)'
      <3>1. job'[j].pc = "compare" /\ job'[j].mode = "all"
        BY <2>1, <2>6 DEF AfterClose
      <3> QED
        BY <3>1, <2>3, <2>4, <2>5 DEF InOrder, Earlier, Kinds
    <2>7. ASSUME job[j].mode # "all" PROVE InOrder(j)'
      <3>1. \/ kind = "config" /\ job'[j].pc = "copy"
            \/ kind = "objects" /\ job'[j].pc = "config"
            \/ kind = "db" /\ job'[j].pc = "objects"
        BY <2>1, <2>7 DEF AfterClose, After, Kinds
      <3>2. job'[j].mode # "all"
        BY <2>1, <2>7
      <3> QED
        BY <3>1, <3>2, <2>3, <2>4, <2>5 DEF InOrder, Earlier, Kinds
    <2>8. Remembers(j)'
      <3>1. job'[j].pc \notin {"refused", "failed"}
        BY <2>1 DEF AfterClose, After, Kinds
      <3> QED
        BY <2>1, <2>2, <2>3, <3>1 DEF FilesInv, Remembers
    <2>9. ASSUME NEW k \in Jobs \ {j} PROVE InOrder(k)' /\ Remembers(k)'
      BY <2>1, <2>2, <2>9, FilesFrame DEF FilesInv
    <2> QED
      BY <2>1, <2>6, <2>7, <2>8, <2>9 DEF FilesInv
  <1>5. ASSUME NEW j \in Jobs, NEW f \in Files, ReadObject(j, f) \/ Unlisted(j, f)
        PROVE  TypeInv' /\ FilesInv'
    <2>1. PICK read \in SUBSET Files : Reads(j, f, read)
      BY <1>5, ReadingReads
    <2>2. /\ TypeInv'
          /\ job'[j].mode = job[j].mode /\ job'[j].pc = job[j].pc
          /\ job'[j].kept = job[j].kept /\ job'[j].stuck = job[j].stuck
          /\ \A k \in Jobs \ {j} : job'[k] = job[k]
      BY <2>1, ReadsRun
    <2>3. dir' = dir /\ tmp' = tmp
      BY <2>1 DEF Reads
    <2>4. Made(j)' = Made(j) /\ Held(j)' = Held(j)
      BY <2>2 DEF Made, Held
    <2>5. InOrder(j)' /\ Remembers(j)'
      BY <2>2, <2>3, <2>4 DEF FilesInv, InOrder, Remembers
    <2> QED
      BY <2>2, <2>3, <2>5, FilesFrame DEF FilesInv
  <1>6. ASSUME NEW j \in Jobs, NEW kind \in Kinds, Copy(j, kind)
        PROVE  TypeInv' /\ FilesInv'
    <2>1. /\ TypeInv' /\ job[j].pc = "copy"
          /\ MovesTo(j, IF kind = "config" THEN "publish" ELSE "copy")
      BY <1>6, CopyRun
    <2>2. dir' = dir
      BY <1>6 DEF Copy
    <2>3. PICK pc \in {"copy", "publish"} : MovesTo(j, pc)
      BY <2>1
    <2>4. /\ pc \notin Kinds \cup {"refused", "failed"}
          /\ pc \in Kinds \cup CleansUp \cup BackupEnded \cup {"copy", "publish"}
      BY DEF Kinds
    <2>5. job[j].mode # "all" /\ job[j].pc \in Pending
      BY <2>1 DEF FilesInv, InOrder, Pending
    <2>6. \A k \in Kinds : [job |-> j, kind |-> k] \notin tmp
      BY <2>1, NothingOpen
    <2> QED
      BY <2>1, <2>2, <2>3, <2>4, <2>5, <2>6, FilesMove
  <1>7. ASSUME NEW j \in Jobs, Refused(j)
        PROVE  TypeInv' /\ FilesInv'
    <2>1. TypeInv' /\ MovesTo(j, "refusing") /\ job[j].pc = "compare" /\ dir' = dir
      BY <1>7, RefusedRun DEF Refused
    <2> QED
      BY <2>1, NothingOpen, FilesMove DEF Pending, BackupEnded, CleansUp, Kinds
  <1>8. ASSUME NEW j \in Jobs, Agrees(j)
        PROVE  TypeInv' /\ FilesInv'
    <2>1. TypeInv' /\ MovesTo(j, NextKind(j)) /\ job[j].pc = "compare" /\ dir' = dir
      BY <1>8, AgreesRun DEF Agrees
    <2>2. PICK pc \in {"objects", "config", "ok"} : pc = NextKind(j)
      BY DEF NextKind
    <2>3. Made(j) \in {{"db"}, {"db", "objects"}, Kinds}
      BY <2>1 DEF FilesInv, InOrder
    <2>4. pc \in Kinds => Made(j) = Earlier(pc)
      BY <2>2, <2>3 DEF NextKind, Earlier, Kinds
    <2> QED
      BY <2>1, <2>2, <2>4, NothingOpen, FilesMove DEF Pending, BackupEnded, Kinds
  <1>9. ASSUME NEW j \in Jobs, Publish(j)
        PROVE  TypeInv' /\ FilesInv'
    <2>1. TypeInv' /\ MovesTo(j, "ok") /\ job[j].pc = "publish" /\ dir' = dir
      BY <1>9, PublishRun DEF Publish
    <2> QED
      BY <2>1, NothingOpen, FilesMove DEF Pending, BackupEnded, Kinds
  <1>10. ASSUME NEW j \in Jobs, Raises(j)
         PROVE  TypeInv' /\ FilesInv'
    <2>1. PICK pc \in {"failing", "failed"} :
            /\ TypeInv' /\ MovesTo(j, pc)
            /\ pc = "failed" => job[j].mode # "all"
            /\ job[j].pc \in Pending /\ dir' = dir
      BY <1>10, RaisesRun
    <2> QED
      BY <2>1, FilesMove DEF BackupEnded, CleansUp, Kinds
  <1>11. ASSUME NEW j \in Jobs, Dies(j)
         PROVE  TypeInv' /\ FilesInv'
    <2>1. /\ TypeInv' /\ MovesTo(j, "dead")
          /\ job[j].pc \in Pending \cup CleansUp /\ dir' = dir
      BY <1>11, DiesRun
    <2> QED
      BY <2>1, FilesMove DEF BackupEnded, Kinds
  <1>12. ASSUME NEW file \in dir, DeleteFile(file)
         PROVE  TypeInv' /\ FilesInv'
    <2>1. dir' \subseteq dir /\ UNCHANGED <<store, tmp, job, setting>>
      BY <1>12 DEF DeleteFile
    <2> QED
      BY <2>1, FilesFrame DEF FilesInv, TypeInv, store
  <1>13. CASE UNCHANGED backupVars
    <2>1. UNCHANGED <<rows, objects, changes, adding, removing, dir, tmp, job, setting>>
      BY <1>13 DEF backupVars, store
    <2> QED
      BY <2>1, FilesFrame DEF FilesInv, TypeInv
  <1>14. ASSUME NEW j \in Jobs, NEW file \in job[j].kept,
                Removes(j, file) \/ CannotRemove(j, file)
         PROVE  TypeInv' /\ FilesInv'
    <2>1. PICK stuck \in SUBSET File :
            /\ TypeInv' /\ job[j].pc \in CleansUp /\ tmp' = tmp
            /\ job'[j].mode = job[j].mode /\ job'[j].pc = job[j].pc
            /\ job'[j].kept = job[j].kept \ {file} /\ job'[j].stuck = stuck
            /\ \/ dir' = dir \ {file} /\ stuck = job[j].stuck
               \/ dir' = dir /\ stuck = job[j].stuck \cup {file}
            /\ \A k \in Jobs \ {j} : job'[k] = job[k]
      BY <1>14, RemovalRun
    <2>2. Held(j)' \subseteq Held(j) /\ \A other \in dir' \cap Held(j) : other \in Held(j)'
      BY <2>1 DEF Held
    <2>3. InOrder(j)'
      BY <2>1, <2>2 DEF FilesInv, InOrder, Pending, Kinds, CleansUp
    <2>4. Remembers(j)'
      BY <2>1, <2>2 DEF FilesInv, Remembers, CleansUp
    <2>5. ASSUME NEW k \in Jobs \ {j} PROVE InOrder(k)' /\ Remembers(k)'
      BY <2>1, <2>5, FilesFrame DEF FilesInv
    <2> QED
      BY <2>1, <2>3, <2>4, <2>5 DEF FilesInv
  <1>15. ASSUME NEW j \in Jobs, CleanedUp(j)
         PROVE  TypeInv' /\ FilesInv'
    <2>1. PICK pc \in {"refused", "failed"} :
            /\ TypeInv' /\ MovesTo(j, pc)
            /\ job[j].pc \in CleansUp /\ (pc = "failed" \/ job[j].pc = "refusing")
            /\ job[j].kept = {}
      BY <1>15, CleanedUpRun
    <2>2. dir' = dir
      BY <1>15 DEF CleanedUp
    <2>3. pc = "failed" \/ \A kind \in Kinds : [job |-> j, kind |-> kind] \notin tmp
      BY <2>1 DEF FilesInv, InOrder, Kinds
    <2> QED
      BY <2>1, <2>2, <2>3, FilesMove DEF BackupEnded, Kinds
  <1> QED
    BY <1>1, <1>2, <1>3, <1>4, <1>5, <1>6, <1>7, <1>8, <1>9, <1>10, <1>11, <1>12, <1>13,
       <1>14, <1>15
       DEF BackupsNext

LEMMA FilesInitially == BackupsInit => TypeInv /\ FilesInv
  <1> SUFFICES ASSUME BackupsInit PROVE TypeInv /\ FilesInv
    OBVIOUS
  <1>1. TypeInv
    BY WaitingTyped, FilesAssumption, SettingsAssumption DEF BackupsInit, TypeInv, File
  <1>2. ASSUME NEW j \in Jobs PROVE InOrder(j) /\ Remembers(j)
    <2>1. /\ job[j].pc = "waiting" /\ job[j].kept = {} /\ job[j].stuck = {}
          /\ dir = {} /\ tmp = {}
      BY DEF BackupsInit, Waiting
    <2> QED
      BY <2>1 DEF InOrder, Remembers, Kinds
  <1> QED
    BY <1>1, <1>2 DEF FilesInv

\* A run-all that was refused because the database changed, or in which a step
\* raised, has tried to delete every file of its own that is still in the backup
\* directory: nothing that stops one deletion, and no deletion by others, keeps its
\* clean-up from the files that come after.
THEOREM RefusalLeavesNothing == BackupsSpec => []RefusedLeavesNothing
  <1>1. TypeInv /\ FilesInv => RefusedLeavesNothing
    BY DEF FilesInv, Remembers, Held, RefusedLeavesNothing
  <1> QED
    BY <1>1, FilesInitially, FilesInductive, PTL DEF BackupsSpec

-----------------------------------------------------------------------------
(* The attachments.                                                        *)

LEMMA StoreInductive ==
  ASSUME TypeInv, StoreInv, [BackupsNext]_backupVars
  PROVE  StoreInv' /\ setting'.brief = setting.brief
                   /\ setting'.removable = setting.removable
  <1>1. ASSUME NEW f \in Files, Put(f) \/ CommitPut(f) \/ Remove(f) \/ CommitRemove(f)
        PROVE  StoreInv' /\ setting'.brief = setting.brief
                         /\ setting'.removable = setting.removable
    <2>1. setting'.brief = setting.brief /\ setting'.removable = setting.removable
      BY <1>1, StoreStep
    <2>2. CASE Put(f)
      BY <2>1, <2>2 DEF Put, StoreInv
    <2>3. CASE CommitPut(f)
      BY <2>1, <2>3 DEF CommitPut, StoreInv
    <2>4. CASE Remove(f)
      BY <2>1, <2>4 DEF Remove, StoreInv
    <2>5. CASE CommitRemove(f)
      BY <2>1, <2>5 DEF CommitRemove, StoreInv
    <2> QED
      BY <1>1, <2>1, <2>2, <2>3, <2>4, <2>5
  <1>2. ASSUME UNCHANGED store, setting'.removable = setting.removable
        PROVE  StoreInv'
    BY <1>2 DEF store, StoreInv
  <1>3. ASSUME UNCHANGED <<store, setting>>
        PROVE  StoreInv' /\ setting'.brief = setting.brief
                         /\ setting'.removable = setting.removable
    BY <1>2, <1>3
  <1>4. ASSUME NEW j \in Jobs, NEW mode \in {"all", "full"}, Begin(j, mode)
        PROVE  StoreInv' /\ setting'.brief = setting.brief
                         /\ setting'.removable = setting.removable
    BY <1>2, <1>4, BeginRun DEF Begin
  <1>5. ASSUME NEW j \in Jobs, Raises(j) \/ Dies(j)
        PROVE  StoreInv' /\ setting'.brief = setting.brief
                         /\ setting'.removable = setting.removable
    BY <1>2, <1>5, RaisesRun, DiesRun DEF Raises, Dies
  <1>6. ASSUME NEW j \in Jobs, NEW kind \in Kinds,
               Open(j, kind) \/ Close(j, kind) \/ Copy(j, kind)
        PROVE  UNCHANGED <<store, setting>>
    BY <1>6 DEF Open, Close, Copy
  <1>7. ASSUME NEW j \in Jobs, NEW f \in Files, ReadObject(j, f) \/ Unlisted(j, f)
        PROVE  UNCHANGED <<store, setting>>
    BY <1>7 DEF ReadObject, Unlisted
  <1>8. ASSUME NEW j \in Jobs, Refused(j) \/ Agrees(j) \/ Publish(j)
        PROVE  UNCHANGED <<store, setting>>
    BY <1>8 DEF Refused, Agrees, Publish
  <1>9. ASSUME NEW file \in dir, DeleteFile(file)
        PROVE  UNCHANGED <<store, setting>>
    BY <1>9 DEF DeleteFile
  <1>10. CASE UNCHANGED backupVars
    BY <1>3, <1>10 DEF backupVars
  <1>11. ASSUME NEW j \in Jobs, NEW file \in job[j].kept,
                Removes(j, file) \/ CannotRemove(j, file)
         PROVE  StoreInv' /\ setting'.brief = setting.brief
                          /\ setting'.removable = setting.removable
    BY <1>2, <1>11, RemovalRun
  <1>12. ASSUME NEW j \in Jobs, CleanedUp(j)
         PROVE  UNCHANGED <<store, setting>>
    BY <1>12 DEF CleanedUp
  <1> QED
    BY <1>1, <1>3, <1>4, <1>5, <1>6, <1>7, <1>8, <1>9, <1>10, <1>11, <1>12 DEF BackupsNext

LEMMA StoreInitially == BackupsInit => StoreInv
  BY DEF BackupsInit, StoreInv

\* Every reachable state is well typed; no kind of a backup is open under its
\* temporary name and finished at once.
THEOREM BackupsTypeCorrect == BackupsSpec => []BackupsTypeOK
  <1>1. ASSUME TypeInv, FilesInv PROVE BackupsTypeOK
    <2>1. \A j \in Jobs : job[j] \in JobRecord
      BY <1>1 DEF TypeInv
    <2>2. \A j \in Jobs : /\ job[j].todo \cup job[j].got \subseteq Files
                          /\ job[j].kept \cup job[j].staged \cup job[j].stuck \subseteq File
      BY <2>1 DEF JobRecord
    <2>3. ASSUME NEW file \in dir
          PROVE  [job |-> file.job, kind |-> file.kind] \notin tmp
      <3>1. file.job \in Jobs /\ file.kind \in Kinds
        BY <1>1 DEF TypeInv, File
      <3>2. file \in Held(file.job)
        BY <1>1, <3>1 DEF FilesInv, Remembers
      <3> QED
        BY <1>1, <3>1, <3>2 DEF FilesInv, InOrder
    <2> QED
      BY <1>1, <2>2, <2>3 DEF TypeInv, BackupsTypeOK, File, Temporary
  <1> QED
    BY <1>1, FilesInitially, FilesInductive, PTL DEF BackupsSpec

-----------------------------------------------------------------------------
(* Sets that can be restored together.                                     *)

\* While nothing is removed, or no commit has moved the marker since the backup
\* began, rows that its dump has read stay.
Steady(j) ==
    \/ setting.removable = {}
    \/ setting.brief /\ job[j].mode = "all" /\ changes = job[j].marker

KeptDumps(j) == {file \in job[j].kept : file.kind = "db"}

\* What a backup has of the attachments: its dump names rows that are still there,
\* and the archive has, or has still to read, the objects of all of them.
Covers(j) ==
    /\ \A d \in KeptDumps(j) : d.data \subseteq rows
    /\ job[j].pc = "db" => job[j].got \subseteq rows
    /\ job[j].pc = "objects" /\ [job |-> j, kind |-> "objects"] \in tmp =>
         \A d \in KeptDumps(j) : d.data \subseteq job[j].todo \cup job[j].got
    /\ Restorable(job[j].kept)

Window(j) ==
    /\ job[j].marker <= changes
    /\ job[j].pc \in Pending /\ Steady(j) => Covers(j)
    /\ setting.brief /\ job[j].mode = "all" /\ job[j].pc = "ok"
         => Restorable(job[j].kept)

\* A full backup copies the files it has made, the dump first.
CopiedFiles(j) ==
    LET kinds == {file.kind : file \in job[j].staged} IN
    /\ job[j].pc \in Pending => job[j].staged \subseteq job[j].kept
    /\ "objects" \in kinds => "db" \in kinds
    /\ job[j].pc = "publish" => kinds = Kinds

WholeSet(files) ==
    /\ {file.kind : file \in files} = Kinds
    /\ Cardinality({file.job : file \in files}) = 1
    /\ setting.removable = {} => Restorable(files)

SetsInv ==
    /\ \A j \in Jobs : Window(j) /\ CopiedFiles(j)
    /\ \A files \in exports : WholeSet(files)

LEMMA WindowFrame ==
  ASSUME NEW k \in Jobs, Window(k), job'[k] = job[k],
         Steady(k)' => Steady(k) /\ rows \subseteq rows',
         job[k].marker <= changes',
         setting'.brief = setting.brief,
         [job |-> k, kind |-> "objects"] \in tmp'
            => [job |-> k, kind |-> "objects"] \in tmp
  PROVE  Window(k)'
  <1>1. KeptDumps(k)' = KeptDumps(k)
    BY DEF KeptDumps
  <1>2. ASSUME job[k].pc \in Pending, Steady(k)' PROVE Covers(k)'
    BY <1>1, <1>2 DEF Window, Covers
  <1> QED
    BY <1>2 DEF Window

LEMMA CopiesFrame ==
  ASSUME NEW k \in Jobs, CopiedFiles(k), job'[k] = job[k]
  PROVE  CopiedFiles(k)'
  BY DEF CopiedFiles

LEMMA ExportsFrame ==
  ASSUME SetsInv, exports' = exports, setting'.removable = setting.removable
  PROVE  \A files \in exports' : WholeSet(files)'
  BY DEF SetsInv, WholeSet

\* Steps of one backup that leave the attachments: the other backups.
LEMMA OthersFrame ==
  ASSUME TypeInv, SetsInv, NEW j \in Jobs, UNCHANGED store,
         setting'.brief = setting.brief, setting'.removable = setting.removable,
         \A k \in Jobs \ {j} : job'[k] = job[k],
         \A k \in Jobs \ {j} : [job |-> k, kind |-> "objects"] \in tmp'
            => [job |-> k, kind |-> "objects"] \in tmp
  PROVE  \A k \in Jobs \ {j} : Window(k)' /\ CopiedFiles(k)'
  <1> SUFFICES ASSUME NEW k \in Jobs \ {j} PROVE Window(k)' /\ CopiedFiles(k)'
    OBVIOUS
  <1>1. rows' = rows /\ changes' = changes
    BY DEF store
  <1>2. Steady(k)' => Steady(k) /\ rows \subseteq rows'
    BY <1>1 DEF Steady
  <1>3. Window(k) /\ CopiedFiles(k)
    BY DEF SetsInv
  <1> QED
    BY <1>1, <1>2, <1>3, WindowFrame, CopiesFrame DEF Window

\* A backup that moves on keeps its window: what it has still covers its dump.
LEMMA WindowMove ==
  ASSUME TypeInv, SetsInv, NEW j \in Jobs, NEW pc, MovesTo(j, pc),
         UNCHANGED store,
         setting'.brief = setting.brief, setting'.removable = setting.removable,
         job[j].pc \in Pending, pc # "db",
         pc = "objects" => [job |-> j, kind |-> "objects"] \notin tmp,
         pc = "ok" /\ job[j].mode = "all" /\ setting.brief => Steady(j)
  PROVE  Window(j)'
  <1>1. rows' = rows /\ changes' = changes
    BY DEF store
  <1>2. Window(j) /\ KeptDumps(j)' = KeptDumps(j)
    BY DEF SetsInv, KeptDumps, MovesTo
  <1>3. Steady(j)' => Steady(j)
    BY <1>1 DEF Steady, MovesTo
  <1>4. ASSUME Steady(j)' PROVE Covers(j)'
    BY <1>1, <1>2, <1>3, <1>4 DEF Window, Covers, MovesTo
  <1>5. setting.brief /\ job[j].mode = "all" /\ pc = "ok" => Restorable(job[j].kept)
    BY <1>2 DEF Window, Covers
  <1> QED
    BY <1>1, <1>2, <1>4, <1>5 DEF Window, MovesTo

\* A backup that has failed, or is cleaning up, has no window to keep.
LEMMA WindowShut ==
  ASSUME SetsInv, NEW j \in Jobs, UNCHANGED store,
         job'[j].marker = job[j].marker, job'[j].pc \notin Pending \cup {"ok"}
  PROVE  Window(j)'
  <1>1. Window(j) /\ changes' = changes
    BY DEF SetsInv, store
  <1> QED
    BY <1>1 DEF Window

\* A backup that moves on and copies nothing.
LEMMA CopiesMove ==
  ASSUME NEW j \in Jobs, CopiedFiles(j), NEW pc, MovesTo(j, pc), pc # "publish",
         job[j].pc \in Pending \/ pc \notin Pending,
         job'[j].staged \in {job[j].staged, {}}
  PROVE  CopiedFiles(j)'
  BY DEF CopiedFiles, MovesTo

\* The archive of a steady backup gets all that its dump names.
LEMMA CloseWindow ==
  ASSUME TypeInv, FilesInv, SetsInv, NEW j \in Jobs, NEW kind \in Kinds,
         Close(j, kind)
  PROVE  Window(j)' /\ CopiedFiles(j)'
  <1>1. PICK file \in File :
         /\ file = BackupFile(j, kind, job[j].got)
         /\ job[j].pc = kind /\ [job |-> j, kind |-> kind] \in tmp
         /\ job[j].todo = {}
         /\ tmp' = tmp \ {[job |-> j, kind |-> kind]}
         /\ job'[j].mode = job[j].mode /\ job'[j].pc = AfterClose(j, kind)
         /\ job'[j].marker = job[j].marker /\ job'[j].stuck = job[j].stuck
         /\ job'[j].kept = job[j].kept \cup {file}
         /\ job'[j].staged = job[j].staged
         /\ job'[j].got = {}
    BY CloseRun
  <1>2. /\ file.kind = kind /\ file.data = job[j].got
    BY <1>1 DEF BackupFile
  <1>3. rows' = rows /\ changes' = changes /\ setting' = setting
    BY DEF Close, store
  <1>4. Window(j) /\ CopiedFiles(j) /\ Made(j) = Earlier(kind)
    BY <1>1 DEF SetsInv, FilesInv, InOrder
  <1>5. job[j].pc \in Pending
    BY <1>1 DEF Pending
  <1>6. Steady(j)' => Steady(j)
    BY <1>1, <1>3 DEF Steady
  <1>7. /\ job'[j].pc \notin {"db", "ok", "publish"}
        /\ job'[j].pc = "objects" => kind = "db"
    BY <1>1 DEF AfterClose, After, Kinds
  <1>8. ASSUME Steady(j) PROVE Covers(j)'
    <2>1. Covers(j)
      BY <1>4, <1>5, <1>8 DEF Window
    <2>2. \A d \in KeptDumps(j)' : d.data \subseteq rows'
      BY <1>1, <1>2, <1>3, <2>1 DEF KeptDumps, Covers
    <2>3. job'[j].pc = "objects" => [job |-> j, kind |-> "objects"] \notin tmp'
      BY <1>1, <1>7 DEF FilesInv, InOrder, Kinds
    <2>4. ASSUME kind = "db" PROVE Restorable(job'[j].kept)
      <3>1. \A o \in job'[j].kept : o.kind # "objects"
        BY <1>1, <1>2, <1>4, <2>4 DEF Made, Earlier
      <3> QED
        BY <3>1 DEF Restorable
    <2>5. ASSUME kind = "objects" PROVE Restorable(job'[j].kept)
      <3>1. \A d \in KeptDumps(j) : d.data \subseteq file.data
        BY <1>1, <1>2, <2>1, <2>5 DEF Covers
      <3>2. \A o \in job[j].kept : o.kind # "objects"
        BY <1>4, <2>5 DEF Made, Earlier
      <3> QED
        BY <1>1, <1>2, <2>5, <3>1, <3>2 DEF Restorable, KeptDumps
    <2>6. ASSUME kind = "config" PROVE Restorable(job'[j].kept)
      BY <1>1, <1>2, <2>1, <2>6 DEF Restorable, Covers
    <2>7. Restorable(job'[j].kept)
      BY <2>4, <2>5, <2>6 DEF Kinds
    <2> QED
      BY <1>7, <2>2, <2>3, <2>7 DEF Covers, Restorable
  <1>9. Window(j)'
    BY <1>1, <1>3, <1>4, <1>6, <1>7, <1>8 DEF Window
  <1>10. CopiedFiles(j)'
    BY <1>1, <1>4, <1>5, <1>7 DEF CopiedFiles
  <1> QED
    BY <1>9, <1>10

LEMMA OpenWindow ==
  ASSUME TypeInv, StoreInv, FilesInv, SetsInv, NEW j \in Jobs, NEW kind \in Kinds,
         Open(j, kind)
  PROVE  Window(j)' /\ CopiedFiles(j)'
  <1>1. /\ At(j, kind)
        /\ tmp' = tmp \cup {[job |-> j, kind |-> kind]}
        /\ job'[j].mode = job[j].mode /\ job'[j].pc = job[j].pc
        /\ job'[j].marker = job[j].marker /\ job'[j].stuck = job[j].stuck
        /\ job'[j].kept = job[j].kept /\ job'[j].staged = job[j].staged
        /\ job'[j].got = IF kind = "db" THEN rows ELSE {}
        /\ job'[j].todo = IF kind = "objects" THEN objects ELSE {}
    BY OpenRun
  <1>2. rows' = rows /\ changes' = changes /\ setting' = setting
    BY DEF Open, store
  <1>3. job[j].pc = kind /\ (setting.brief => removing = {})
    BY <1>1 DEF At
  <1>4. Window(j) /\ CopiedFiles(j) /\ KeptDumps(j)' = KeptDumps(j)
    BY <1>1 DEF SetsInv, KeptDumps
  <1>5. job[j].pc \in Pending /\ job[j].pc \notin {"ok", "publish"}
    BY <1>3 DEF Pending, Kinds
  <1>6. Steady(j)' = Steady(j)
    BY <1>1, <1>2 DEF Steady
  <1>7. ASSUME Steady(j) PROVE Covers(j)'
    <2>1. Covers(j)
      BY <1>4, <1>5, <1>7 DEF Window
    <2>2. rows \subseteq objects
      BY <1>3, <1>7 DEF Steady, StoreInv
    <2>3. ASSUME kind = "objects", NEW d \in KeptDumps(j)
          PROVE  d.data \subseteq job'[j].todo
      BY <1>1, <2>1, <2>2, <2>3 DEF Covers
    <2>4. job'[j].pc = "db" => job'[j].got \subseteq rows'
      BY <1>1, <1>2, <1>3
    <2> QED
      BY <1>1, <1>2, <1>3, <1>4, <2>1, <2>3, <2>4 DEF Covers
  <1>8. Window(j)'
    BY <1>1, <1>2, <1>4, <1>5, <1>6, <1>7 DEF Window
  <1>9. CopiedFiles(j)'
    BY <1>1, <1>4 DEF CopiedFiles
  <1> QED
    BY <1>8, <1>9

\* What a backup passes over has no row, while it is steady.
LEMMA ReadsWindow ==
  ASSUME TypeInv, StoreInv, SetsInv, NEW j \in Jobs, NEW f \in Files,
         NEW read \in SUBSET Files, Reads(j, f, read)
  PROVE  Window(j)' /\ CopiedFiles(j)'
  <1>1. /\ job'[j].mode = job[j].mode /\ job'[j].pc = job[j].pc
        /\ job'[j].marker = job[j].marker /\ job'[j].stuck = job[j].stuck
        /\ job'[j].kept = job[j].kept /\ job'[j].staged = job[j].staged
        /\ job'[j].got = job[j].got \cup read
        /\ job'[j].todo = job[j].todo \ {f}
    BY ReadsRun
  <1>2. /\ job[j].pc = "objects" /\ (setting.brief => removing = {})
        /\ [job |-> j, kind |-> "objects"] \in tmp
        /\ f \in read \/ f \notin objects
    BY DEF Reads, Opened, At
  <1>3. rows' = rows /\ changes' = changes /\ setting' = setting /\ tmp' = tmp
    BY DEF Reads, store
  <1>4. Window(j) /\ CopiedFiles(j) /\ KeptDumps(j)' = KeptDumps(j)
    BY <1>1 DEF SetsInv, KeptDumps
  <1>5. Steady(j)' = Steady(j)
    BY <1>1, <1>3 DEF Steady
  <1>6. ASSUME Steady(j) PROVE Covers(j)'
    <2>1. Covers(j)
      BY <1>2, <1>4, <1>6 DEF Window, Pending, Kinds
    <2>2. rows \subseteq objects
      BY <1>2, <1>6 DEF Steady, StoreInv
    <2>3. ASSUME NEW d \in KeptDumps(j)
          PROVE  d.data \subseteq job'[j].todo \cup job'[j].got
      <3>1. d.data \subseteq rows /\ d.data \subseteq job[j].todo \cup job[j].got
        BY <1>2, <2>1 DEF Covers
      <3> QED
        BY <1>1, <1>2, <2>2, <3>1
    <2> QED
      BY <1>1, <1>2, <1>3, <1>4, <2>1, <2>3 DEF Covers
  <1>7. Window(j)'
    BY <1>1, <1>2, <1>3, <1>4, <1>5, <1>6 DEF Window
  <1>8. CopiedFiles(j)'
    BY <1>1, <1>4 DEF CopiedFiles
  <1> QED
    BY <1>7, <1>8

LEMMA CopyCopies ==
  ASSUME TypeInv, FilesInv, SetsInv, NEW j \in Jobs, NEW kind \in Kinds, Copy(j, kind)
  PROVE  CopiedFiles(j)'
  <1>1. PICK file \in dir \cap job[j].kept :
         /\ file.kind = kind
         /\ MovesTo(j, IF kind = "config" THEN "publish" ELSE "copy")
         /\ job'[j].staged = job[j].staged \cup {file}
    BY CopyRun
  <1> DEFINE kinds == {x.kind : x \in job[j].staged}
  <1>2. job[j].staged \in SUBSET File
    BY DEF TypeInv, JobRecord
  <1>3. \A k \in Kinds : After(k) = kind => k \in kinds
    BY DEF Copy, CopyTurn
  <1>4. /\ kind = "objects" => "db" \in kinds
        /\ kind = "config" => "objects" \in kinds
    BY <1>3 DEF After, Kinds
  <1>5. {x.kind : x \in job'[j].staged} = kinds \cup {kind}
    BY <1>1
  <1>6. kinds \subseteq Kinds
    BY <1>2 DEF File
  <1>7. CopiedFiles(j)
    BY DEF SetsInv
  <1>8. "objects" \in kinds => "db" \in kinds
    BY <1>7 DEF CopiedFiles
  <1>9. "objects" \in kinds \cup {kind} => "db" \in kinds \cup {kind}
    BY <1>4, <1>8
  <1>10. job'[j].pc = "publish" => kinds \cup {kind} = Kinds
    <2>1. job'[j].pc = "publish" => kind = "config"
      BY <1>1 DEF MovesTo
    <2> QED
      BY <2>1, <1>4, <1>6, <1>8 DEF Kinds
  <1>11. job'[j].staged \subseteq job'[j].kept
    <2>1. job[j].pc \in Pending
      BY DEF Copy, CopyTurn, At, Pending
    <2> QED
      BY <1>1, <1>7, <2>1 DEF CopiedFiles, MovesTo
  <1> HIDE DEF kinds
  <1> QED
    BY <1>5, <1>9, <1>10, <1>11 DEF CopiedFiles

\* What is published is whole.
LEMMA PublishWhole ==
  ASSUME TypeInv, FilesInv, SetsInv, NEW j \in Jobs, job[j].pc = "publish"
  PROVE  WholeSet(job[j].staged)
  <1>1. Window(j) /\ CopiedFiles(j) /\ Remembers(j)
    BY DEF SetsInv, FilesInv
  <1>2. /\ job[j].staged \subseteq job[j].kept
        /\ {file.kind : file \in job[j].staged} = Kinds
    BY <1>1 DEF CopiedFiles, Pending
  <1>3. PICK one \in job[j].staged : one.kind = "db"
    BY <1>2 DEF Kinds
  <1>4. {file.job : file \in job[j].staged} = {j}
    BY <1>1, <1>2, <1>3 DEF Remembers
  <1>5. Cardinality({file.job : file \in job[j].staged}) = 1
    BY <1>4, FS_Singleton
  <1>6. ASSUME setting.removable = {} PROVE Restorable(job[j].staged)
    <2>1. Restorable(job[j].kept)
      BY <1>1, <1>6 DEF Window, Steady, Covers, Pending
    <2> QED
      BY <1>2, <2>1 DEF Restorable
  <1> QED
    BY <1>2, <1>5, <1>6 DEF WholeSet

LEMMA SetsInductive ==
  ASSUME TypeInv, StoreInv, FilesInv, SetsInv, [BackupsNext]_backupVars
  PROVE  SetsInv'
  <1>1. setting'.brief = setting.brief /\ setting'.removable = setting.removable
    BY StoreInductive
  <1>2. ASSUME exports' = exports, NEW j \in Jobs, UNCHANGED store,
               \A k \in Jobs \ {j} : job'[k] = job[k],
               \A k \in Jobs \ {j} : [job |-> k, kind |-> "objects"] \in tmp'
                  => [job |-> k, kind |-> "objects"] \in tmp,
               Window(j)' /\ CopiedFiles(j)'
        PROVE  SetsInv'
    BY <1>1, <1>2, OthersFrame, ExportsFrame DEF SetsInv
  <1>3. ASSUME NEW f \in Files, Put(f) \/ CommitPut(f) \/ Remove(f) \/ CommitRemove(f)
        PROVE  SetsInv'
    <2>1. Beside
      BY <1>3, StoreStep
    <2>2. ASSUME NEW k \in Jobs
          PROVE  /\ Steady(k)' => Steady(k) /\ rows \subseteq rows'
                 /\ job[k].marker <= changes'
      <3>1. job'[k] = job[k] /\ job[k].marker <= changes
        BY <2>1 DEF Beside, SetsInv, Window
      <3>2. job[k].marker \in Nat /\ changes \in Nat
        BY DEF TypeInv, JobRecord
      <3>3. CASE Put(f)
        BY <1>1, <3>1, <3>3 DEF Put, Steady
      <3>4. CASE CommitPut(f)
        BY <1>1, <3>1, <3>2, <3>4 DEF CommitPut, Steady
      <3>5. CASE Remove(f)
        BY <1>1, <3>1, <3>5 DEF Remove, Steady
      <3>6. CASE CommitRemove(f)
        <4>1. changes' = changes + 1 /\ removing # {}
          BY <3>6 DEF CommitRemove
        <4>2. setting.removable # {}
          BY <4>1 DEF StoreInv
        <4> QED
          BY <1>1, <3>1, <3>2, <4>1, <4>2 DEF Steady
      <3> QED
        BY <1>3, <3>3, <3>4, <3>5, <3>6
    <2>3. \A k \in Jobs : Window(k)' /\ CopiedFiles(k)'
      BY <1>1, <2>1, <2>2, WindowFrame, CopiesFrame DEF Beside, SetsInv
    <2> QED
      BY <1>1, <2>1, <2>3, ExportsFrame DEF SetsInv, Beside
  <1>4. ASSUME NEW j \in Jobs, NEW mode \in {"all", "full"}, Begin(j, mode)
        PROVE  SetsInv'
    <2>1. /\ job'[j].mode = mode /\ job'[j].pc = "db" /\ job'[j].marker = changes
          /\ job'[j].todo = {} /\ job'[j].got = {}
          /\ job'[j].kept = {} /\ job'[j].staged = {}
          /\ \A k \in Jobs \ {j} : job'[k] = job[k]
      BY <1>4, BeginRun
    <2>2. UNCHANGED <<store, dir, tmp, exports>>
      BY <1>4 DEF Begin
    <2>3. changes' = changes /\ changes \in Nat
      BY <2>2 DEF store, TypeInv
    <2>4. Window(j)'
      BY <2>1, <2>3 DEF Window, Covers, KeptDumps, Restorable
    <2>5. CopiedFiles(j)'
      BY <2>1 DEF CopiedFiles
    <2> QED
      BY <1>2, <2>1, <2>2, <2>4, <2>5
  <1>5. ASSUME NEW j \in Jobs, NEW kind \in Kinds, Open(j, kind)
        PROVE  SetsInv'
    <2>1. /\ tmp' = tmp \cup {[job |-> j, kind |-> kind]}
          /\ \A k \in Jobs \ {j} : job'[k] = job[k]
      BY <1>5, OpenRun
    <2>2. UNCHANGED <<store, exports>>
      BY <1>5 DEF Open
    <2> QED
      BY <1>2, <1>5, <2>1, <2>2, OpenWindow
  <1>6. ASSUME NEW j \in Jobs, NEW kind \in Kinds, Close(j, kind)
        PROVE  SetsInv'
    <2>1. /\ tmp' = tmp \ {[job |-> j, kind |-> kind]}
          /\ \A k \in Jobs \ {j} : job'[k] = job[k]
      BY <1>6, CloseRun
    <2>2. UNCHANGED <<store, exports>>
      BY <1>6 DEF Close
    <2> QED
      BY <1>2, <1>6, <2>1, <2>2, CloseWindow
  <1>7. ASSUME NEW j \in Jobs, NEW f \in Files, ReadObject(j, f) \/ Unlisted(j, f)
        PROVE  SetsInv'
    <2>1. PICK read \in SUBSET Files : Reads(j, f, read)
      BY <1>7, ReadingReads
    <2>2. \A k \in Jobs \ {j} : job'[k] = job[k]
      BY <2>1, ReadsRun
    <2>3. UNCHANGED <<store, tmp, exports>>
      BY <2>1 DEF Reads
    <2> QED
      BY <1>2, <2>1, <2>2, <2>3, ReadsWindow
  <1>8. ASSUME NEW j \in Jobs, NEW kind \in Kinds, Copy(j, kind)
        PROVE  SetsInv'
    <2>1. /\ job[j].pc = "copy"
          /\ MovesTo(j, IF kind = "config" THEN "publish" ELSE "copy")
      BY <1>8, CopyRun
    <2>2. PICK pc \in {"copy", "publish"} : MovesTo(j, pc)
      BY <2>1
    <2>3. UNCHANGED <<store, exports>>
      BY <1>8 DEF Copy
    <2>4. Window(j)'
      BY <1>1, <2>1, <2>2, <2>3, WindowMove DEF Pending
    <2> QED
      BY <1>2, <1>8, <2>2, <2>3, <2>4, CopyCopies DEF MovesTo
  <1>9. ASSUME NEW j \in Jobs, Refused(j)
        PROVE  SetsInv'
    <2>1. MovesTo(j, "refusing") /\ job'[j].staged = job[j].staged
      BY <1>9, RefusedRun
    <2>2. UNCHANGED <<store, exports>>
      BY <1>9 DEF Refused
    <2>3. Window(j)'
      BY <2>1, <2>2, WindowShut DEF MovesTo, Pending, Kinds
    <2>4. CopiedFiles(j)'
      BY <2>1, CopiesMove DEF SetsInv, Pending, Kinds
    <2> QED
      BY <1>2, <2>1, <2>2, <2>3, <2>4 DEF MovesTo
  <1>10. ASSUME NEW j \in Jobs, Agrees(j)
         PROVE  SetsInv'
    <2>1. /\ MovesTo(j, NextKind(j)) /\ job'[j].staged = job[j].staged
          /\ job[j].pc = "compare" /\ changes = job[j].marker
      BY <1>10, AgreesRun
    <2>2. PICK pc \in {"objects", "config", "ok"} : MovesTo(j, pc)
      BY <2>1 DEF NextKind
    <2>3. UNCHANGED <<store, exports>>
      BY <1>10 DEF Agrees
    <2>4. job[j].mode = "all" /\ [job |-> j, kind |-> "objects"] \notin tmp
      BY <2>1, NothingOpen DEF FilesInv, InOrder, Kinds
    <2>5. setting.brief => Steady(j)
      BY <2>1, <2>4 DEF Steady
    <2>6. Window(j)'
      BY <1>1, <2>1, <2>2, <2>3, <2>4, <2>5, WindowMove DEF Pending
    <2>7. CopiedFiles(j)'
      BY <2>1, <2>2, CopiesMove DEF SetsInv, Pending
    <2> QED
      BY <1>2, <2>2, <2>3, <2>6, <2>7 DEF MovesTo
  <1>11. ASSUME NEW j \in Jobs, Publish(j)
         PROVE  SetsInv'
    <2>1. MovesTo(j, "ok") /\ job[j].pc = "publish" /\ job'[j].staged = {}
      BY <1>11, PublishRun
    <2>2. UNCHANGED store /\ exports' = exports \cup {job[j].staged}
      BY <1>11 DEF Publish
    <2>3. WholeSet(job[j].staged)
      BY <2>1, PublishWhole
    <2>4. \A files \in exports' : WholeSet(files)'
      BY <1>1, <2>2, <2>3 DEF SetsInv, WholeSet
    <2>5. job[j].mode # "all"
      BY <2>1 DEF FilesInv, InOrder
    <2>6. Window(j)'
      BY <1>1, <2>1, <2>2, <2>5, WindowMove DEF Pending
    <2>7. CopiedFiles(j)'
      BY <2>1, CopiesMove DEF SetsInv, Pending
    <2>8. \A k \in Jobs \ {j} : Window(k)' /\ CopiedFiles(k)'
      BY <1>1, <2>1, <2>2, OthersFrame DEF MovesTo
    <2> QED
      BY <2>4, <2>6, <2>7, <2>8 DEF SetsInv
  <1>12. ASSUME NEW j \in Jobs, Raises(j)
         PROVE  SetsInv'
    <2>1. PICK pc \in {"failing", "failed"} :
            MovesTo(j, pc) /\ job'[j].staged = {}
      BY <1>12, RaisesRun
    <2>2. UNCHANGED <<store, exports>>
      BY <1>12 DEF Raises
    <2>3. Window(j)'
      BY <2>1, <2>2, WindowShut DEF MovesTo, Pending, Kinds
    <2>4. CopiedFiles(j)'
      BY <2>1, CopiesMove DEF SetsInv, Pending, Kinds
    <2> QED
      BY <1>2, <2>1, <2>2, <2>3, <2>4 DEF MovesTo
  <1>13. ASSUME NEW j \in Jobs, Dies(j)
         PROVE  SetsInv'
    <2>1. MovesTo(j, "dead") /\ job'[j].staged = job[j].staged
      BY <1>13, DiesRun
    <2>2. UNCHANGED <<store, exports>>
      BY <1>13 DEF Dies
    <2>3. Window(j)'
      BY <2>1, <2>2, WindowShut DEF MovesTo, Pending, Kinds
    <2>4. CopiedFiles(j)'
      BY <2>1, CopiesMove DEF SetsInv, Pending, Kinds
    <2> QED
      BY <1>2, <2>1, <2>2, <2>3, <2>4 DEF MovesTo
  <1>14. ASSUME UNCHANGED <<store, tmp, job, exports>>
         PROVE  SetsInv'
    <2>1. rows' = rows /\ changes' = changes
      BY <1>14 DEF store
    <2>2. ASSUME NEW k \in Jobs PROVE Window(k)' /\ CopiedFiles(k)'
      <3>1. Steady(k)' => Steady(k)
        BY <1>1, <1>14, <2>1 DEF Steady
      <3>2. Window(k) /\ CopiedFiles(k)
        BY DEF SetsInv
      <3>3. job[k].marker <= changes'
        BY <2>1, <3>2 DEF Window
      <3> QED
        BY <1>1, <1>14, <2>1, <3>1, <3>2, <3>3, WindowFrame, CopiesFrame
    <2> QED
      BY <1>1, <1>14, <2>2, ExportsFrame DEF SetsInv
  <1>15. ASSUME NEW file \in dir, DeleteFile(file)
         PROVE  SetsInv'
    BY <1>14, <1>15 DEF DeleteFile
  <1>16. CASE UNCHANGED backupVars
    BY <1>14, <1>16 DEF backupVars
  <1>17. ASSUME NEW j \in Jobs, NEW file \in job[j].kept,
                Removes(j, file) \/ CannotRemove(j, file)
         PROVE  SetsInv'
    <2>1. /\ job[j].pc \in CleansUp /\ job'[j].pc = job[j].pc
          /\ job'[j].marker = job[j].marker /\ job'[j].staged = job[j].staged
          /\ \A k \in Jobs \ {j} : job'[k] = job[k]
          /\ UNCHANGED <<store, tmp, exports>>
      BY <1>17, RemovalRun
    <2>2. Window(j)'
      BY <2>1, WindowShut DEF CleansUp, Pending, Kinds
    <2>3. CopiedFiles(j)'
      BY <2>1 DEF SetsInv, CopiedFiles, CleansUp, Pending, Kinds
    <2> QED
      BY <1>2, <2>1, <2>2, <2>3
  <1>18. ASSUME NEW j \in Jobs, CleanedUp(j)
         PROVE  SetsInv'
    <2>1. PICK pc \in {"refused", "failed"} :
            MovesTo(j, pc) /\ job'[j].staged = job[j].staged
      BY <1>18, CleanedUpRun
    <2>2. UNCHANGED <<store, exports>>
      BY <1>18 DEF CleanedUp
    <2>3. Window(j)'
      BY <2>1, <2>2, WindowShut DEF MovesTo, Pending, Kinds
    <2>4. CopiedFiles(j)'
      BY <2>1, CopiesMove DEF SetsInv, Pending, Kinds
    <2> QED
      BY <1>2, <2>1, <2>2, <2>3, <2>4 DEF MovesTo
  <1> QED
    BY <1>3, <1>4, <1>5, <1>6, <1>7, <1>8, <1>9, <1>10, <1>11, <1>12, <1>13, <1>15, <1>16,
       <1>17, <1>18
       DEF BackupsNext

LEMMA SetsInitially == BackupsInit => SetsInv
  <1> SUFFICES ASSUME BackupsInit PROVE SetsInv
    OBVIOUS
  <1>1. ASSUME NEW j \in Jobs
        PROVE  Window(j) /\ CopiedFiles(j)
    <2>1. /\ job[j].pc = "waiting" /\ job[j].mode = "none" /\ job[j].staged = {}
          /\ job[j].marker = 0 /\ changes = 0 /\ job[j].kept = {}
      BY DEF BackupsInit, Waiting
    <2>2. Window(j)
      BY <2>1 DEF Window, Pending, Kinds
    <2>3. CopiedFiles(j)
      BY <2>1 DEF CopiedFiles
    <2> QED
      BY <2>2, <2>3
  <1>2. exports = {}
    BY DEF BackupsInit
  <1> QED
    BY <1>1, <1>2 DEF SetsInv

\* The sets that backups vouch for can be restored: the dump and the archive of a
\* run-all that was not refused belong together, while removals are brief; an
\* export directory holds one file of each kind, of one run, and belongs together
\* while nothing is removed.
THEOREM SetsCanBeRestored == BackupsSpec => []SetsRestorable
  <1> DEFINE Inv == TypeInv /\ StoreInv /\ FilesInv /\ SetsInv
  <1>1. BackupsInit => Inv
    BY FilesInitially, StoreInitially, SetsInitially
  <1>2. Inv /\ [BackupsNext]_backupVars => Inv'
    BY FilesInductive, StoreInductive, SetsInductive
  <1>3. Inv => SetsRestorable
    BY DEF SetsInv, Window, WholeSet, SetsRestorable
  <1> QED
    BY <1>1, <1>2, <1>3, PTL DEF BackupsSpec

(***************************************************************************)
(*                                Restores                                 *)
(***************************************************************************)

-----------------------------------------------------------------------------
(* The invariants.                                                         *)

DatabaseStages == {"prepare", "connect", "load", "cleanup", "drop", "rename"}
ObjectStages == {"stage", "copy", "remove", "clean"}

StagedObject == [by: Requests, name: Objects]
RestoreRequest ==
    [pc: Ended \cup DatabaseStages \cup ObjectStages, dump: Whole, target: Targets,
     promote: BOOLEAN, cut: BOOLEAN, mixed: BOOLEAN, replace: BOOLEAN,
     keys: SUBSET Objects, todo: SUBSET Objects, others: SUBSET StagedObject]

InDatabase(r) == req[r].pc \in DatabaseStages
InBucket(r) == req[r].pc \in ObjectStages

RestoreTypeInv ==
    /\ db \in [Targets -> Whole \cup {"gone", "partial"}]
    /\ stored \subseteq Objects
    /\ staged \subseteq StagedObject
    /\ uploaded \subseteq Uploads
    /\ req \in [Requests -> RestoreRequest]
    /\ bounds \in RestoreSetting

\* A request for a database has a target beside the active one; one for objects
\* has keys, and what is staged belongs to one that is under way or died.
Sorted(r) ==
    /\ ReqAt(r, "unused") => req[r].target = Active
    /\ ~ReqAt(r, "unused") => req[r].dump \in Dumps
    /\ InDatabase(r) => req[r].target # Active
    /\ InBucket(r) => req[r].target = Active
    /\ req[r].promote => req[r].target # Active
    /\ req[r].target # Active => req[r].keys = {}
    /\ Own(r) # {} => InBucket(r) \/ ReqAt(r, "dead")

Requested == \A r \in Requests : Sorted(r)

\* Databases restored into different targets. The one a request is about to give
\* to the application is whole; when the application has none, a whole one is
\* there that no request will load into.
Spare(t) ==
    /\ db[t] \in Whole
    /\ \A r \in Requests :
         InDatabase(r) /\ req[r].target = t => req[r].pc \in {"drop", "rename"}

Separate ==
    /\ \A r, o \in Requests :
         InDatabase(r) /\ InDatabase(o) /\ req[r].target = req[o].target => r = o
    /\ \A r \in Requests : ReqAt(r, "load") => ~req[r].mixed
    /\ \A r \in Requests :
         req[r].pc \in {"drop", "rename"} => db[req[r].target] = req[r].dump
    /\ \/ db[Active] \in Whole
       \/ db[Active] = "gone" /\ \E t \in Targets : Spare(t)
    /\ \A r \in Requests :
         ReqAt(r, "done") /\ req[r].promote =>
            \/ db[Active] = req[r].dump
            \/ \E q \in Requests \ {r} : req[q].target # Active

\* The objects of a request: keys are its archive, and what it has copied is there
\* unless another objects restore has been asked for.
Copying(r) == IF ReqAt(r, "copy") THEN req[r].todo ELSE {}
HasArchive(r) ==
    \/ req[r].pc \in {"copy", "remove", "clean"}
    \/ ReqAt(r, "done") /\ req[r].target = Active
Gathered ==
    /\ \A r \in Requests :
         ReqAt(r, "stage") => req[r].keys \cup req[r].todo = Archive[req[r].dump]
    /\ \A r \in Requests : HasArchive(r) => req[r].keys = Archive[req[r].dump]

AnotherAsked(r) ==
    \E q \in Requests \ {r} : ~ReqAt(q, "unused") /\ req[q].target = Active
Copies ==
    \A r \in Requests :
        HasArchive(r) => req[r].keys \ Copying(r) \subseteq stored \/ AnotherAsked(r)

RestoreInv ==
    /\ RestoreTypeInv
    /\ Requested
    /\ ~bounds.shared => Separate
    /\ Gathered
    /\ Copies

\* Where no two of them overlap, an objects restore with replace_existing leaves
\* its keys and what was uploaded beside it, and nothing staged.
Exactly(r) ==
    /\ req[r].pc \in {"copy", "remove", "clean"} =>
         req[r].keys \ Copying(r) \subseteq stored
    /\ ReqAt(r, "remove") =>
         /\ stored \subseteq req[r].keys \cup req[r].todo \cup uploaded
         /\ staged \subseteq Own(r) \cup req[r].others
    /\ ReqAt(r, "clean") /\ req[r].replace =>
         /\ stored \subseteq req[r].keys \cup uploaded
         /\ staged \subseteq Own(r)
Exact == \A r \in Requests : Exactly(r)

\* Objects restores are made one after the other.
Apart == \A r, o \in Requests : InBucket(r) /\ InBucket(o) => r = o

-----------------------------------------------------------------------------
(* How requests change.                                                    *)

\* What a request was asked for stays.
Alike(o) ==
    /\ req'[o].dump = req[o].dump /\ req'[o].target = req[o].target
    /\ req'[o].promote = req[o].promote /\ req'[o].replace = req[o].replace
    /\ req'[o].keys = req[o].keys /\ req'[o].todo = req[o].todo
    /\ req'[o].others = req[o].others

Stages == Ended \cup DatabaseStages \cup ObjectStages

LEMMA GoRun ==
  ASSUME RestoreTypeInv, NEW r \in Requests, NEW pc \in Stages, Go(r, pc)
  PROVE  /\ req' \in [Requests -> RestoreRequest]
         /\ req'[r].pc = pc
         /\ \A o \in Requests : Alike(o) /\ req'[o].mixed = req[o].mixed
         /\ \A o \in Requests \ {r} : req'[o] = req[o]
  <1>1. req \in [Requests -> RestoreRequest]
    BY DEF RestoreTypeInv
  <1>2. PICK q : q = [req[r] EXCEPT !.pc = pc]
    OBVIOUS
  <1>3. /\ q \in RestoreRequest /\ q.pc = pc
        /\ q.dump = req[r].dump /\ q.target = req[r].target
        /\ q.promote = req[r].promote /\ q.replace = req[r].replace
        /\ q.keys = req[r].keys /\ q.todo = req[r].todo /\ q.others = req[r].others
        /\ q.mixed = req[r].mixed
    BY <1>1, <1>2 DEF RestoreRequest, Stages
  <1>4. req' = [req EXCEPT ![r] = q]
    BY <1>2 DEF Go, SetReq
  <1> QED
    BY <1>1, <1>3, <1>4 DEF Alike

LEMMA TerminateRun ==
  ASSUME RestoreTypeInv, NEW r \in Requests, NEW ts, NEW pc \in Stages,
         Terminate(r, ts, pc)
  PROVE  /\ req' \in [Requests -> RestoreRequest]
         /\ req'[r].pc = pc
         /\ \A o \in Requests : Alike(o) /\ req'[o].mixed = req[o].mixed
         /\ \A o \in Requests \ {r} : req'[o].pc = req[o].pc
  <1>1. req \in [Requests -> RestoreRequest]
    BY DEF RestoreTypeInv
  <1>2. ASSUME NEW o \in Requests
        PROVE  /\ req'[o] \in RestoreRequest /\ Alike(o) /\ req'[o].mixed = req[o].mixed
               /\ req'[o].pc = IF o = r THEN pc ELSE req[o].pc
    <2>1. CASE o = r
      <3>1. req'[o] = [req[r] EXCEPT !.pc = pc]
        BY <2>1 DEF Terminate
      <3> QED
        BY <1>1, <2>1, <3>1 DEF RestoreRequest, Stages, Alike
    <2>2. CASE o # r
      <3>1. PICK cut \in BOOLEAN : cut = (req[o].cut \/ o \in Loading(r, ts))
        OBVIOUS
      <3>2. req'[o] = [req[o] EXCEPT !.cut = cut]
        BY <2>2, <3>1 DEF Terminate
      <3> QED
        BY <1>1, <2>2, <3>2 DEF RestoreRequest, Alike
    <2> QED
      BY <2>1, <2>2
  <1>3. req' \in [Requests -> RestoreRequest]
    <2>1. req' = [o \in Requests |-> req'[o]]
      BY DEF Terminate
    <2> QED
      BY <1>2, <2>1
  <1> QED
    BY <1>2, <1>3

\* The bounds of what may still happen, and what never changes of them.
LEMMA UseRun ==
  ASSUME RestoreTypeInv, NEW kind \in {"databases", "buckets", "fails"}, Use(kind)
  PROVE  /\ bounds' \in RestoreSetting
         /\ bounds'.shared = bounds.shared
  <1>1. PICK left : left = bounds[kind] - 1
    OBVIOUS
  <1>2. bounds' = [bounds EXCEPT ![kind] = left] /\ bounds[kind] > 0
    BY <1>1 DEF Use
  <1>3. left \in Nat
    BY <1>1, <1>2 DEF RestoreTypeInv, RestoreSetting
  <1> QED
    BY <1>2, <1>3 DEF RestoreTypeInv, RestoreSetting

-----------------------------------------------------------------------------
(* Steps of a database restore.                                            *)

LEMMA RestoreInitially == RestoreInit => RestoreInv /\ Exact
  <1> SUFFICES ASSUME RestoreInit PROVE RestoreInv /\ Exact
    OBVIOUS
  <1>1. \A r \in Requests : req[r] = Unused
    BY DEF RestoreInit
  <1>2. /\ Unused.pc = "unused" /\ Unused.target = Active /\ Unused.promote = FALSE
        /\ Unused.keys = {} /\ Unused \in RestoreRequest
    BY NamesAssumption DEF Unused, RestoreRequest, Ended, Whole
  <1>3. RestoreTypeInv
    BY <1>2, ObjectsAssumption, RestoreSettingsAssumption
    DEF RestoreInit, RestoreTypeInv, Whole
  <1>4. \A r \in Requests :
          /\ req[r].pc = "unused" /\ req[r].target = Active
          /\ ~req[r].promote /\ req[r].keys = {} /\ Own(r) = {}
    BY <1>1, <1>2 DEF Own, RestoreInit
  <1>5. Requested
    BY <1>4 DEF Requested, Sorted, ReqAt, InDatabase, InBucket, DatabaseStages, ObjectStages
  <1>6. Separate
    <2>1. db[Active] \in Whole
      BY NamesAssumption DEF RestoreInit, Whole
    <2> QED
      BY <1>4, <2>1 DEF Separate, ReqAt, InDatabase, DatabaseStages
  <1>7. Gathered /\ Copies
    BY <1>4 DEF Gathered, Copies, HasArchive, ReqAt
  <1>8. Exact
    BY <1>4 DEF Exact, Exactly, ReqAt
  <1> QED
    BY <1>3, <1>5, <1>6, <1>7, <1>8 DEF RestoreInv

\* A database request goes on, ends or dies: everything but the databases.
LEMMA DatabaseMove ==
  ASSUME RestoreInv, NEW r \in Requests, InDatabase(r), UNCHANGED bucket,
         bounds' \in RestoreSetting, bounds'.shared = bounds.shared,
         db' \in [Targets -> Whole \cup {"gone", "partial"}],
         req' \in [Requests -> RestoreRequest], \A o \in Requests : Alike(o),
         \A o \in Requests \ {r} : req'[o].pc = req[o].pc,
         req'[r].pc \in DatabaseStages \cup {"done", "failed", "dead"}
  PROVE  /\ RestoreTypeInv' /\ Requested' /\ Gathered' /\ Copies'
         /\ Exact => Exact'
  <1>1. RestoreTypeInv'
    BY DEF RestoreInv, RestoreTypeInv, bucket
  <1>2. \A o \in Requests : Own(o)' = Own(o)
    BY DEF Own, bucket
  <1>3. req[r].target # Active /\ ~ReqAt(r, "unused") /\ ~InBucket(r)
    BY DEF RestoreInv, Requested, Sorted, InDatabase, InBucket, ReqAt, DatabaseStages,
       ObjectStages
  <1>4. ASSUME NEW o \in Requests PROVE Sorted(o)'
    <2>1. Sorted(o)
      BY DEF RestoreInv, Requested
    <2>2. CASE o = r
      BY <1>2, <1>3, <2>1, <2>2 DEF Sorted, Alike, ReqAt, InDatabase, InBucket,
         DatabaseStages, ObjectStages
    <2>3. CASE o # r
      BY <1>2, <2>1, <2>3 DEF Sorted, Alike, ReqAt, InDatabase, InBucket
    <2> QED
      BY <2>2, <2>3
  <1>5. \A o \in Requests :
          /\ HasArchive(o)' => HasArchive(o) /\ o # r
          /\ ReqAt(o, "stage")' => ReqAt(o, "stage")
          /\ HasArchive(o)' => Copying(o)' = Copying(o)
    BY <1>3 DEF HasArchive, ReqAt, Copying, Alike, DatabaseStages
  <1>6. \A o \in Requests : AnotherAsked(o) => AnotherAsked(o)'
    BY <1>3 DEF AnotherAsked, ReqAt, Alike
  <1>7. Gathered'
    BY <1>5 DEF RestoreInv, Gathered, Alike
  <1>8. Copies'
    BY <1>5, <1>6 DEF RestoreInv, Copies, Alike, bucket
  <1>9. ASSUME Exact, NEW o \in Requests PROVE Exactly(o)'
    <2>1. CASE o = r
      BY <1>3, <2>1 DEF Exactly, ReqAt, DatabaseStages
    <2>2. CASE o # r
      BY <1>2, <1>9, <2>2 DEF Exact, Exactly, ReqAt, Copying, Alike, bucket
    <2> QED
      BY <2>1, <2>2
  <1> QED
    BY <1>1, <1>4, <1>7, <1>8, <1>9 DEF Requested, Exact

\* It works on its target, which nobody else uses.
LEMMA TargetStep ==
  ASSUME RestoreTypeInv, Requested, Separate, NEW r \in Requests,
         req[r].pc \in {"prepare", "connect", "load", "cleanup"},
         \A t \in Targets : t # req[r].target => db'[t] = db[t],
         \A o \in Requests : Alike(o),
         \A o \in Requests \ {r} : req'[o].pc = req[o].pc,
         \A o \in Requests : ReqAt(o, "load")' => ~req'[o].mixed,
         req'[r].pc \in DatabaseStages \cup {"done", "failed", "dead"},
         req'[r].pc \in {"drop", "rename"} => db'[req[r].target] = req[r].dump,
         req'[r].pc = "done" => ~req[r].promote
  PROVE  Separate'
  <1>1. InDatabase(r) /\ req[r].target # Active /\ req[r].target \in Targets
    BY DEF InDatabase, DatabaseStages, Requested, Sorted, RestoreTypeInv, RestoreRequest
  <1>2. db'[Active] = db[Active]
    BY <1>1, NamesAssumption
  <1>3. \A o \in Requests : InDatabase(o)' => InDatabase(o)
    BY <1>1 DEF InDatabase
  <1>4. \A o \in Requests : o # r /\ InDatabase(o) => req[o].target # req[r].target
    BY <1>1 DEF Separate
  <1>5. \A o \in Requests :
          req'[o].pc \in {"drop", "rename"} => db'[req'[o].target] = req'[o].dump
    <2> TAKE o \in Requests
    <2> HAVE req'[o].pc \in {"drop", "rename"}
    <2>1. CASE o = r
      BY <2>1 DEF Alike
    <2>2. CASE o # r
      <3>1. req[o].pc \in {"drop", "rename"} /\ InDatabase(o)
        BY <2>2 DEF InDatabase, DatabaseStages
      <3>2. req[o].target \in Targets /\ req[o].target # req[r].target
        BY <1>4, <2>2, <3>1 DEF RestoreTypeInv, RestoreRequest
      <3> QED
        BY <3>1, <3>2 DEF Separate, Alike
    <2> QED
      BY <2>1, <2>2
  <1>6. ASSUME NEW t \in Targets, Spare(t) PROVE Spare(t)'
    <2>1. req[r].target # t
      BY <1>1, <1>6 DEF Spare
    <2> QED
      BY <1>6, <2>1 DEF Spare, InDatabase, Alike
  <1>7. \/ db'[Active] \in Whole
        \/ db'[Active] = "gone" /\ \E t \in Targets : Spare(t)'
    BY <1>2, <1>6 DEF Separate
  <1>8. \A o \in Requests :
          ReqAt(o, "done")' /\ req'[o].promote =>
             \/ db'[Active] = req'[o].dump
             \/ \E q \in Requests \ {o} : req'[q].target # Active
    BY <1>2 DEF Separate, ReqAt, Alike
  <1>9. \A p, o \in Requests :
          InDatabase(p)' /\ InDatabase(o)' /\ req'[p].target = req'[o].target => p = o
    BY <1>3 DEF Separate, Alike
  <1> QED
    BY <1>5, <1>7, <1>8, <1>9 DEF Separate

\* Nothing happens to the databases, and no request takes up one.
LEMMA QuietStep ==
  ASSUME Separate, UNCHANGED db,
         \A o \in Requests : InDatabase(o)' =>
            /\ req'[o].pc = req[o].pc
            /\ req'[o].dump = req[o].dump /\ req'[o].mixed = req[o].mixed,
         \A o \in Requests :
            req'[o].target = req[o].target /\ req'[o].promote = req[o].promote,
         \A o \in Requests : ReqAt(o, "done")' /\ req[o].promote =>
            ReqAt(o, "done") /\ req'[o].dump = req[o].dump
  PROVE  Separate'
  <1>1. \A o \in Requests : InDatabase(o)' => InDatabase(o)
    BY DEF InDatabase
  <1>2. \A o \in Requests : ReqAt(o, "load")' => ReqAt(o, "load") /\ ~req'[o].mixed
    BY DEF ReqAt, InDatabase, DatabaseStages, Separate
  <1>3. \A o \in Requests :
          req'[o].pc \in {"drop", "rename"} => db'[req'[o].target] = req'[o].dump
    BY DEF InDatabase, DatabaseStages, Separate
  <1>4. \A t \in Targets : Spare(t) => Spare(t)'
    BY <1>1 DEF Spare
  <1>5. \A o \in Requests :
          ReqAt(o, "done")' /\ req'[o].promote =>
             \/ db'[Active] = req'[o].dump
             \/ \E q \in Requests \ {o} : req'[q].target # Active
    BY DEF Separate
  <1> QED
    BY <1>1, <1>2, <1>3, <1>4, <1>5 DEF Separate

\* Apart, no two connections load into one database.
LEMMA NobodyElse ==
  ASSUME Separate, NEW r \in Requests, InDatabase(r)
  PROVE  Loading(r, {req[r].target}) = {}
  BY DEF Separate, InDatabase, DatabaseStages, Loading, ReqAt

LEMMA AskDatabaseStep ==
  ASSUME RestoreInv, NEW r \in Requests, NEW d \in Dumps, NEW t \in Targets,
         NEW promote \in BOOLEAN, AskDatabase(r, d, t, promote)
  PROVE  RestoreInv' /\ (Exact => Exact')
  <1>1. PICK q : q = [Unused EXCEPT !.pc = "prepare", !.dump = d, !.target = t,
                                    !.promote = promote]
    OBVIOUS
  <1>2. /\ q \in RestoreRequest /\ q.pc = "prepare" /\ q.dump = d /\ q.target = t
        /\ q.keys = {}
    BY <1>1 DEF Unused, RestoreRequest, DatabaseStages, Whole
  <1>3. /\ SetReq(r, q) /\ UNCHANGED <<db, bucket>> /\ t # Active
        /\ ReqAt(r, "unused") /\ db[Active] # "gone" /\ Use("databases")
        /\ bounds.shared \/ \A o \in Requests : UnderWay(o) => req[o].target # t
    BY <1>1 DEF AskDatabase, Free, Allowed
  <1>4. RestoreTypeInv /\ Requested
    BY DEF RestoreInv
  <1>5. /\ req' \in [Requests -> RestoreRequest] /\ req'[r] = q
        /\ \A o \in Requests \ {r} : req'[o] = req[o]
    BY <1>2, <1>3, <1>4 DEF SetReq, RestoreTypeInv
  <1>6. bounds' \in RestoreSetting /\ bounds'.shared = bounds.shared
    BY <1>3, <1>4, UseRun
  <1>7. \A o \in Requests : Own(o)' = Own(o)
    BY <1>3 DEF Own, bucket
  <1>8. RestoreTypeInv'
    BY <1>3, <1>4, <1>5, <1>6 DEF RestoreTypeInv, bucket
  <1>9. ASSUME NEW o \in Requests PROVE Sorted(o)'
    <2>1. Sorted(o)
      BY <1>4 DEF Requested
    <2>2. CASE o = r
      BY <1>2, <1>3, <1>5, <1>7, <2>1, <2>2
      DEF Sorted, ReqAt, InDatabase, InBucket, DatabaseStages, ObjectStages
    <2>3. CASE o # r
      BY <1>5, <1>7, <2>1, <2>3 DEF Sorted, ReqAt, InDatabase, InBucket
    <2> QED
      BY <2>2, <2>3
  <1>10. \A o \in Requests :
           /\ HasArchive(o)' => HasArchive(o) /\ o # r
           /\ ReqAt(o, "stage")' => ReqAt(o, "stage") /\ o # r
    BY <1>2, <1>5 DEF HasArchive, ReqAt
  <1>11. Gathered'
    BY <1>5, <1>10 DEF RestoreInv, Gathered
  <1>12. \A o \in Requests : AnotherAsked(o) => AnotherAsked(o)'
    BY <1>3, <1>5 DEF AnotherAsked, ReqAt
  <1>13. Copies'
    BY <1>3, <1>5, <1>10, <1>12 DEF RestoreInv, Copies, Copying, ReqAt, bucket
  <1>14. ASSUME ~bounds.shared PROVE Separate'
    <2>1. Separate
      BY <1>14 DEF RestoreInv
    <2>2. db'[Active] \in Whole
      BY <1>3, <2>1 DEF Separate
    <2>3. \A o \in Requests \ {r} : InDatabase(o) => req[o].target # t
      BY <1>3, <1>14 DEF InDatabase, UnderWay, DatabaseStages, Ended
    <2>4. \A p, o \in Requests :
            InDatabase(p)' /\ InDatabase(o)' /\ req'[p].target = req'[o].target => p = o
      BY <1>2, <1>5, <2>1, <2>3 DEF Separate, InDatabase
    <2>5. \A o \in Requests :
            /\ ReqAt(o, "load")' => ~req'[o].mixed
            /\ req'[o].pc \in {"drop", "rename"} => db'[req'[o].target] = req'[o].dump
      BY <1>2, <1>3, <1>5, <2>1 DEF Separate, ReqAt
    <2>6. ASSUME NEW o \in Requests, ReqAt(o, "done")', req'[o].promote
          PROVE  \/ db'[Active] = req'[o].dump
                 \/ \E p \in Requests \ {o} : req'[p].target # Active
      <3>1. o # r /\ ReqAt(o, "done") /\ req[o].promote /\ req'[o] = req[o]
        BY <1>2, <1>5, <2>6 DEF ReqAt
      <3> QED
        BY <1>2, <1>3, <1>5, <3>1
    <2> QED
      BY <2>2, <2>4, <2>5, <2>6 DEF Separate
  <1>15. ASSUME Exact, NEW o \in Requests PROVE Exactly(o)'
    <2>1. CASE o = r
      BY <1>2, <1>5, <2>1 DEF Exactly, ReqAt
    <2>2. CASE o # r
      BY <1>3, <1>5, <1>7, <1>15, <2>2 DEF Exact, Exactly, ReqAt, Copying, bucket
    <2> QED
      BY <2>1, <2>2
  <1> QED
    BY <1>6, <1>8, <1>9, <1>11, <1>13, <1>14, <1>15 DEF RestoreInv, Requested, Exact

LEMMA PrepareStep ==
  ASSUME RestoreInv, NEW r \in Requests, Prepare(r) \/ PrepareFails(r)
  PROVE  RestoreInv' /\ (Exact => Exact')
  <1>1. RestoreTypeInv /\ Requested
    BY DEF RestoreInv
  <1>2. PICK t \in Targets : t = req[r].target
    BY <1>1 DEF RestoreTypeInv, RestoreRequest
  <1>3. PICK pc \in {"connect", "failed"} : Terminate(r, {t}, pc)
    BY <1>2 DEF Prepare, PrepareFails
  <1>4. /\ req[r].pc = "prepare" /\ InDatabase(r) /\ UNCHANGED bucket
        /\ \E left \in {db[t], "gone", "partial"} : db' = [db EXCEPT ![t] = left]
    BY <1>2 DEF Prepare, PrepareFails, ReqAt, InDatabase, DatabaseStages
  <1>5. /\ db' \in [Targets -> Whole \cup {"gone", "partial"}]
        /\ \A o \in Targets : o # t => db'[o] = db[o]
    BY <1>1, <1>4 DEF RestoreTypeInv
  <1>6. bounds' \in RestoreSetting /\ bounds'.shared = bounds.shared
    BY <1>1, UseRun DEF Prepare, PrepareFails, RestoreTypeInv
  <1>7. /\ req' \in [Requests -> RestoreRequest] /\ req'[r].pc = pc
        /\ \A o \in Requests : Alike(o) /\ req'[o].mixed = req[o].mixed
        /\ \A o \in Requests \ {r} : req'[o].pc = req[o].pc
    <2>1. pc \in Stages
      BY DEF Stages, Ended, DatabaseStages
    <2> QED
      BY <1>1, <1>3, <2>1, TerminateRun
  <1>8. req'[r].pc \in DatabaseStages \cup {"done", "failed", "dead"}
    BY <1>7 DEF DatabaseStages
  <1>9. /\ RestoreTypeInv' /\ Requested' /\ Gathered' /\ Copies'
        /\ Exact => Exact'
    BY <1>4, <1>5, <1>6, <1>7, <1>8, DatabaseMove
  <1>10. ASSUME ~bounds.shared PROVE Separate'
    <2>1. Separate
      BY <1>10 DEF RestoreInv
    <2>2. \A o \in Requests : ReqAt(o, "load")' => ~req'[o].mixed
      BY <1>7, <2>1 DEF ReqAt, Separate
    <2> QED
      BY <1>1, <1>2, <1>4, <1>5, <1>7, <1>8, <2>1, <2>2, TargetStep
  <1> QED
    BY <1>6, <1>9, <1>10 DEF RestoreInv

LEMMA ConnectStep ==
  ASSUME RestoreInv, NEW r \in Requests, Connect(r)
  PROVE  RestoreInv' /\ (Exact => Exact')
  <1>1. RestoreTypeInv /\ Requested /\ req \in [Requests -> RestoreRequest]
    BY DEF RestoreInv, RestoreTypeInv
  <1>2. PICK t \in Targets : t = req[r].target
    BY <1>1 DEF RestoreRequest
  <1>3. PICK others : others = Loading(r, {t})
    OBVIOUS
  <1>4. /\ req[r].pc = "connect" /\ InDatabase(r) /\ UNCHANGED <<bucket, bounds>>
        /\ db' = [db EXCEPT ![t] = "partial"]
        /\ req' = [o \in Requests |->
              IF o = r THEN [req[r] EXCEPT !.pc = "load", !.mixed = others # {}]
              ELSE [req[o] EXCEPT !.mixed = @ \/ o \in others]]
    BY <1>2, <1>3 DEF Connect, ReqAt, InDatabase, DatabaseStages
  <1>5. /\ db' \in [Targets -> Whole \cup {"gone", "partial"}]
        /\ \A o \in Targets : o # t => db'[o] = db[o]
    BY <1>1, <1>4 DEF RestoreTypeInv
  <1>6. ASSUME NEW o \in Requests
        PROVE  /\ req'[o] \in RestoreRequest /\ Alike(o)
               /\ req'[o].pc = IF o = r THEN "load" ELSE req[o].pc
               /\ others = {} => req'[o].mixed = IF o = r THEN FALSE ELSE req[o].mixed
    <2>1. CASE o = r
      <3>1. PICK mixed \in BOOLEAN : mixed = (others # {})
        OBVIOUS
      <3>2. req'[o] = [req[r] EXCEPT !.pc = "load", !.mixed = mixed]
        BY <1>4, <2>1, <3>1
      <3> QED
        BY ZenonT(60), <1>1, <2>1, <3>1, <3>2 DEF RestoreRequest, DatabaseStages, Alike
    <2>2. CASE o # r
      <3>1. PICK mixed \in BOOLEAN : mixed = (req[o].mixed \/ o \in others)
        OBVIOUS
      <3>2. req'[o] = [req[o] EXCEPT !.mixed = mixed]
        BY <1>4, <2>2, <3>1
      <3>3. /\ req'[o] \in RestoreRequest /\ Alike(o) /\ req'[o].pc = req[o].pc
            /\ req'[o].mixed = mixed
        BY <1>1, <3>2 DEF RestoreRequest, Alike
      <3>4. req[o].mixed \in BOOLEAN
        BY <1>1 DEF RestoreRequest
      <3>5. others = {} => mixed = req[o].mixed
        BY <3>1, <3>4
      <3> QED
        BY <2>2, <3>3, <3>5
    <2> QED
      BY <2>1, <2>2
  <1>7. req' \in [Requests -> RestoreRequest]
    <2>1. req' = [o \in Requests |-> req'[o]]
      BY <1>4
    <2> QED
      BY <1>6, <2>1
  <1>8. /\ bounds' \in RestoreSetting /\ bounds'.shared = bounds.shared
        /\ UNCHANGED bucket
    BY <1>1, <1>4 DEF RestoreTypeInv
  <1>9. /\ req'[r].pc = "load" /\ req'[r].pc \in DatabaseStages \cup {"done", "failed", "dead"}
        /\ \A o \in Requests : Alike(o)
        /\ \A o \in Requests \ {r} : req'[o].pc = req[o].pc
    BY <1>6 DEF DatabaseStages
  <1>10. /\ RestoreTypeInv' /\ Requested' /\ Gathered' /\ Copies'
         /\ Exact => Exact'
    BY <1>4, <1>5, <1>7, <1>8, <1>9, DatabaseMove
  <1>11. ASSUME ~bounds.shared PROVE Separate'
    <2>1. Separate
      BY <1>11 DEF RestoreInv
    <2>2. others = {}
      BY <1>2, <1>3, <1>4, <2>1, NobodyElse
    <2>3. \A o \in Requests : ReqAt(o, "load")' => ~req'[o].mixed
      BY <1>6, <2>1, <2>2 DEF ReqAt, Separate
    <2> QED
      BY <1>1, <1>2, <1>4, <1>5, <1>9, <2>1, <2>3, TargetStep
  <1> QED
    BY <1>8, <1>10, <1>11 DEF RestoreInv

\* A load ends, or fails; the target is dropped after a failure.
LEMMA LoadStep ==
  ASSUME RestoreInv, NEW r \in Requests,
         ConnectFails(r) \/ Loaded(r) \/ LoadFails(r) \/ Cleanup(r)
  PROVE  RestoreInv' /\ (Exact => Exact')
  <1>1. RestoreTypeInv /\ Requested /\ req \in [Requests -> RestoreRequest]
    BY DEF RestoreInv, RestoreTypeInv
  <1>2. PICK t \in Targets, d \in Dumps, promote \in BOOLEAN :
          t = req[r].target /\ d = req[r].dump /\ promote = req[r].promote
    <2>1. ~ReqAt(r, "unused")
      BY DEF ConnectFails, Loaded, LoadFails, Cleanup, ReqAt
    <2>2. req[r].target \in Targets /\ req[r].dump \in Dumps /\ req[r].promote \in BOOLEAN
      BY <1>1, <2>1 DEF RestoreRequest, Requested, Sorted
    <2> QED
      BY <2>2
  <1>3. /\ req[r].pc \in {"connect", "load", "cleanup"} /\ InDatabase(r)
        /\ UNCHANGED bucket
    BY DEF ConnectFails, Loaded, LoadFails, Cleanup, ReqAt, InDatabase, DatabaseStages
  <1>4. /\ bounds' \in RestoreSetting /\ bounds'.shared = bounds.shared
    BY <1>1, UseRun DEF ConnectFails, Loaded, LoadFails, Cleanup, RestoreTypeInv
  <1>5. PICK left \in Whole \cup {"gone", "partial"} : db' = [db EXCEPT ![t] = left]
    <2>1. /\ db \in [Targets -> Whole \cup {"gone", "partial"}] /\ d \in Whole
          /\ db[t] \in Whole \cup {"gone", "partial"}
      BY <1>1 DEF RestoreTypeInv, Whole
    <2>2. CASE UNCHANGED db
      <3>1. db' = [db EXCEPT ![t] = db[t]]
        BY <2>1, <2>2
      <3> QED
        BY <2>1, <3>1
    <2>3. CASE Loaded(r)
      BY <1>2, <2>1, <2>3 DEF Loaded
    <2>4. CASE Cleanup(r) /\ db' # db
      BY <1>2, <2>4 DEF Cleanup
    <2> QED
      BY <2>2, <2>3, <2>4 DEF ConnectFails, LoadFails
  <1>6. /\ db' \in [Targets -> Whole \cup {"gone", "partial"}]
        /\ \A o \in Targets : o # t => db'[o] = db[o]
    BY <1>1, <1>5 DEF RestoreTypeInv
  <1>7. PICK pc \in {"cleanup", "drop", "done", "failed"} :
          /\ Go(r, pc) \/ Terminate(r, {t}, pc)
          /\ pc = "drop" => Loaded(r)
          /\ pc = "done" => ~promote
    BY <1>2 DEF ConnectFails, Loaded, LoadFails, Cleanup
  <1>8. /\ req' \in [Requests -> RestoreRequest] /\ req'[r].pc = pc
        /\ \A o \in Requests : Alike(o) /\ req'[o].mixed = req[o].mixed
        /\ \A o \in Requests \ {r} : req'[o].pc = req[o].pc
    <2>1. pc \in Stages
      BY DEF Stages, Ended, DatabaseStages
    <2> QED
      BY <1>1, <1>7, <2>1, GoRun, TerminateRun
  <1>9. req'[r].pc \in DatabaseStages \cup {"done", "failed", "dead"}
    BY <1>8 DEF DatabaseStages
  <1>10. /\ RestoreTypeInv' /\ Requested' /\ Gathered' /\ Copies'
         /\ Exact => Exact'
    BY <1>3, <1>4, <1>6, <1>8, <1>9, DatabaseMove
  <1>11. ASSUME ~bounds.shared PROVE Separate'
    <2>1. Separate
      BY <1>11 DEF RestoreInv
    <2>2. pc # "load" => \A o \in Requests : ReqAt(o, "load")' => ~req'[o].mixed
      BY <1>8, <2>1 DEF ReqAt, Separate
    <2>3. ASSUME Loaded(r) PROVE db'[t] = d
      <3>1. ~req[r].mixed
        BY <2>1, <2>3 DEF Separate, Loaded
      <3>2. db' = [db EXCEPT ![t] = d]
        BY <1>2, <2>3, <3>1 DEF Loaded
      <3> QED
        BY <1>1, <3>2 DEF RestoreTypeInv
    <2>4. req'[r].pc \in {"drop", "rename"} => db'[t] = d
      BY <1>7, <1>8, <2>3
    <2>5. req'[r].pc = "done" => ~req[r].promote
      BY <1>2, <1>7, <1>8
    <2> QED
      BY <1>1, <1>2, <1>3, <1>6, <1>8, <1>9, <2>1, <2>2, <2>4, <2>5, TargetStep
  <1> QED
    BY <1>4, <1>10, <1>11 DEF RestoreInv

LEMMA DropActiveStep ==
  ASSUME RestoreInv, NEW r \in Requests, DropActive(r)
  PROVE  RestoreInv' /\ (Exact => Exact')
  <1>1. RestoreTypeInv /\ Requested /\ req \in [Requests -> RestoreRequest]
    BY DEF RestoreInv, RestoreTypeInv
  <1>2. PICK t \in Targets : t = req[r].target
    BY <1>1 DEF RestoreRequest
  <1>3. /\ req[r].pc = "drop" /\ InDatabase(r) /\ UNCHANGED <<bucket, bounds>>
        /\ db' = [db EXCEPT ![Active] = "gone"]
        /\ Terminate(r, {Active, t}, "rename")
    BY <1>2 DEF DropActive, ReqAt, InDatabase, DatabaseStages
  <1>4. /\ db' \in [Targets -> Whole \cup {"gone", "partial"}] /\ db'[Active] = "gone"
        /\ \A o \in Targets : o # Active => db'[o] = db[o]
    BY <1>1, <1>3, NamesAssumption DEF RestoreTypeInv
  <1>5. /\ req' \in [Requests -> RestoreRequest] /\ req'[r].pc = "rename"
        /\ \A o \in Requests : Alike(o) /\ req'[o].mixed = req[o].mixed
        /\ \A o \in Requests \ {r} : req'[o].pc = req[o].pc
    <2>1. "rename" \in Stages
      BY DEF Stages, DatabaseStages
    <2> QED
      BY <1>1, <1>3, <2>1, TerminateRun
  <1>6. req'[r].pc \in DatabaseStages \cup {"done", "failed", "dead"}
    BY <1>5 DEF DatabaseStages
  <1>7. bounds' \in RestoreSetting /\ bounds'.shared = bounds.shared /\ UNCHANGED bucket
    BY <1>1, <1>3 DEF RestoreTypeInv
  <1>8. /\ RestoreTypeInv' /\ Requested' /\ Gathered' /\ Copies'
        /\ Exact => Exact'
    BY <1>3, <1>4, <1>5, <1>6, <1>7, DatabaseMove
  <1>9. ASSUME ~bounds.shared PROVE Separate'
    <2>1. Separate
      BY <1>9 DEF RestoreInv
    <2>2. t # Active /\ db[t] = req[r].dump /\ req[r].dump \in Whole
      BY <1>1, <1>2, <1>3, <2>1
      DEF Separate, Requested, Sorted, InDatabase, ReqAt, Whole
    <2>3. \A o \in Requests : InDatabase(o)' =>
            /\ InDatabase(o) /\ req[o].target # Active
            /\ req[o].target \in Targets
      BY <1>1, <1>3, <1>5 DEF InDatabase, Requested, Sorted, RestoreRequest
    <2>4. \A o \in Requests :
            /\ ReqAt(o, "load")' => ~req'[o].mixed
            /\ req'[o].pc \in {"drop", "rename"} =>
                 /\ InDatabase(o)' /\ req[o].pc \in {"drop", "rename"}
                 /\ db'[req'[o].target] = req'[o].dump
      <3> TAKE o \in Requests
      <3>1. ReqAt(o, "load")' => ~req'[o].mixed
        BY <1>5, <2>1 DEF Separate, ReqAt
      <3>2. ASSUME req'[o].pc \in {"drop", "rename"}
            PROVE  /\ InDatabase(o)' /\ req[o].pc \in {"drop", "rename"}
                   /\ db'[req'[o].target] = req'[o].dump
        <4>1. InDatabase(o)' /\ req[o].pc \in {"drop", "rename"}
          BY <1>3, <1>5, <3>2 DEF InDatabase, DatabaseStages
        <4> QED
          BY <1>4, <1>5, <2>1, <2>3, <4>1 DEF Separate, Alike
      <3> QED
        BY <3>1, <3>2
    <2>5. Spare(t)'
      <3>1. db'[t] \in Whole
        BY <1>4, <2>2
      <3>2. \A o \in Requests : InDatabase(o)' /\ req'[o].target = t => o = r
        BY <1>2, <1>3, <1>5, <2>1, <2>3 DEF Separate, Alike
      <3> QED
        BY <1>5, <3>1, <3>2 DEF Spare
    <2>6. \A p, o \in Requests :
            InDatabase(p)' /\ InDatabase(o)' /\ req'[p].target = req'[o].target => p = o
      BY <1>5, <2>1, <2>3 DEF Separate, Alike
    <2>7. ASSUME NEW o \in Requests, ReqAt(o, "done")'
          PROVE  \E p \in Requests \ {o} : req'[p].target # Active
      <3>1. o # r
        BY <1>5, <2>7 DEF ReqAt
      <3> QED
        BY <1>2, <1>5, <2>2, <3>1 DEF Alike
    <2> QED
      BY <1>4, <2>4, <2>5, <2>6, <2>7 DEF Separate
  <1> QED
    BY <1>7, <1>8, <1>9 DEF RestoreInv

LEMMA DropRefusedStep ==
  ASSUME RestoreInv, NEW r \in Requests, DropRefused(r)
  PROVE  RestoreInv' /\ (Exact => Exact')
  <1>1. RestoreTypeInv
    BY DEF RestoreInv
  <1>2. PICK ts : Terminate(r, ts, "failed")
    BY DEF DropRefused
  <1>3. /\ req' \in [Requests -> RestoreRequest] /\ req'[r].pc = "failed"
        /\ \A o \in Requests : Alike(o) /\ req'[o].mixed = req[o].mixed
        /\ \A o \in Requests \ {r} : req'[o].pc = req[o].pc
    <2>1. "failed" \in Stages
      BY DEF Stages, Ended
    <2> QED
      BY <1>1, <1>2, <2>1, TerminateRun
  <1>4. /\ InDatabase(r) /\ UNCHANGED <<db, bucket>>
        /\ bounds' \in RestoreSetting /\ bounds'.shared = bounds.shared
        /\ db' \in [Targets -> Whole \cup {"gone", "partial"}]
    BY <1>1, UseRun DEF DropRefused, ReqAt, InDatabase, DatabaseStages, RestoreTypeInv
  <1>5. /\ RestoreTypeInv' /\ Requested' /\ Gathered' /\ Copies'
        /\ Exact => Exact'
    BY <1>3, <1>4, DatabaseMove
  <1>6. ASSUME ~bounds.shared PROVE Separate'
    <2>1. Separate
      BY <1>6 DEF RestoreInv
    <2>2. \A o \in Requests : InDatabase(o)' => o # r
      BY <1>3 DEF InDatabase, DatabaseStages
    <2>3. \A o \in Requests : ReqAt(o, "done")' => ReqAt(o, "done")
      BY <1>3 DEF ReqAt
    <2> QED
      BY <1>3, <1>4, <2>1, <2>2, <2>3, QuietStep DEF Alike
  <1> QED
    BY <1>4, <1>5, <1>6 DEF RestoreInv

LEMMA RenameStep ==
  ASSUME RestoreInv, NEW r \in Requests, Rename(r)
  PROVE  RestoreInv' /\ (Exact => Exact')
  <1>1. RestoreTypeInv /\ Requested /\ req \in [Requests -> RestoreRequest]
    BY DEF RestoreInv, RestoreTypeInv
  <1>2. PICK t \in Targets : t = req[r].target
    BY <1>1 DEF RestoreRequest
  <1>3. /\ req[r].pc = "rename" /\ InDatabase(r) /\ UNCHANGED <<bucket, bounds>>
        /\ \/ /\ db' = [db EXCEPT ![Active] = db[t], ![t] = "gone"]
              /\ Go(r, "done")
           \/ UNCHANGED db /\ Go(r, "failed")
    BY <1>2 DEF Rename, ReqAt, InDatabase, DatabaseStages
  <1>4. t # Active
    BY <1>1, <1>2, <1>3 DEF Requested, Sorted
  <1>5. PICK pc \in {"done", "failed"} : Go(r, pc) /\ (pc = "failed" => UNCHANGED db) /\
          (pc = "done" => db' = [db EXCEPT ![Active] = db[t], ![t] = "gone"])
    BY <1>3
  <1>6. /\ db' \in [Targets -> Whole \cup {"gone", "partial"}]
        /\ pc = "done" => /\ db'[Active] = db[t]
                         /\ \A o \in Targets \ {t, Active} : db'[o] = db[o]
    BY <1>1, <1>4, <1>5, NamesAssumption DEF RestoreTypeInv
  <1>7. /\ req' \in [Requests -> RestoreRequest] /\ req'[r].pc = pc
        /\ \A o \in Requests : Alike(o) /\ req'[o].mixed = req[o].mixed
        /\ \A o \in Requests \ {r} : req'[o].pc = req[o].pc
    <2>1. pc \in Stages
      BY DEF Stages, Ended
    <2> QED
      BY <1>1, <1>5, <2>1, GoRun
  <1>8. req'[r].pc \in DatabaseStages \cup {"done", "failed", "dead"}
    BY <1>7
  <1>9. bounds' \in RestoreSetting /\ bounds'.shared = bounds.shared /\ UNCHANGED bucket
    BY <1>1, <1>3 DEF RestoreTypeInv
  <1>10. /\ RestoreTypeInv' /\ Requested' /\ Gathered' /\ Copies'
         /\ Exact => Exact'
    BY <1>3, <1>6, <1>7, <1>8, <1>9, DatabaseMove
  <1>11. ASSUME ~bounds.shared PROVE Separate'
    <2>1. Separate
      BY <1>11 DEF RestoreInv
    <2>2. \A o \in Requests : InDatabase(o)' => o # r /\ InDatabase(o)
      BY <1>7 DEF InDatabase, DatabaseStages
    <2>3. CASE pc = "failed"
      <3>1. \A o \in Requests : ReqAt(o, "done")' => ReqAt(o, "done")
        BY <1>7, <2>3 DEF ReqAt
      <3>2. UNCHANGED db
        BY <1>5, <2>3
      <3> QED
        BY <1>7, <2>1, <2>2, <3>1, <3>2, QuietStep DEF Alike
    <2>4. CASE pc = "done"
      <3>1. db[t] = req[r].dump /\ req[r].dump \in Whole
        BY <1>1, <1>2, <1>3, <2>1 DEF Separate, Requested, Sorted, ReqAt, Whole
      <3>2. db'[Active] = req[r].dump /\ db'[Active] \in Whole
        BY <1>6, <2>4, <3>1
      <3>3. \A o \in Requests : InDatabase(o)' =>
              /\ req[o].target # Active /\ req[o].target # t
              /\ req[o].target \in Targets
        BY <1>1, <1>2, <1>3, <2>1, <2>2 DEF Separate, Requested, Sorted, RestoreRequest
      <3>4. ASSUME NEW o \in Requests, req'[o].pc \in {"drop", "rename"}
            PROVE  db'[req'[o].target] = req'[o].dump
        <4>1. InDatabase(o)' /\ req[o].pc \in {"drop", "rename"}
          BY <1>7, <2>2, <3>4 DEF InDatabase, DatabaseStages
        <4> QED
          BY <1>6, <1>7, <2>1, <2>4, <3>3, <4>1 DEF Separate, Alike
      <3>5. \A o \in Requests : ReqAt(o, "load")' => ~req'[o].mixed
        BY <1>7, <2>1, <2>4 DEF Separate, ReqAt
      <3>6. \A p, o \in Requests :
              InDatabase(p)' /\ InDatabase(o)' /\ req'[p].target = req'[o].target => p = o
        BY <1>7, <2>1, <2>2 DEF Separate, Alike
      <3>7. ASSUME NEW o \in Requests, ReqAt(o, "done")'
            PROVE  \/ db'[Active] = req'[o].dump
                   \/ \E p \in Requests \ {o} : req'[p].target # Active
        <4>1. CASE o = r
          BY <1>7, <3>2, <4>1 DEF Alike
        <4>2. CASE o # r
          BY <1>2, <1>4, <1>7, <4>2 DEF Alike
        <4> QED
          BY <4>1, <4>2
      <3> QED
        BY <3>2, <3>4, <3>5, <3>6, <3>7 DEF Separate
    <2> QED
      BY <2>3, <2>4
  <1> QED
    BY <1>9, <1>10, <1>11 DEF RestoreInv

-----------------------------------------------------------------------------
(* Steps of an objects restore.                                            *)

LEMMA SetRun ==
  ASSUME RestoreTypeInv, NEW r \in Requests, NEW q \in RestoreRequest, SetReq(r, q)
  PROVE  /\ req' \in [Requests -> RestoreRequest] /\ req'[r] = q
         /\ \A o \in Requests \ {r} : req'[o] = req[o]
  BY DEF RestoreTypeInv, SetReq

\* One objects restore begins, goes on, ends or dies; for the others it is enough
\* that it has been asked for.
LEMMA BucketMove ==
  ASSUME RestoreInv, NEW r \in Requests, NEW q \in RestoreRequest,
         InBucket(r) \/ ReqAt(r, "unused"), SetReq(r, q),
         q.pc \in ObjectStages \cup {"done", "failed", "dead"},
         q.dump \in Dumps, q.target = Active, q.promote = FALSE,
         UNCHANGED db, UNCHANGED uploaded, stored' \subseteq Objects,
         bounds' \in RestoreSetting, bounds'.shared = bounds.shared,
         staged' \subseteq StagedObject,
         \A s \in staged' : s \in staged \/ s.by = r,
         q.pc \in {"done", "failed"} => \A s \in staged' : s.by # r,
         q.pc = "stage" => q.keys \cup q.todo = Archive[q.dump],
         q.pc \in {"copy", "remove", "clean", "done"} =>
            /\ q.keys = Archive[q.dump]
            /\ \/ q.keys \ (IF q.pc = "copy" THEN q.todo ELSE {}) \subseteq stored'
               \/ AnotherAsked(r)
  PROVE  /\ RestoreInv'
         /\ Exact /\ InBucket(r) /\ Apart /\ Exactly(r)' => Exact'
  <1>1. RestoreTypeInv /\ Requested
    BY DEF RestoreInv
  <1>2. /\ req' \in [Requests -> RestoreRequest] /\ req'[r] = q
        /\ \A o \in Requests \ {r} : req'[o] = req[o]
    BY <1>1, SetRun
  <1>3. req[r].target = Active /\ ~req[r].promote /\ ~InDatabase(r) /\ ~ReqAt(r, "done")
    BY <1>1 DEF Requested, Sorted, InDatabase, InBucket, ReqAt, DatabaseStages, ObjectStages
  <1>4. q.pc \notin DatabaseStages /\ q.pc # "unused"
    BY DEF DatabaseStages, ObjectStages
  <1>5. RestoreTypeInv'
    BY <1>1, <1>2 DEF RestoreTypeInv
  <1>6. ASSUME NEW o \in Requests PROVE Sorted(o)'
    <2>1. Sorted(o)
      BY <1>1 DEF Requested
    <2>2. CASE o = r
      <3>1. Own(o)' # {} => q.pc \notin {"done", "failed"}
        BY <2>2 DEF Own
      <3> QED
        BY <1>2, <1>4, <2>2, <3>1 DEF Sorted, ReqAt, InDatabase, InBucket
    <2>3. CASE o # r
      <3>1. Own(o)' # {} => Own(o) # {}
        BY <2>3 DEF Own
      <3> QED
        BY <1>2, <2>1, <2>3, <3>1 DEF Sorted, ReqAt, InDatabase, InBucket
    <2> QED
      BY <2>2, <2>3
  <1>7. ASSUME ~bounds.shared PROVE Separate'
    <2>1. Separate
      BY <1>7 DEF RestoreInv
    <2>2. \A o \in Requests : InDatabase(o)' => req'[o] = req[o]
      BY <1>2, <1>4 DEF InDatabase
    <2>3. \A o \in Requests :
            req'[o].target = req[o].target /\ req'[o].promote = req[o].promote
      <3>1. req[r].promote \in BOOLEAN
        BY <1>1 DEF RestoreTypeInv, RestoreRequest
      <3> QED
        BY <1>2, <1>3, <3>1
    <2>4. \A o \in Requests : ReqAt(o, "done")' /\ req[o].promote =>
             ReqAt(o, "done") /\ req'[o].dump = req[o].dump
      BY <1>2, <1>3 DEF ReqAt
    <2> QED
      BY <2>1, <2>2, <2>3, <2>4, QuietStep
  <1>8. ASSUME NEW o \in Requests, o # r
        PROVE  AnotherAsked(o)' /\ (AnotherAsked(r) => AnotherAsked(r)')
    BY <1>2, <1>4, <1>8 DEF AnotherAsked, ReqAt
  <1>9. AnotherAsked(r) => AnotherAsked(r)'
    BY <1>2 DEF AnotherAsked, ReqAt
  <1>10. Gathered'
    BY <1>2 DEF RestoreInv, Gathered, HasArchive, ReqAt
  <1>11. Copies'
    <2>1. ASSUME NEW o \in Requests, HasArchive(o)', o = r
          PROVE  req'[o].keys \ Copying(o)' \subseteq stored' \/ AnotherAsked(o)'
      BY <1>2, <1>9, <2>1 DEF HasArchive, Copying, ReqAt
    <2> QED
      BY <1>8, <2>1 DEF Copies
  <1>12. ASSUME Exact, InBucket(r), Apart, Exactly(r)' PROVE Exact'
    <2>1. ASSUME NEW o \in Requests, o # r PROVE Exactly(o)'
      <3>1. ~InBucket(o)
        BY <1>12, <2>1 DEF Apart
      <3> QED
        BY <1>2, <2>1, <3>1 DEF Exactly, InBucket, ObjectStages, ReqAt
    <2> QED
      BY <1>12, <2>1 DEF Exact
  <1> QED
    BY <1>5, <1>6, <1>7, <1>10, <1>11, <1>12 DEF RestoreInv, Requested

LEMMA AskObjectsStep ==
  ASSUME RestoreInv, NEW r \in Requests, NEW d \in Dumps, NEW replace \in BOOLEAN,
         AskObjects(r, d, replace)
  PROVE  RestoreInv' /\ (Exact => Exact')
  <1>1. PICK q : q = [Unused EXCEPT !.pc = "stage", !.dump = d, !.replace = replace,
                                    !.todo = Archive[d]]
    OBVIOUS
  <1>2. Archive[d] \subseteq Objects
    BY ObjectsAssumption
  <1>3. /\ q \in RestoreRequest /\ q.pc = "stage" /\ q.dump = d /\ q.target = Active
        /\ q.keys = {} /\ q.todo = Archive[d] /\ q.promote = FALSE
    BY <1>1, <1>2, NamesAssumption DEF Unused, RestoreRequest, ObjectStages, Whole
  <1>4. /\ SetReq(r, q) /\ UNCHANGED <<db, bucket>> /\ ReqAt(r, "unused")
        /\ Use("buckets")
    BY <1>1 DEF AskObjects, Free
  <1>5. bounds' \in RestoreSetting /\ bounds'.shared = bounds.shared
    BY <1>4, UseRun DEF RestoreInv
  <1>6. /\ UNCHANGED db /\ UNCHANGED uploaded /\ stored' \subseteq Objects
        /\ staged' \subseteq StagedObject /\ \A s \in staged' : s \in staged \/ s.by = r
    BY <1>4 DEF bucket, RestoreInv, RestoreTypeInv
  <1>7. RestoreInv'
    BY <1>3, <1>4, <1>5, <1>6, BucketMove DEF ObjectStages
  <1>8. /\ req'[r] = q /\ \A o \in Requests \ {r} : req'[o] = req[o]
    BY <1>3, <1>4, SetRun DEF RestoreInv
  <1>9. ASSUME Exact, NEW o \in Requests PROVE Exactly(o)'
    <2>1. CASE o = r
      BY <1>3, <1>8, <2>1 DEF Exactly, ReqAt
    <2>2. CASE o # r
      BY <1>4, <1>8, <1>9, <2>2 DEF Exact, Exactly, Own, ReqAt, Copying, bucket
    <2> QED
      BY <2>1, <2>2
  <1> QED
    BY <1>7, <1>9 DEF Exact

LEMMA StageStep ==
  ASSUME RestoreInv, NEW r \in Requests,
         (\E f \in Objects : Stage(r, f)) \/ Staged(r)
  PROVE  RestoreInv' /\ (Exact /\ Apart => Exact')
  <1>1. /\ RestoreTypeInv /\ Requested /\ req[r] \in RestoreRequest
        /\ req[r].pc = "stage" /\ InBucket(r) /\ req[r].dump \in Dumps
        /\ req[r].target = Active /\ req[r].promote = FALSE
        /\ req[r].keys \cup req[r].todo = Archive[req[r].dump]
    <2>1. RestoreTypeInv /\ Requested /\ req[r] \in RestoreRequest /\ req[r].pc = "stage"
      BY DEF RestoreInv, RestoreTypeInv, Stage, Staged, ReqAt
    <2>2. req[r].promote \in BOOLEAN
      BY <2>1 DEF RestoreRequest
    <2> QED
      BY <2>1, <2>2
      DEF RestoreInv, Requested, Sorted, Gathered, InBucket, ObjectStages, ReqAt
  <1>2. bounds' \in RestoreSetting /\ bounds'.shared = bounds.shared
    BY <1>1 DEF Stage, Staged, RestoreTypeInv
  <1>3. ASSUME NEW f \in Objects, Stage(r, f) PROVE RestoreInv' /\ (Exact /\ Apart => Exact')
    <2>1. PICK q : q = [req[r] EXCEPT !.todo = @ \ {f}, !.keys = @ \cup {f}]
      OBVIOUS
    <2>2. /\ q \in RestoreRequest /\ q.pc = "stage" /\ q.dump = req[r].dump
          /\ q.target = Active /\ q.promote = FALSE
          /\ q.todo = req[r].todo \ {f} /\ q.keys = req[r].keys \cup {f}
      BY <1>1, <2>1 DEF RestoreRequest
    <2>3. /\ SetReq(r, q) /\ f \in req[r].todo /\ staged' = staged \cup {Object(r, f)}
          /\ UNCHANGED <<db, stored, uploaded>>
      BY <1>3, <2>1 DEF Stage
    <2>4. Object(r, f) \in StagedObject /\ Object(r, f).by = r
      BY DEF Object, StagedObject
    <2>5. q.keys \cup q.todo = Archive[q.dump]
      BY <1>1, <2>2, <2>3
    <2>6. /\ stored' \subseteq Objects /\ staged' \subseteq StagedObject
          /\ \A s \in staged' : s \in staged \/ s.by = r
      BY <1>1, <2>3, <2>4 DEF RestoreTypeInv
    <2>7. req'[r] = q
      BY <1>1, <2>2, <2>3, SetRun
    <2>8. Exactly(r)'
      BY <2>2, <2>7 DEF Exactly, ReqAt
    <2> QED
      BY <1>1, <1>2, <2>2, <2>3, <2>5, <2>6, <2>8, BucketMove DEF ObjectStages
  <1>4. ASSUME Staged(r) PROVE RestoreInv' /\ (Exact /\ Apart => Exact')
    <2>1. PICK q : q = [req[r] EXCEPT !.pc = "copy", !.todo = req[r].keys]
      OBVIOUS
    <2>2. /\ q \in RestoreRequest /\ q.pc = "copy" /\ q.dump = req[r].dump
          /\ q.target = Active /\ q.promote = FALSE
          /\ q.todo = req[r].keys /\ q.keys = req[r].keys
      BY <1>1, <2>1 DEF RestoreRequest, ObjectStages
    <2>3. /\ SetReq(r, q) /\ req[r].todo = {} /\ UNCHANGED <<db, bucket>>
      BY <1>4, <2>1 DEF Staged
    <2>4. q.keys = Archive[q.dump]
      BY <1>1, <2>2, <2>3
    <2>5. q.keys \ q.todo \subseteq stored'
      BY <2>2
    <2>6. /\ UNCHANGED db /\ UNCHANGED uploaded
          /\ stored' \subseteq Objects /\ staged' \subseteq StagedObject
          /\ \A s \in staged' : s \in staged \/ s.by = r
      BY <1>1, <2>3 DEF RestoreTypeInv, bucket
    <2>7. req'[r] = q
      BY <1>1, <2>2, <2>3, SetRun
    <2>8. Exactly(r)'
      BY <2>2, <2>7 DEF Exactly, ReqAt, Copying
    <2> QED
      BY <1>1, <1>2, <2>2, <2>3, <2>4, <2>5, <2>6, <2>8, BucketMove DEF ObjectStages
  <1> QED
    BY <1>3, <1>4

\* A request whose archive is staged: what is known of it.
LEMMA ArchiveStaged ==
  ASSUME RestoreInv, NEW r \in Requests, req[r].pc \in {"copy", "remove", "clean"}
  PROVE  /\ RestoreTypeInv /\ req[r] \in RestoreRequest
         /\ InBucket(r) /\ req[r].dump \in Dumps
         /\ req[r].target = Active /\ req[r].promote = FALSE
         /\ req[r].keys = Archive[req[r].dump]
         /\ req[r].keys \ Copying(r) \subseteq stored \/ AnotherAsked(r)
  <1>1. RestoreTypeInv /\ Requested /\ req[r] \in RestoreRequest /\ InBucket(r)
    BY DEF RestoreInv, RestoreTypeInv, InBucket, ObjectStages
  <1>2. req[r].promote \in BOOLEAN
    BY <1>1 DEF RestoreRequest
  <1> QED
    BY <1>1, <1>2
    DEF RestoreInv, Requested, Sorted, Gathered, Copies, HasArchive, ReqAt

LEMMA CopyStep ==
  ASSUME RestoreInv, NEW r \in Requests,
         (\E f \in Objects : CopyObject(r, f)) \/ Copied(r)
  PROVE  RestoreInv' /\ (Exact /\ Apart => Exact')
  <1>1. req[r].pc = "copy"
    BY DEF CopyObject, Copied, ReqAt
  <1>2. /\ RestoreTypeInv /\ req[r] \in RestoreRequest
        /\ InBucket(r) /\ req[r].dump \in Dumps
        /\ req[r].target = Active /\ req[r].promote = FALSE
        /\ req[r].keys = Archive[req[r].dump]
        /\ req[r].keys \ req[r].todo \subseteq stored \/ AnotherAsked(r)
        /\ Exact => req[r].keys \ req[r].todo \subseteq stored
    BY <1>1, ArchiveStaged DEF Exact, Exactly, Copying, ReqAt
  <1>3. bounds' \in RestoreSetting /\ bounds'.shared = bounds.shared
    BY <1>2 DEF CopyObject, Copied, RestoreTypeInv
  <1>4. ASSUME NEW f \in Objects, CopyObject(r, f)
        PROVE  RestoreInv' /\ (Exact /\ Apart => Exact')
    <2>1. PICK q : q = [req[r] EXCEPT !.todo = @ \ {f}]
      OBVIOUS
    <2>2. /\ q \in RestoreRequest /\ q.pc = "copy" /\ q.dump = req[r].dump
          /\ q.target = Active /\ q.promote = FALSE
          /\ q.todo = req[r].todo \ {f} /\ q.keys = req[r].keys
      BY <1>1, <1>2, <2>1 DEF RestoreRequest
    <2>3. /\ SetReq(r, q) /\ stored' = stored \cup {f}
          /\ UNCHANGED <<db, staged, uploaded>>
      BY <1>4, <2>1 DEF CopyObject
    <2>4. /\ q.keys \ q.todo \subseteq stored' \/ AnotherAsked(r)
          /\ Exact => q.keys \ q.todo \subseteq stored'
      BY <1>2, <2>2, <2>3
    <2>5. /\ stored' \subseteq Objects /\ staged' \subseteq StagedObject
          /\ \A s \in staged' : s \in staged \/ s.by = r
      BY <1>2, <2>3 DEF RestoreTypeInv
    <2>6. req'[r] = q
      BY <1>2, <2>2, <2>3, SetRun
    <2>7. Exact => Exactly(r)'
      BY <2>2, <2>4, <2>6 DEF Exactly, ReqAt, Copying
    <2> QED
      BY <1>2, <1>3, <2>2, <2>3, <2>4, <2>5, <2>7, BucketMove DEF ObjectStages
  <1>5. ASSUME Copied(r) PROVE RestoreInv' /\ (Exact /\ Apart => Exact')
    <2>1. PICK q : q = NextPhase(r)
      OBVIOUS
    <2>2. PICK others \in SUBSET StagedObject : others = staged \ Own(r)
      BY <1>2 DEF RestoreTypeInv
    <2>3. /\ q \in RestoreRequest /\ q.pc \in {"remove", "clean"}
          /\ q.dump = req[r].dump /\ q.target = Active /\ q.promote = FALSE
          /\ q.keys = req[r].keys
          /\ q.pc = "remove" => q.todo = stored /\ q.others = others
          /\ q.pc = "clean" => ~q.replace
      <3>1. CASE req[r].replace
        <4>1. q = [req[r] EXCEPT !.pc = "remove", !.todo = stored, !.others = others]
          BY <2>1, <2>2, <3>1 DEF NextPhase
        <4> QED
          BY <1>2, <4>1 DEF RestoreRequest, ObjectStages, RestoreTypeInv
      <3>2. CASE ~req[r].replace
        <4>1. q = [req[r] EXCEPT !.pc = "clean", !.todo = {}]
          BY <2>1, <3>2 DEF NextPhase
        <4> QED
          BY <1>2, <3>2, <4>1 DEF RestoreRequest, ObjectStages
      <3> QED
        BY <3>1, <3>2
    <2>4. /\ SetReq(r, q) /\ req[r].todo = {} /\ UNCHANGED <<db, bucket>>
      BY <1>5, <2>1 DEF Copied
    <2>5. /\ q.keys \subseteq stored' \/ AnotherAsked(r)
          /\ Exact => q.keys \subseteq stored'
      BY <1>2, <2>3, <2>4 DEF bucket
    <2>6. /\ UNCHANGED db /\ UNCHANGED uploaded
          /\ stored' \subseteq Objects /\ staged' \subseteq StagedObject
          /\ \A s \in staged' : s \in staged \/ s.by = r
      BY <1>2, <2>4 DEF RestoreTypeInv, bucket
    <2>7. req'[r] = q
      BY <1>2, <2>3, <2>4, SetRun
    <2>8. Exact => Exactly(r)'
      BY <2>2, <2>3, <2>4, <2>5, <2>7 DEF Exactly, ReqAt, Copying, Own, bucket
    <2> QED
      BY <1>2, <1>3, <2>3, <2>4, <2>5, <2>6, <2>8, BucketMove DEF ObjectStages
  <1> QED
    BY <1>4, <1>5

\* What a step of the removal makes of the request, the objects and the staged ones.
RemovalGoesOn(r, q) ==
    /\ q.pc \in {"remove", "clean"} /\ q.dump = req[r].dump /\ q.target = Active
    /\ q.promote = FALSE /\ q.keys = req[r].keys /\ SetReq(r, q)
    /\ \/ /\ UNCHANGED staged
          /\ \E f \in Objects :
               /\ q.pc = "remove" /\ q.todo = req[r].todo \ {f}
               /\ q.others = req[r].others
               /\ stored' = IF f \in req[r].keys THEN stored ELSE stored \ {f}
       \/ /\ UNCHANGED stored
          /\ \E s \in staged :
               /\ q.pc = "remove" /\ q.todo = req[r].todo
               /\ q.others = req[r].others \ {s}
               /\ staged' = staged \ {s}
       \/ /\ q.pc = "clean" /\ req[r].todo = {} /\ req[r].others = {}
          /\ UNCHANGED <<stored, staged>>

LEMMA RemoveStep ==
  ASSUME RestoreInv, NEW r \in Requests,
         \/ \E f \in Objects : RemoveOne(r, f)
         \/ \E s \in staged : RemoveStaged(r, s)
         \/ Removed(r)
  PROVE  RestoreInv' /\ (Exact /\ Apart => Exact')
  <1>1. req[r].pc = "remove"
    BY DEF RemoveOne, RemoveStaged, Removed, ReqAt
  <1>2. /\ RestoreTypeInv /\ req[r] \in RestoreRequest
        /\ InBucket(r) /\ req[r].dump \in Dumps
        /\ req[r].target = Active /\ req[r].promote = FALSE
        /\ req[r].keys = Archive[req[r].dump]
        /\ req[r].keys \subseteq stored \/ AnotherAsked(r)
        /\ Exact => /\ req[r].keys \subseteq stored
                    /\ stored \subseteq req[r].keys \cup req[r].todo \cup uploaded
                    /\ staged \subseteq Own(r) \cup req[r].others
    BY <1>1, ArchiveStaged DEF Exact, Exactly, Copying, ReqAt
  <1>3. bounds' \in RestoreSetting /\ bounds'.shared = bounds.shared
    BY <1>2 DEF RemoveOne, RemoveStaged, Removed, RestoreTypeInv
  <1>4. PICK q \in RestoreRequest : RemovalGoesOn(r, q)
    <2>1. ASSUME NEW f \in Objects, RemoveOne(r, f) PROVE \E q \in RestoreRequest : RemovalGoesOn(r, q)
      <3>1. PICK q : q = [req[r] EXCEPT !.todo = @ \ {f}]
        OBVIOUS
      <3>2. /\ q \in RestoreRequest /\ q.pc = "remove" /\ q.dump = req[r].dump
            /\ q.target = Active /\ q.promote = FALSE /\ q.keys = req[r].keys
            /\ q.todo = req[r].todo \ {f} /\ q.others = req[r].others
        BY <1>1, <1>2, <3>1 DEF RestoreRequest
      <3>3. /\ SetReq(r, q) /\ UNCHANGED staged
            /\ stored' = IF f \in req[r].keys THEN stored ELSE stored \ {f}
        BY <2>1, <3>1 DEF RemoveOne
      <3> QED
        BY <3>2, <3>3 DEF RemovalGoesOn
    <2>2. ASSUME NEW s \in staged, RemoveStaged(r, s) PROVE \E q \in RestoreRequest : RemovalGoesOn(r, q)
      <3>1. PICK q : q = [req[r] EXCEPT !.others = @ \ {s}]
        OBVIOUS
      <3>2. /\ q \in RestoreRequest /\ q.pc = "remove" /\ q.dump = req[r].dump
            /\ q.target = Active /\ q.promote = FALSE /\ q.keys = req[r].keys
            /\ q.todo = req[r].todo /\ q.others = req[r].others \ {s}
        BY <1>1, <1>2, <3>1 DEF RestoreRequest
      <3>3. SetReq(r, q) /\ staged' = staged \ {s} /\ UNCHANGED stored
        BY <2>2, <3>1 DEF RemoveStaged
      <3> QED
        BY <3>2, <3>3 DEF RemovalGoesOn
    <2>3. ASSUME Removed(r) PROVE \E q \in RestoreRequest : RemovalGoesOn(r, q)
      <3>1. PICK q : q = [req[r] EXCEPT !.pc = "clean"]
        OBVIOUS
      <3>2. /\ q \in RestoreRequest /\ q.pc = "clean" /\ q.dump = req[r].dump
            /\ q.target = Active /\ q.promote = FALSE /\ q.keys = req[r].keys
        BY <1>1, <1>2, <3>1 DEF RestoreRequest, ObjectStages
      <3>3. /\ SetReq(r, q) /\ req[r].todo = {} /\ req[r].others = {}
            /\ UNCHANGED <<stored, staged>>
        BY <2>3, <3>1 DEF Removed, Go, bucket
      <3> QED
        BY <3>2, <3>3 DEF RemovalGoesOn
    <2> QED
      BY <2>1, <2>2, <2>3
  <1> USE DEF RemovalGoesOn
  <1>5. /\ UNCHANGED db /\ UNCHANGED uploaded
    BY DEF RemoveOne, RemoveStaged, Removed, bucket
  <1>6. /\ stored' \subseteq Objects /\ staged' \subseteq StagedObject
        /\ \A s \in staged' : s \in staged \/ s.by = r
    BY <1>2, <1>4 DEF RestoreTypeInv
  <1>7. req'[r] = q
    BY <1>2, <1>4, SetRun
  <1>8. /\ q.keys \subseteq stored' \/ AnotherAsked(r)
        /\ Exact => q.keys \subseteq stored'
    BY <1>2, <1>4
  <1>9. \A s \in Own(r) : s \in staged' => s \in Own(r)'
    BY DEF Own
  <1>10. ASSUME Exact PROVE Exactly(r)'
    <2>1. q.pc = "remove" => stored' \subseteq q.keys \cup q.todo \cup uploaded
      BY <1>2, <1>4, <1>10
    <2>2. q.pc = "remove" => staged' \subseteq Own(r)' \cup q.others
      BY <1>2, <1>4, <1>9, <1>10
    <2>3. q.pc = "clean" =>
            stored' \subseteq q.keys \cup uploaded /\ staged' \subseteq Own(r)'
      BY <1>2, <1>4, <1>9, <1>10
    <2> QED
      BY <1>4, <1>5, <1>7, <1>8, <1>10, <2>1, <2>2, <2>3 DEF Exactly, ReqAt, Copying
  <1>11. q.keys = Archive[q.dump] /\ q.dump \in Dumps
    BY <1>2, <1>4
  <1>12. q.pc \in {"remove", "clean"} /\ q.target = Active /\ q.promote = FALSE
         /\ SetReq(r, q) /\ q \in RestoreRequest
    BY <1>4
  <1> HIDE DEF RemovalGoesOn
  <1> QED
    BY <1>2, <1>3, <1>5, <1>6, <1>8, <1>10, <1>11, <1>12, BucketMove DEF ObjectStages

\* The finally block after a restore that went well, or after an error.
LEMMA EndStep ==
  ASSUME RestoreInv, NEW r \in Requests, Finish(r) \/ RequestRaises(r)
  PROVE  RestoreInv' /\ (Exact /\ Apart => Exact')
  <1>1. /\ RestoreTypeInv /\ Requested /\ req[r] \in RestoreRequest
        /\ InBucket(r) /\ req[r].dump \in Dumps
        /\ req[r].target = Active /\ req[r].promote = FALSE
    <2>1. /\ RestoreTypeInv /\ Requested /\ req[r] \in RestoreRequest
          /\ InBucket(r) /\ ~ReqAt(r, "unused")
      BY DEF RestoreInv, RestoreTypeInv, Finish, RequestRaises, ReqAt, InBucket, ObjectStages
    <2>2. req[r].promote \in BOOLEAN
      BY <2>1 DEF RestoreRequest
    <2> QED
      BY <2>1, <2>2 DEF Requested, Sorted
  <1>2. bounds' \in RestoreSetting /\ bounds'.shared = bounds.shared
    BY <1>1, UseRun DEF Finish, RequestRaises, RestoreTypeInv
  <1>3. PICK pc \in {"done", "failed"} :
          Go(r, pc) /\ (pc = "done" => Finish(r))
    BY DEF Finish, RequestRaises
  <1>4. PICK q : q = [req[r] EXCEPT !.pc = pc]
    OBVIOUS
  <1>5. /\ q \in RestoreRequest /\ q.pc = pc /\ q.dump = req[r].dump
        /\ q.target = Active /\ q.promote = FALSE /\ q.keys = req[r].keys
    BY <1>1, <1>4 DEF RestoreRequest, Ended
  <1>6. SetReq(r, q)
    BY <1>3, <1>4 DEF Go
  <1>7. /\ staged' = staged \ Own(r) /\ UNCHANGED <<db, stored, uploaded>>
    BY DEF Finish, RequestRaises
  <1>8. /\ stored' \subseteq Objects /\ staged' \subseteq StagedObject
        /\ \A s \in staged' : s \in staged /\ s.by # r
    BY <1>1, <1>7 DEF RestoreTypeInv, Own
  <1>9. q.pc = "done" => /\ q.keys = Archive[q.dump]
                         /\ q.keys \subseteq stored' \/ AnotherAsked(r)
    <2>1. HAVE q.pc = "done"
    <2>2. req[r].pc = "clean"
      BY <1>3, <1>5, <2>1 DEF Finish, ReqAt
    <2> QED
      BY <1>5, <1>7, <2>2, ArchiveStaged DEF Copying, ReqAt
  <1>10. req'[r] = q
    BY <1>1, <1>5, <1>6, SetRun
  <1>11. Exactly(r)'
    BY <1>5, <1>10 DEF Exactly, ReqAt
  <1> QED
    BY <1>1, <1>2, <1>5, <1>6, <1>7, <1>8, <1>9, <1>11, BucketMove DEF ObjectStages

LEMMA DieStep ==
  ASSUME RestoreInv, NEW r \in Requests, RequestDies(r)
  PROVE  RestoreInv' /\ (Exact /\ Apart => Exact')
  <1>1. /\ RestoreTypeInv /\ Requested /\ req[r] \in RestoreRequest
        /\ InDatabase(r) \/ InBucket(r)
        /\ ~ReqAt(r, "unused") /\ req[r].dump \in Dumps
    <2>1. RestoreTypeInv /\ Requested /\ req[r] \in RestoreRequest
      BY DEF RestoreInv, RestoreTypeInv
    <2>2. (InDatabase(r) \/ InBucket(r)) /\ ~ReqAt(r, "unused")
      BY <2>1 DEF RequestDies, UnderWay, RestoreRequest, InDatabase, InBucket, Ended, ReqAt
    <2> QED
      BY <2>1, <2>2 DEF Requested, Sorted
  <1>2. Use("fails") /\ Go(r, "dead") /\ UNCHANGED <<db, bucket>>
    BY DEF RequestDies
  <1>3. bounds' \in RestoreSetting /\ bounds'.shared = bounds.shared
    BY <1>1, <1>2, UseRun
  <1>4. CASE InDatabase(r)
    <2>1. "dead" \in Stages
      BY DEF Stages, Ended
    <2>2. /\ req' \in [Requests -> RestoreRequest] /\ req'[r].pc = "dead"
          /\ \A o \in Requests : Alike(o) /\ req'[o].mixed = req[o].mixed
          /\ \A o \in Requests \ {r} : req'[o] = req[o]
      BY <1>1, <1>2, <2>1, GoRun
    <2>3. db' \in [Targets -> Whole \cup {"gone", "partial"}] /\ UNCHANGED bucket
      BY <1>1, <1>2 DEF RestoreTypeInv
    <2>4. /\ RestoreTypeInv' /\ Requested' /\ Gathered' /\ Copies'
          /\ Exact => Exact'
      BY <1>3, <1>4, <2>2, <2>3, DatabaseMove
    <2>5. ASSUME ~bounds.shared PROVE Separate'
      <3>1. Separate
        BY <2>5 DEF RestoreInv
      <3>2. \A o \in Requests : InDatabase(o)' => o # r
        BY <2>2 DEF InDatabase, DatabaseStages
      <3>3. \A o \in Requests : ReqAt(o, "done")' => ReqAt(o, "done")
        BY <2>2 DEF ReqAt
      <3> QED
        BY <1>2, <2>2, <3>1, <3>2, <3>3, QuietStep DEF Alike
    <2> QED
      BY <1>3, <2>4, <2>5 DEF RestoreInv
  <1>5. CASE InBucket(r)
    <2>1. PICK q : q = [req[r] EXCEPT !.pc = "dead"]
      OBVIOUS
    <2>2. req[r].target = Active /\ req[r].promote = FALSE
      <3>1. req[r].promote \in BOOLEAN
        BY <1>1 DEF RestoreRequest
      <3> QED
        BY <1>1, <1>5, <3>1 DEF Requested, Sorted
    <2>3. /\ q \in RestoreRequest /\ q.pc = "dead" /\ q.dump = req[r].dump
          /\ q.target = Active /\ q.promote = FALSE
      BY <1>1, <2>1, <2>2 DEF RestoreRequest, Ended
    <2>4. SetReq(r, q)
      BY <1>2, <2>1 DEF Go
    <2>5. /\ UNCHANGED db /\ UNCHANGED uploaded
          /\ stored' \subseteq Objects /\ staged' \subseteq StagedObject
          /\ \A s \in staged' : s \in staged \/ s.by = r
      BY <1>1, <1>2 DEF RestoreTypeInv, bucket
    <2>6. req'[r] = q
      BY <1>1, <2>3, <2>4, SetRun
    <2>7. Exactly(r)'
      BY <2>3, <2>6 DEF Exactly, ReqAt
    <2> QED
      BY <1>1, <1>3, <1>5, <2>3, <2>4, <2>5, <2>7, BucketMove DEF ObjectStages
  <1> QED
    BY <1>1, <1>4, <1>5

LEMMA UploadStep ==
  ASSUME RestoreInv, NEW f \in Objects, Upload(f)
  PROVE  RestoreInv' /\ (Exact => Exact')
  <1>1. RestoreTypeInv /\ Requested /\ req \in [Requests -> RestoreRequest]
    BY DEF RestoreInv, RestoreTypeInv
  <1>2. /\ f \in Uploads /\ uploaded' = uploaded \cup {f} /\ stored' = stored \cup {f}
        /\ UNCHANGED <<db, staged, bounds>>
    BY DEF Upload
  <1>3. PICK seen \in BOOLEAN :
          req' = [r \in Requests |->
             IF seen /\ ReqAt(r, "remove") THEN [req[r] EXCEPT !.todo = @ \cup {f}]
             ELSE req[r]]
    BY DEF Upload
  <1>4. ASSUME NEW r \in Requests
        PROVE  /\ req'[r] \in RestoreRequest
               /\ req'[r].pc = req[r].pc /\ req'[r].dump = req[r].dump
               /\ req'[r].target = req[r].target /\ req'[r].promote = req[r].promote
               /\ req'[r].mixed = req[r].mixed /\ req'[r].replace = req[r].replace
               /\ req'[r].keys = req[r].keys /\ req'[r].others = req[r].others
               /\ req[r].todo \subseteq req'[r].todo
               /\ ~ReqAt(r, "remove") => req'[r].todo = req[r].todo
    <2>1. CASE seen /\ ReqAt(r, "remove")
      <3>1. req'[r] = [req[r] EXCEPT !.todo = @ \cup {f}]
        BY <1>3, <2>1
      <3> QED
        BY <1>1, <2>1, <3>1 DEF RestoreRequest
    <2>2. CASE ~(seen /\ ReqAt(r, "remove"))
      BY <1>1, <1>3, <2>2
    <2> QED
      BY <2>1, <2>2
  <1>5. req' \in [Requests -> RestoreRequest]
    <2>1. req' = [r \in Requests |-> req'[r]]
      BY <1>3
    <2> QED
      BY <1>4, <2>1
  <1>6. RestoreTypeInv'
    BY <1>1, <1>2, <1>5, ObjectsAssumption DEF RestoreTypeInv
  <1>7. \A r \in Requests : Own(r)' = Own(r)
    BY <1>2 DEF Own
  <1>8. Requested'
    BY <1>1, <1>4, <1>7 DEF Requested, Sorted, ReqAt, InDatabase, InBucket
  <1>9. ASSUME ~bounds.shared PROVE Separate'
    BY <1>2, <1>4, <1>9, QuietStep DEF RestoreInv, ReqAt
  <1>10. \A r \in Requests :
           /\ HasArchive(r)' <=> HasArchive(r)
           /\ AnotherAsked(r)' <=> AnotherAsked(r)
           /\ Copying(r)' = Copying(r)
    BY <1>4 DEF HasArchive, AnotherAsked, Copying, ReqAt
  <1>11. Gathered'
    BY <1>4, <1>10 DEF RestoreInv, Gathered, ReqAt
  <1>12. Copies'
    BY <1>2, <1>4, <1>10 DEF RestoreInv, Copies
  <1>13. ASSUME Exact, NEW r \in Requests PROVE Exactly(r)'
    <2>1. Exactly(r)
      BY <1>13 DEF Exact
    <2> QED
      BY <1>2, <1>4, <1>7, <1>10, <2>1 DEF Exactly, ReqAt
  <1> QED
    BY <1>2, <1>6, <1>8, <1>9, <1>11, <1>12, <1>13 DEF RestoreInv, Exact

LEMMA RestoreInductive ==
  RestoreInv /\ [RestoreNext]_restoreVars => RestoreInv' /\ (Exact /\ Apart => Exact')
  <1> SUFFICES ASSUME RestoreInv, [RestoreNext]_restoreVars
               PROVE  RestoreInv' /\ (Exact /\ Apart => Exact')
    OBVIOUS
  <1>1. CASE UNCHANGED restoreVars
    <2>1. UNCHANGED <<db, stored, staged, uploaded, req, bounds>>
      BY <1>1 DEF restoreVars, bucket
    <2> QED
      BY <2>1 DEF RestoreInv, RestoreTypeInv, Requested, Sorted, Separate, Spare,
         Gathered, Copies, HasArchive, AnotherAsked, Copying, Exact, Exactly, Own,
         ReqAt, InDatabase, InBucket
  <1>2. CASE \E f \in Objects : Upload(f)
    BY <1>2, UploadStep
  <1>3. ASSUME NEW r \in Requests,
               \/ \E d \in Dumps, t \in Targets, promote \in BOOLEAN :
                    AskDatabase(r, d, t, promote)
               \/ Prepare(r) \/ PrepareFails(r) \/ Connect(r) \/ ConnectFails(r)
               \/ Loaded(r) \/ LoadFails(r) \/ Cleanup(r)
               \/ DropActive(r) \/ DropRefused(r) \/ Rename(r)
        PROVE  RestoreInv' /\ (Exact => Exact')
    BY <1>3, AskDatabaseStep, PrepareStep, ConnectStep, LoadStep, DropActiveStep,
       DropRefusedStep, RenameStep
  <1>4. ASSUME NEW r \in Requests,
               \/ \E d \in Dumps, replace \in BOOLEAN : AskObjects(r, d, replace)
               \/ \E f \in Objects : Stage(r, f) \/ CopyObject(r, f) \/ RemoveOne(r, f)
               \/ \E s \in staged : RemoveStaged(r, s)
               \/ Staged(r) \/ Copied(r) \/ Removed(r) \/ Finish(r) \/ RequestRaises(r)
               \/ RequestDies(r)
        PROVE  RestoreInv' /\ (Exact /\ Apart => Exact')
    BY <1>4, AskObjectsStep, StageStep, CopyStep, RemoveStep, EndStep, DieStep
  <1> QED
    BY <1>1, <1>2, <1>3, <1>4 DEF RestoreNext

-----------------------------------------------------------------------------
(* Theorems.                                                               *)

\* The model keeps its types, and nothing stays under the staging prefix of a
\* request that has answered (the finally block of the objects restore).
THEOREM RestoreTypeCorrect == RestoreSpec => []RestoreTypeOK
  <1>1. RestoreInv => RestoreTypeOK
    <2> SUFFICES ASSUME RestoreInv PROVE RestoreTypeOK
      OBVIOUS
    <2>1. ASSUME NEW r \in Requests
          PROVE  /\ ~ReqAt(r, "unused") => req[r].dump \in Dumps
                 /\ req[r].target \in Targets /\ req[r].keys \subseteq Objects
                 /\ ~UnderWay(r) /\ ~ReqAt(r, "dead") => Own(r) = {}
      <3>1. Sorted(r) /\ req[r] \in RestoreRequest
        BY DEF RestoreInv, Requested, RestoreTypeInv
      <3>2. InBucket(r) => UnderWay(r)
        BY DEF InBucket, UnderWay, ObjectStages, Ended
      <3> QED
        BY <3>1, <3>2 DEF Sorted, RestoreRequest
    <2> QED
      BY <2>1 DEF RestoreInv, RestoreTypeInv, RestoreTypeOK, StagedObject
  <1> QED
    BY <1>1, RestoreInitially, RestoreInductive, PTL DEF RestoreSpec

\* With restores one after the other, or at once into different targets: the
\* application never runs on a database that is partly loaded, some database is
\* whole at every moment, and a set is back when its dump and its archive are
\* (restore_database_dump, promote_restored_database, restore_objects_archive).
THEOREM RestoresStayWhole == RestoreSpec => []RestoreWhole
  <1>1. RestoreInv => RestoreWhole
    <2> SUFFICES ASSUME RestoreInv, ~bounds.shared
                 PROVE  /\ db[Active] # "partial"
                        /\ \E t \in Targets : db[t] \in Whole
                        /\ SetRestored
      BY DEF RestoreWhole
    <2>1. Separate /\ Requested
      BY DEF RestoreInv
    <2>2. db[Active] # "partial" /\ \E t \in Targets : db[t] \in Whole
      BY <2>1, NamesAssumption, ContentsAssumption DEF Separate, Spare
    <2>3. ASSUME NEW r \in Requests, NEW o \in Requests,
                 r # o, ReqAt(r, "done"), ReqAt(o, "done"),
                 req[r].promote, req[o].keys # {}, req[r].dump = req[o].dump,
                 \A q \in Requests \ {r, o} : ReqAt(q, "unused")
          PROVE  db[Active] = req[r].dump /\ Archive[req[o].dump] \subseteq stored
      <3>1. /\ req[r].target # Active /\ req[o].target = Active
            /\ \A q \in Requests \ {r, o} : req[q].target = Active
        BY <2>1, <2>3 DEF Requested, Sorted
      <3>2. db[Active] = req[r].dump
        BY <2>1, <2>3, <3>1 DEF Separate
      <3>3. ~AnotherAsked(o)
        BY <2>3, <3>1 DEF AnotherAsked
      <3>4. HasArchive(o) /\ Copying(o) = {}
        BY <2>3, <3>1 DEF HasArchive, Copying, ReqAt
      <3>5. req[o].keys = Archive[req[o].dump] /\ req[o].keys \ {} \subseteq stored
        BY <3>3, <3>4 DEF RestoreInv, Gathered, Copies
      <3> QED
        BY <3>2, <3>5
    <2> QED
      BY <2>2, <2>3 DEF SetRestored
  <1> QED
    BY <1>1, RestoreInitially, RestoreInductive, PTL DEF RestoreSpec

\* Where no two of them overlap, an objects restore is exact or has cost nothing:
\* one that answers ok leaves every object of its archive and, with
\* replace_existing, nothing else but uploads made meanwhile, and no object goes
\* before the whole archive is there (restore_objects_archive).
THEOREM ObjectsRestoreExact == RestoreSpec /\ []Apart => RestoredIsArchive
  <1>1. RestoreInv /\ Exact /\ [RestoreNext]_restoreVars =>
          [/\ \A r \in Requests : Finish(r) => Answered(r)
           /\ \A f \in stored \ stored' :
                \E r \in Requests :
                  ReqAt(r, "remove") /\ Archive[req[r].dump] \subseteq stored']_restoreVars
    <2> SUFFICES ASSUME RestoreInv, Exact, RestoreNext
                 PROVE  /\ \A r \in Requests : Finish(r) => Answered(r)
                        /\ \A f \in stored \ stored' :
                             \E r \in Requests :
                               /\ ReqAt(r, "remove")
                               /\ Archive[req[r].dump] \subseteq stored'
      OBVIOUS
    <2>1. ASSUME NEW r \in Requests, Finish(r) PROVE Answered(r)
      <3>1. /\ req[r].pc = "clean" /\ staged' = staged \ Own(r) /\ UNCHANGED <<stored, uploaded>>
        BY <2>1 DEF Finish, ReqAt
      <3>2. req[r].keys = Archive[req[r].dump]
        BY ZenonT(60), <3>1, ArchiveStaged
      <3>3. /\ req[r].keys \subseteq stored
            /\ req[r].replace =>
                 stored \subseteq req[r].keys \cup uploaded /\ staged \subseteq Own(r)
        BY <3>1 DEF Exact, Exactly, Copying, ReqAt
      <3> QED
        BY <3>1, <3>2, <3>3 DEF Answered
    <2>2. ASSUME NEW f \in stored \ stored'
          PROVE  \E r \in Requests :
                   ReqAt(r, "remove") /\ Archive[req[r].dump] \subseteq stored'
      <3>1. PICK r \in Requests, g \in Objects : RemoveOne(r, g)
        BY ZenonT(60), <2>2 DEF RestoreNext, AskDatabase, Prepare, PrepareFails, Connect, ConnectFails,
           Loaded, LoadFails, Cleanup, DropActive, DropRefused, Rename, AskObjects, Stage,
           CopyObject, RemoveStaged, Staged, Copied, Removed, Finish, RequestRaises,
           RequestDies, Upload, bucket
      <3>2. /\ ReqAt(r, "remove")
            /\ stored' = IF g \in req[r].keys THEN stored ELSE stored \ {g}
        BY <3>1 DEF RemoveOne
      <3>3. req[r].keys = Archive[req[r].dump] /\ req[r].keys \subseteq stored
        BY <3>2, ArchiveStaged DEF Exact, Exactly, Copying, ReqAt
      <3> QED
        BY <3>2, <3>3
    <2> QED
      BY <2>1, <2>2
  <1>2. RestoreInit => RestoreInv /\ Exact
    BY RestoreInitially
  <1>3. RestoreInv /\ [RestoreNext]_restoreVars => RestoreInv'
    BY RestoreInductive
  <1>4. RestoreInv /\ Exact /\ Apart /\ [RestoreNext]_restoreVars => Exact'
    BY RestoreInductive
  <1> QED
    BY <1>1, <1>2, <1>3, <1>4, PTL DEF RestoreSpec, RestoredIsArchive
=============================================================================
