-------------------------- MODULE ArchiveWorkspace --------------------------
(* The archive page (components/archive/ArchiveWorkspace.tsx): a list of       *)
(* documents by filters and page, a modal with the detail of the selected one, *)
(* its history and the snapshot of a version, an editor, and actions on one or  *)
(* on several chosen documents. An action is one event of the browser: a        *)
(* click or key with the effects React runs for it, or an answer that arrives.  *)
EXTENDS Client

CONSTANTS
    Docs,           \* documents, as numbers: the order of the list
    Filters,        \* filters, sort and page size together
    NoFilter,       \* the one of a page just opened
    Matches,        \* Matches[f]: the documents a filter lets through
    PageSize,       \* PageSize[f]
    NoDoc,
    Settings        \* what a behaviour may have: see Setting

ASSUME DocsAssumption == Docs \subseteq Nat /\ IsFiniteSet(Docs) /\ NoDoc \notin Docs
ASSUME FiltersAssumption == NoFilter \in Filters

VARIABLES
    net,            \* calls under way
    server,         \* documents as the server has them: live, revision
    view,           \* filter and page
    list,           \* items, total, loading, error; of: the view they answer
    selected,       \* selectedDocId
    panel,          \* the modal: open, detail, loading, error, editing, dirty, ...
    history,        \* historyItems by the document they are of, loading
    snapshot,       \* selectedVersionNo and the snapshot shown, by document and number
    bulk,           \* bulkSelectedDocIds, bulkActionLoading
    own,            \* what this page says it has done: a history variable
    left            \* what the behaviour may still do: see Setting

vars == <<net, server, view, list, selected, panel, history, snapshot, bulk, own, left>>

\* acts: clicks and keys of the user; others: changes made elsewhere; errors:
\* calls the server refuses; lost: calls it carries out and whose answer is lost;
\* ops: the handlers the user uses; patient: the user leaves the document and the
\* page of the list alone while an action is under way, and acts on what is chosen
\* only once the list has come.
Setting == [acts : Nat, others : Nat, errors : Nat, lost : Nat, ops : SUBSET STRING,
            patient : BOOLEAN]
ASSUME SettingsAssumption == Settings \subseteq Setting

Views == [filter : Filters, page : Nat \ {0}]
Item == [id : Docs, rev : Nat]
NoDetail == [id |-> NoDoc, rev |-> 0]

-----------------------------------------------------------------------------
(* The server, as the page sees it *)

Live == {d \in Docs : server[d].live}
Listed(f) == Live \cap Matches[f]
Rank(d, S) == Cardinality({e \in S : e < d})
PageOf(v) == {d \in Listed(v.filter) :
                 Rank(d, Listed(v.filter)) \div PageSize[v.filter] = v.page - 1}
ItemOf(d) == [id |-> d, rev |-> server[d].rev]

\* The body of a call's answer.
Body(op, arg) ==
    CASE op = "list" -> [items |-> {ItemOf(d) : d \in PageOf(arg)},
                         total |-> Cardinality(Listed(arg.filter))]
      [] op \in {"detail", "reload"} -> ItemOf(arg)
      [] op = "history" -> arg
      [] op = "snapshot" -> arg
      [] op \in {"save", "files", "resolve"} -> [ItemOf(arg) EXCEPT !.rev = @ + 1]
      [] op = "delete" -> arg
      [] op = "deleteKey" -> arg

DocOf(op, arg) == IF op = "snapshot" THEN arg.id ELSE arg
Changing == {"save", "files", "resolve"}
Removing == {"delete", "deleteKey"}

Written(op, d) ==
    [server EXCEPT ![d] = [live |-> op \notin Removing,
                           rev |-> IF op \in Changing THEN @.rev + 1 ELSE @.rev]]

Many(op) == op \in {"bulkDelete", "bulkReview"}

\* A call on one document, or the list, is carried out and answered; a document
\* that is gone is a 404.
Serve(i) ==
    /\ IsOpen(net, i) /\ ~Many(net[i].op)
    /\ LET op == net[i].op
           arg == net[i].arg
           found == IF op = "list" THEN TRUE ELSE server[DocOf(op, arg)].live
       IN  \/ /\ net' = ComeBack(net, i, IF found THEN Success(Body(op, arg)) ELSE Failure)
              /\ left' = left
           \/ /\ left.lost > 0 /\ found /\ op \in Changing \cup Removing
              /\ net' = ComeBack(net, i, Failure)
              /\ left' = [left EXCEPT !.lost = @ - 1]
    /\ LET op == net[i].op IN
       server' = IF op \in Changing \cup Removing /\ server[net[i].arg].live
                 THEN Written(op, net[i].arg) ELSE server
    /\ UNCHANGED <<view, list, selected, panel, history, snapshot, bulk, own>>

\* The calls of Promise.allSettled are carried out one by one, in any order.
\* The bulk call is back when the last one is; rev: what the answers carry.
ServeOne(i, d) ==
    /\ IsOpen(net, i) /\ Many(net[i].op) /\ d \in net[i].arg.todo
    /\ LET op == IF net[i].op = "bulkDelete" THEN "delete" ELSE "save"
           done(good) == LET arg == net[i].arg IN
                    [arg EXCEPT !.todo = @ \ {d},
                                !.rev[d] = IF good THEN server[d].rev + 1 ELSE @,
                                !.failed = IF good THEN @ ELSE @ \cup {d}]
           to(good) == [net EXCEPT ![i].arg = done(good),
                                   ![i].back = (done(good).todo = {})]
       IN  \/ /\ server[d].live
              /\ server' = Written(op, d)
              /\ net' = to(TRUE) /\ left' = left
           \/ /\ server[d].live /\ left.lost > 0
              /\ server' = Written(op, d)
              /\ net' = to(FALSE) /\ left' = [left EXCEPT !.lost = @ - 1]
           \/ /\ ~server[d].live
              /\ server' = server /\ net' = to(FALSE) /\ left' = left
           \/ /\ server[d].live /\ left.errors > 0
              /\ server' = server
              /\ net' = to(FALSE) /\ left' = [left EXCEPT !.errors = @ - 1]
    /\ UNCHANGED <<view, list, selected, panel, history, snapshot, bulk, own>>

\* apiFetch throws: the server refuses the call or cannot be reached.
Refuse(i) ==
    /\ IsOpen(net, i) /\ ~Many(net[i].op) /\ left.errors > 0
    /\ net' = ComeBack(net, i, Failure)
    /\ left' = [left EXCEPT !.errors = @ - 1]
    /\ UNCHANGED <<server, view, list, selected, panel, history, snapshot, bulk, own>>

\* Another user changes or deletes a document.
Elsewhere(d) ==
    /\ left.others > 0 /\ server[d].live
    /\ \E op \in {"save", "delete"} : server' = Written(op, d)
    /\ left' = [left EXCEPT !.others = @ - 1]
    /\ UNCHANGED <<net, view, list, selected, panel, history, snapshot, bulk, own>>

-----------------------------------------------------------------------------
(* What React does after a change of state *)

\* The effect on [page, ..., refreshTick] fetches the list anew.
Reloading(l) == [l EXCEPT !.loading = TRUE, !.error = FALSE]
History(n, d) == IF d = NoDoc THEN Cancel(n, "history") ELSE Rerun(n, "history", d)
\* Fault: a list already on its way is thought to be good enough.
Refreshed_OnePending(n, v, d) ==
    History(IF CallsOf(n, "list") # {} THEN n ELSE Send(n, "list", v), d)
Refreshed(n, v, d) == History(Rerun(n, "list", v), d)

\* The effects on [detail]: the editor and the snapshot are reset to the new
\* detail; the uploads chosen are dropped.
Showing(p, detail) == [p EXCEPT !.detail = detail, !.editing = FALSE, !.dirty = FALSE]
SnapshotAfter(s, detail) ==
    IF detail = NoDetail /\ panel.detail = NoDetail THEN s
    ELSE [s EXCEPT !.wanted = 0, !.of = NoDoc, !.number = 0]

\* The effect on [selectedDocId]. A detail still on its way is cancelled; without
\* a selection the detail goes, and the flag of the cancelled load stays as it is.
Selecting(n, d) ==
    IF d = NoDoc THEN Cancel(Cancel(n, "detail"), "history") ELSE Rerun(n, "detail", d)
PanelFor(p, d) ==
    IF d = NoDoc THEN [Showing(p, NoDetail) EXCEPT !.error = FALSE]
                 ELSE [p EXCEPT !.loading = TRUE, !.error = FALSE]
HistoryFor(h, d) == IF d = NoDoc THEN [h EXCEPT !.of = NoDoc] ELSE h
SnapshotFor(s, d) == IF d = NoDoc THEN SnapshotAfter(s, NoDetail) ELSE s

\* selectedDocId becomes d; nothing happens if it is d already.
SelectIn(n, p, d) ==
    /\ selected' = d
    /\ IF d = selected
       THEN net' = n /\ panel' = p /\ UNCHANGED <<history, snapshot>>
       ELSE /\ net' = Selecting(n, d)
            /\ panel' = PanelFor(p, d)
            /\ history' = HistoryFor(history, d)
            /\ snapshot' = SnapshotFor(snapshot, d)

-----------------------------------------------------------------------------
(* What the user may do *)

\* An action on documents is under way, and the panel says so.
Waiting == panel.busy \/ bulk.busy
Acts(op) == op \in left.ops /\ left.acts > 0
Leaves(op) == Acts(op) /\ ~(left.patient /\ (Waiting \/ snapshot.loading))
Spent == [left EXCEPT !.acts = @ - 1]

ListShown == ~list.loading /\ ~list.error /\ ~panel.open
Ids(items) == {x.id : x \in items}
TotalPages ==
    LET size == PageSize[view.filter]
        n == (list.total + size - 1) \div size
    IN  IF n = 0 THEN 1 ELSE n

\* The detail is on the screen, and its buttons are enabled.
DetailShown == panel.open /\ ~panel.loading /\ ~panel.error /\ panel.detail # NoDetail
CanAct == DetailShown /\ ~panel.busy

\* The tree, the filters, the presets and the page buttons are behind the modal.
CanChangeView == Leaves("view") /\ ~panel.open /\ HasRoom(net, 1)

ToView(v, chosen) ==
    /\ v # view
    /\ view' = v
    /\ net' = Rerun(net, "list", v)
    /\ list' = Reloading(list)
    /\ bulk' = [bulk EXCEPT !.chosen = chosen]
    /\ left' = Spent
    /\ UNCHANGED <<server, selected, panel, history, snapshot, own>>

\* A category, year or month, a search, a sort order or a preset: page 1 of it.
ChangeFilter(f) ==
    CanChangeView /\ f # view.filter /\ ToView([filter |-> f, page |-> 1], bulk.chosen)

\* The reset button also clears the choice.
ClearFilters ==
    CanChangeView /\ ToView([filter |-> NoFilter, page |-> 1], {})

\* The buttons below the list stay within the total the list last had.
TurnPage(p) ==
    /\ CanChangeView
    /\ p >= 1 /\ p \in {view.page - 1, view.page + 1}
    /\ p > view.page => p <= TotalPages
    /\ ToView([view EXCEPT !.page = p], bulk.chosen)

\* A click on a row selects it and opens the modal; the arrow keys only select,
\* Enter opens.
Open(d) ==
    /\ Leaves("open") /\ ListShown /\ d \in Ids(list.items)
    /\ HasRoom(net, 1)
    /\ SelectIn(net, [panel EXCEPT !.open = TRUE], d)
    /\ left' = Spent
    /\ UNCHANGED <<server, view, list, bulk, own>>

ArrowKey(d) ==
    /\ Leaves("arrow") /\ ~list.loading /\ ~panel.open
    /\ d \in Ids(list.items) /\ d # selected
    /\ HasRoom(net, 1)
    /\ SelectIn(net, panel, d)
    /\ left' = Spent
    /\ UNCHANGED <<server, view, list, bulk, own>>

CloseModal ==
    /\ Leaves("open") /\ panel.open
    /\ panel' = [panel EXCEPT !.open = FALSE]
    /\ left' = Spent
    /\ UNCHANGED <<net, server, view, list, selected, history, snapshot, bulk, own>>

\* A handler of the modal starts: its call is sent, the messages are cleared.
Ask(op) ==
    /\ Acts(op) /\ CanAct /\ HasRoom(net, 1)
    /\ op \in {"save"} => panel.editing
    /\ net' = Send(net, op, panel.detail.id)
    /\ panel' = [panel EXCEPT !.busy = TRUE, !.error = FALSE]
    /\ left' = Spent
    /\ UNCHANGED <<server, view, list, selected, history, snapshot, bulk, own>>

\* The user switches to the editor and changes a field; or gives it up.
Edit ==
    /\ Acts("save") /\ CanAct /\ ~panel.dirty
    /\ panel' = [panel EXCEPT !.editing = TRUE, !.dirty = TRUE]
    /\ left' = Spent
    /\ UNCHANGED <<net, server, view, list, selected, history, snapshot, bulk, own>>

ResetEditor ==
    /\ Acts("save") /\ CanAct /\ panel.editing
    /\ panel' = [panel EXCEPT !.editing = FALSE, !.dirty = FALSE]
    /\ left' = Spent
    /\ UNCHANGED <<net, server, view, list, selected, history, snapshot, bulk, own>>

\* Nothing cancels the load of a snapshot.
LoadSnapshot(n) ==
    /\ Acts("snapshot") /\ DetailShown /\ n \in 1 .. panel.detail.rev /\ HasRoom(net, 1)
    /\ ~(left.patient /\ snapshot.loading)
    /\ net' = Send(net, "snapshot", [id |-> panel.detail.id, number |-> n])
    /\ snapshot' = [snapshot EXCEPT !.loading = TRUE, !.wanted = n]
    /\ left' = Spent
    /\ UNCHANGED <<server, view, list, selected, panel, history, bulk, own>>

\* The check boxes of the rows and of the header, and the button that clears them.
Choose(S) ==
    /\ Acts("bulk") /\ ListShown /\ ~bulk.busy
    /\ \/ S = Ids(list.items)
       \/ S = {}
       \/ \E d \in Ids(list.items) : S \in {bulk.chosen \cup {d}, bulk.chosen \ {d}}
    /\ S # bulk.chosen
    /\ bulk' = [bulk EXCEPT !.chosen = S]
    /\ left' = Spent
    /\ UNCHANGED <<net, server, view, list, selected, panel, history, snapshot, own>>

\* The bulk buttons send one call for each chosen document and remember the
\* document selected at the click.
AskBulk(op) ==
    /\ Acts("bulk") /\ ~panel.open /\ ~bulk.busy /\ bulk.chosen # {} /\ HasRoom(net, 1)
    /\ left.patient => ~list.loading
    /\ net' = Send(net, op, [targets |-> bulk.chosen, todo |-> bulk.chosen, failed |-> {},
                             rev |-> [d \in Docs |-> 0], selected |-> selected])
    /\ bulk' = [bulk EXCEPT !.busy = TRUE]
    /\ left' = Spent
    /\ UNCHANGED <<server, view, list, selected, panel, history, snapshot, own>>

\* The Delete key asks for the selected row. It does not look at the busy flag.
DeleteKey ==
    /\ Leaves("deleteKey") /\ ~panel.open /\ ~list.loading
    /\ selected \in Ids(list.items) /\ HasRoom(net, 1)
    /\ net' = Send(net, "deleteKey", selected)
    /\ bulk' = [bulk EXCEPT !.busy = TRUE]
    /\ left' = Spent
    /\ UNCHANGED <<server, view, list, selected, panel, history, snapshot, own>>

-----------------------------------------------------------------------------
(* What comes back *)

\* A cancelled continuation does nothing.
Late(i) ==
    /\ IsBack(net, i) /\ net[i].op \in {"list", "detail", "history"} /\ ~net[i].live
    /\ net' = Settle(net, i)
    /\ UNCHANGED <<server, view, list, selected, panel, history, snapshot, bulk, own, left>>

\* Fault: the choice outlives the page it was made on.
KeptChoice_All(items) == bulk.chosen
KeptChoice(items) == bulk.chosen \cap Ids(items)

\* The list keeps the selection and the choice as far as they are still listed.
OnList(i) ==
    /\ IsBack(net, i) /\ net[i].op = "list" /\ net[i].live
    /\ LET out == net[i].out
           items == IF out.ok THEN out.body.items ELSE {}
       IN  /\ list' = [items |-> items, total |-> IF out.ok THEN out.body.total ELSE 0,
                       loading |-> FALSE, error |-> ~out.ok, of |-> net[i].arg]
           /\ bulk' = [bulk EXCEPT !.chosen = KeptChoice(items)]
           /\ SelectIn(Settle(net, i), panel, IF selected \in Ids(items) THEN selected ELSE NoDoc)
    /\ UNCHANGED <<server, view, own, left>>

OnDetail(i) ==
    /\ IsBack(net, i) /\ net[i].op = "detail" /\ net[i].live
    /\ LET out == net[i].out
           detail == IF out.ok THEN out.body ELSE NoDetail
           n == Settle(net, i)
       IN  /\ panel' = [Showing(panel, detail) EXCEPT !.loading = FALSE, !.error = ~out.ok]
           /\ snapshot' = SnapshotAfter(snapshot, detail)
           /\ IF detail.id = panel.detail.id THEN net' = n /\ UNCHANGED history
              ELSE IF detail = NoDetail
              THEN net' = Cancel(n, "history") /\ UNCHANGED history
              ELSE /\ net' = Rerun(n, "history", detail.id)
                   /\ history' = [history EXCEPT !.loading = TRUE]
    /\ UNCHANGED <<server, view, list, selected, bulk, own, left>>

OnHistory(i) ==
    /\ IsBack(net, i) /\ net[i].op = "history" /\ net[i].live
    /\ net' = Settle(net, i)
    /\ history' = [loading |-> FALSE, of |-> IF net[i].out.ok THEN net[i].arg ELSE NoDoc]
    /\ UNCHANGED <<server, view, list, selected, panel, snapshot, bulk, own, left>>

OnSnapshot(i) ==
    /\ IsBack(net, i) /\ net[i].op = "snapshot"
    /\ net' = Settle(net, i)
    /\ LET out == net[i].out IN
       snapshot' = [snapshot EXCEPT !.loading = FALSE,
                                    !.of = IF out.ok THEN out.body.id ELSE NoDoc,
                                    !.number = IF out.ok THEN out.body.number ELSE 0]
    /\ UNCHANGED <<server, view, list, selected, panel, history, bulk, own, left>>

\* A handler of the modal whose call failed.
Fails(i) ==
    /\ IsBack(net, i) /\ ~net[i].out.ok
    /\ net[i].op \in {"save", "files", "resolve", "reload", "delete"}
    /\ net' = Settle(net, i)
    /\ panel' = [panel EXCEPT !.busy = FALSE, !.error = TRUE]
    /\ UNCHANGED <<server, view, list, selected, history, snapshot, bulk, own, left>>

Done(d, rev) == [own EXCEPT ![d].rev = IF @ < rev THEN rev ELSE @]

\* Saving, and adding, replacing or deleting files: the answer is the new detail,
\* whatever is selected by now; the list and the history are fetched anew.
OnChanged(i) ==
    /\ IsBack(net, i) /\ net[i].out.ok /\ net[i].op \in {"save", "files", "reload"}
    /\ HasRoom(Settle(net, i), 2)
    /\ LET detail == net[i].out.body IN
       /\ net' = Refreshed(Settle(net, i), view, detail.id)
       /\ panel' = [Showing(panel, detail) EXCEPT !.busy = FALSE]
       /\ own' = Done(detail.id, detail.rev)
       /\ snapshot' = SnapshotAfter(snapshot, detail)
    /\ history' = [history EXCEPT !.loading = TRUE]
    /\ list' = Reloading(list)
    /\ UNCHANGED <<server, view, selected, bulk, left>>

\* Resolving the review fetches the detail before it goes on; if that fails, the
\* page reports a failure and does not refresh its list.
OnResolved(i) ==
    /\ IsBack(net, i) /\ net[i].out.ok /\ net[i].op = "resolve"
    /\ net' = Send(Settle(net, i), "reload", net[i].arg)
    /\ UNCHANGED <<server, view, list, selected, panel, history, snapshot, bulk, own, left>>

\* A document is gone: the selection and the detail are dropped, whichever they
\* are by now, and the list is fetched anew.
Dropped(n, p) ==
    /\ net' = Refreshed(Cancel(n, "detail"), view, NoDoc)
    /\ selected' = NoDoc
    /\ panel' = IF selected = NoDoc THEN Showing(p, NoDetail)
                ELSE [Showing(p, NoDetail) EXCEPT !.error = FALSE]
    /\ history' = IF selected = NoDoc THEN history ELSE [history EXCEPT !.of = NoDoc]
    /\ snapshot' = SnapshotAfter(snapshot, NoDetail)
    /\ list' = Reloading(list)

OnDeleted(i) ==
    /\ IsBack(net, i) /\ net[i].out.ok /\ net[i].op = "delete"
    /\ Dropped(Settle(net, i), [panel EXCEPT !.open = FALSE, !.busy = FALSE])
    /\ own' = [own EXCEPT ![net[i].arg].gone = TRUE]
    /\ UNCHANGED <<server, view, bulk, left>>

OnDeleteKey(i) ==
    /\ IsBack(net, i) /\ net[i].op = "deleteKey" /\ HasRoom(Settle(net, i), 2)
    /\ IF net[i].out.ok
       THEN /\ IF selected # NoDoc THEN Dropped(Settle(net, i), panel)
               ELSE /\ net' = Refreshed(Settle(net, i), view, panel.detail.id)
                    /\ list' = Reloading(list)
                    /\ UNCHANGED <<selected, panel, history, snapshot>>
            /\ bulk' = [chosen |-> bulk.chosen \ {net[i].arg}, busy |-> FALSE]
            /\ own' = [own EXCEPT ![net[i].arg].gone = TRUE]
       ELSE /\ net' = Settle(net, i)
            /\ bulk' = [bulk EXCEPT !.busy = FALSE]
            /\ UNCHANGED <<list, selected, panel, history, snapshot, own>>
    /\ UNCHANGED <<server, view, left>>

\* All calls of a bulk action have settled: what failed stays chosen. A bulk
\* delete closes the modal if it took the document selected at its click.
OnBulk(i) ==
    /\ IsBack(net, i) /\ Many(net[i].op)
    /\ HasRoom(Settle(net, i), 2)
    /\ LET arg == net[i].arg
           good == arg.targets \ arg.failed
           n == Settle(net, i)
       IN  /\ bulk' = [chosen |-> arg.failed, busy |-> FALSE]
           /\ own' = [d \in Docs |->
                        IF d \notin good THEN own[d]
                        ELSE IF net[i].op = "bulkDelete" THEN [own[d] EXCEPT !.gone = TRUE]
                        ELSE Done(d, arg.rev[d])[d]]
           /\ CASE good = {} ->
                     net' = n /\ UNCHANGED <<list, selected, panel, history, snapshot>>
                [] good # {} /\ net[i].op = "bulkDelete" /\ arg.selected \in good ->
                     Dropped(n, [panel EXCEPT !.open = FALSE])
                [] OTHER ->
                     /\ net' = Refreshed(n, view, panel.detail.id)
                     /\ list' = Reloading(list)
                     /\ history' = IF panel.detail = NoDetail THEN history
                                   ELSE [history EXCEPT !.loading = TRUE]
                     /\ UNCHANGED <<selected, panel, snapshot>>
    /\ UNCHANGED <<server, view, left>>

-----------------------------------------------------------------------------
Init ==
    /\ server = [d \in Docs |-> [live |-> TRUE, rev |-> 1]]
    /\ left \in Settings
    /\ view \in [filter : Filters, page : 1 .. 2]
    /\ net = Send([i \in Slots |-> NoCall], "list", view)
    /\ list = [items |-> {}, total |-> 0, loading |-> TRUE, error |-> FALSE, of |-> view]
    /\ selected = NoDoc
    /\ panel = [open |-> FALSE, detail |-> NoDetail, loading |-> FALSE, error |-> FALSE,
                editing |-> FALSE, dirty |-> FALSE, busy |-> FALSE]
    /\ history = [of |-> NoDoc, loading |-> FALSE]
    /\ snapshot = [wanted |-> 0, of |-> NoDoc, number |-> 0, loading |-> FALSE]
    /\ bulk = [chosen |-> {}, busy |-> FALSE]
    /\ own = [d \in Docs |-> [rev |-> 1, gone |-> FALSE]]

User ==
    \/ \E f \in Filters : ChangeFilter(f)
    \/ ClearFilters
    \/ \E p \in 1 .. Cardinality(Docs) : TurnPage(p)
    \/ \E d \in Docs : Open(d) \/ ArrowKey(d)
    \/ CloseModal
    \/ \E op \in {"save", "files", "resolve", "delete"} : Ask(op)
    \/ Edit
    \/ ResetEditor
    \/ \E n \in 1 .. panel.detail.rev : LoadSnapshot(n)
    \/ \E S \in SUBSET Docs : Choose(S)
    \/ \E op \in {"bulkDelete", "bulkReview"} : AskBulk(op)
    \/ DeleteKey

Answered(i) ==
    \/ Late(i) \/ OnList(i) \/ OnDetail(i) \/ OnHistory(i) \/ OnSnapshot(i)
    \/ Fails(i) \/ OnChanged(i) \/ OnResolved(i) \/ OnDeleted(i) \/ OnDeleteKey(i)
    \/ OnBulk(i)

Served(i) == Serve(i) \/ Refuse(i) \/ \E d \in Docs : ServeOne(i, d)

Next ==
    \/ User
    \/ \E i \in Slots : Served(i) \/ Answered(i)
    \/ \E d \in Docs : Elsewhere(d)

Spec == Init /\ [][Next]_vars

\* Every call ends, by an answer or an error, and its handler goes on.
Fairness ==
    WF_vars(\E i \in Slots : Served(i)) /\ WF_vars(\E i \in Slots : Answered(i))

FairSpec == Spec /\ Fairness

-----------------------------------------------------------------------------
(* Properties *)

TypeOK ==
    /\ server \in [Docs -> [live : BOOLEAN, rev : Nat]]
    /\ view \in Views
    /\ list.items \subseteq Item /\ list.total \in Nat /\ list.of \in Views
    /\ list.loading \in BOOLEAN /\ list.error \in BOOLEAN
    /\ selected \in Docs \cup {NoDoc}
    /\ panel.detail \in Item \cup {NoDetail}
    /\ bulk.chosen \subseteq Docs /\ bulk.busy \in BOOLEAN

\* What is on the screen answers what was asked last: the list its filters and
\* page, the history the document shown; and, if the user has left the selection
\* alone while an action was under way, the detail and the snapshot are of the
\* selected document. Answers arrive in any order (the `cancelled` flags).
ShowsWhatWasAsked ==
    /\ ~list.loading => list.of = view
    /\ DetailShown /\ ~history.loading => history.of \in {NoDoc, panel.detail.id}
    /\ left.patient /\ DetailShown /\ selected # NoDoc =>
          panel.detail.id = selected /\ snapshot.of \in {NoDoc, selected}

\* Whenever the page shows a list, it shows everything the page says it has done:
\* a document it has deleted is not listed, and one it has changed is not listed as
\* it was before (every handler bumps refreshTick; a list fetched before the
\* change must not stay).
OwnChangesShown ==
    ~list.loading =>
        \A x \in list.items : ~own[x.id].gone /\ x.rev >= own[x.id].rev

\* The bulk buttons act on rows the user sees: what is chosen is listed on the
\* page shown, also after a bulk action that failed in part. It needs a user who
\* does not turn the page during a bulk action: the failed ones then stay chosen
\* on a page that does not list them.
ChosenIsListed ==
    left.patient /\ ~list.loading => bulk.chosen \subseteq Ids(list.items)

\* No spinner stays: the list, the detail of a selected document and the buttons
\* come back whatever order the answers have, and whichever fail.
PageSettles ==
    /\ list.loading ~> ~list.loading
    /\ Waiting ~> ~Waiting
    /\ (panel.loading /\ selected # NoDoc) ~> (~panel.loading \/ selected = NoDoc)
=============================================================================
