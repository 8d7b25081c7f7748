----------------------------- MODULE DocumentPage -----------------------------
(* The page of one document (app/(main)/documents/[id]/page.tsx): the document    *)
(* and its versions, an editor that saves it as a whole, the upload of files, the   *)
(* difference of two versions, a snapshot of one, and its comments                  *)
(* (components/documents/DocumentCommentsPanel.tsx). The list of categories that     *)
(* the editor offers is left out.                                                   *)
EXTENDS Page, SequencesExt

CONSTANTS
    DocTexts        \* what the editor and a comment can say

\* The server: every version of the document (the last one is the document), which
\* of them this page made last, whether it is deleted, and the comments.
DocumentDb(n) ==
    [versions |-> [v \in 1 .. n |-> [text |-> CHOOSE t \in DocTexts : TRUE, files |-> 0]],
     own |-> 0, deleted |-> FALSE, comments |-> <<>>, next |-> 1]

DocDetail == [text |-> Last(db.versions).text, files |-> Last(db.versions).files,
              versions |-> Len(db.versions)]

NewVersion(v) == [db EXCEPT !.versions = Append(@, v), !.own = Len(db.versions) + 1]

But(comments, id) == Keeping(comments, {c \in ToSet(comments) : c.id # id})

DocFound(op, arg) ==
    /\ ~db.deleted
    /\ op \in {"editComment", "removeComment"} =>
          \E k \in DOMAIN db.comments : db.comments[k].id = arg.id

DocBody(op, arg) ==
    CASE op = "detail" -> DocDetail
      [] op = "diff" -> arg
      [] op = "snapshot" -> arg
      [] op = "save" -> [DocDetail EXCEPT !.text = arg, !.versions = @ + 1]
      [] op = "addFiles" -> [DocDetail EXCEPT !.files = @ + 1, !.versions = @ + 1]
      [] op = "comments" -> db.comments
      [] op = "addComment" -> [id |-> db.next, text |-> arg]
      [] OTHER -> arg

DocAfter(op, arg) ==
    CASE op = "save" -> NewVersion([Last(db.versions) EXCEPT !.text = arg])
      [] op = "addFiles" -> NewVersion([Last(db.versions) EXCEPT !.files = @ + 1])
      [] op = "delete" -> [db EXCEPT !.deleted = TRUE]
      [] op = "addComment" ->
           [db EXCEPT !.comments = Append(@, [id |-> db.next, text |-> arg]), !.next = @ + 1]
      [] op = "editComment" ->
           [db EXCEPT !.comments = [k \in DOMAIN @ |-> IF @[k].id = arg.id THEN arg ELSE @[k]]]
      [] op = "removeComment" -> [db EXCEPT !.comments = But(@, arg.id)]
      [] OTHER -> db

-----------------------------------------------------------------------------
MountDocument(n) ==
    /\ net = Send(NoCalls, "detail", None)
    /\ db = DocumentDb(n)
    /\ ui = [page |-> "document", detail |-> None, loading |-> TRUE, mode |-> "view",
             edit |-> None, files |-> FALSE, busy |-> FALSE,
             from |-> 1, to |-> 1, diff |-> None, diffLoading |-> FALSE,
             snapshot |-> None, selected |-> None,
             comments |-> <<>>, sending |-> FALSE, editing |-> None]

\* Fault: the effect on the versions to compare returns no clean-up.
LoadDiff_NoCancel(n, from, to) == IF from > to THEN n ELSE Send(n, "diff", <<from, to>>)

\* The effect on the versions to compare.
LoadDiff(n, from, to) ==
    IF from > to THEN Cancel(n, "diff") ELSE Rerun(n, "diff", <<from, to>>)

\* A load that is cancelled leaves the flag as it is.
Comparing(u, from, to) ==
    IF from > to THEN [u EXCEPT !.from = from, !.to = to, !.diff = None]
    ELSE [u EXCEPT !.from = from, !.to = to, !.diffLoading = TRUE]

\* The effect on the document: the editor, the files to upload and the snapshot are
\* reset, the last two versions compared. (Of the two loads this sends, the one for
\* the versions compared before is cancelled at once; it is left out.)
Before(d) == IF d.versions = 1 THEN 1 ELSE d.versions - 1
Showing(u, d) ==
    Comparing([u EXCEPT !.detail = d, !.edit = d.text, !.files = FALSE,
                        !.snapshot = None, !.selected = None], Before(d), d.versions)
LoadFor(n, d) == LoadDiff(n, Before(d), d.versions)

OnDocument(n) == ui.page = "document" /\ Acts(n) /\ ui.detail # None

\* Fault: a second action can be started while the first one is under way.
CanAct_Busy == ~ui.loading

\* One flag for saving, uploading and deleting.
CanAct == ~ui.loading /\ ~ui.busy

-----------------------------------------------------------------------------
(* The user *)

StartEdit ==
    /\ OnDocument(0) /\ CanAct /\ ui.mode = "view"
    /\ ui' = [ui EXCEPT !.mode = "edit"]
    /\ left' = Spent /\ UNCHANGED <<net, db>>

Type(t) ==
    /\ OnDocument(0) /\ ui.mode = "edit" /\ t # ui.edit
    /\ ui' = [ui EXCEPT !.edit = t]
    /\ left' = Spent /\ UNCHANGED <<net, db>>

ResetEdit ==
    /\ OnDocument(0) /\ CanAct /\ ui.mode = "edit"
    /\ ui' = [ui EXCEPT !.mode = "view", !.edit = ui.detail.text]
    /\ left' = Spent /\ UNCHANGED <<net, db>>

StartCall(op, arg) ==
    /\ CanAct
    /\ net' = Send(net, op, arg)
    /\ ui' = [ui EXCEPT !.busy = TRUE]
    /\ left' = Spent /\ UNCHANGED db

SaveDocument == OnDocument(1) /\ ui.mode = "edit" /\ StartCall("save", ui.edit)
DeleteDocument == OnDocument(1) /\ StartCall("delete", None)
AddFiles == OnDocument(1) /\ ui.files /\ StartCall("addFiles", None)

PickFiles ==
    /\ OnDocument(0) /\ ~ui.files
    /\ ui' = [ui EXCEPT !.files = TRUE]
    /\ left' = Spent /\ UNCHANGED <<net, db>>

Compare(from, to) ==
    /\ OnDocument(1) /\ {from, to} \subseteq 1 .. ui.detail.versions
    /\ <<from, to>> # <<ui.from, ui.to>> /\ (from = ui.from \/ to = ui.to)
    /\ net' = LoadDiff(net, from, to)
    /\ ui' = Comparing(ui, from, to)
    /\ left' = Spent /\ UNCHANGED db

\* Nothing cancels the load of a snapshot.
LoadSnapshot(v) ==
    /\ OnDocument(1) /\ v \in 1 .. ui.detail.versions
    /\ net' = Send(net, "snapshot", v)
    /\ ui' = [ui EXCEPT !.selected = v]
    /\ left' = Spent /\ UNCHANGED db

\* One flag for creating, changing and removing a comment; loading them has none.
SendComment(op, arg) ==
    /\ OnDocument(1) /\ ~ui.sending
    /\ net' = Send(net, op, arg)
    /\ ui' = [ui EXCEPT !.sending = TRUE]
    /\ left' = Spent /\ UNCHANGED db

CreateComment(t) == SendComment("addComment", t)
RemoveComment(c) == SendComment("removeComment", c)
EditComment(c, t) == ui.editing = c.id /\ SendComment("editComment", [c EXCEPT !.text = t])

StartEditComment(c) ==
    /\ OnDocument(0) /\ ~ui.sending
    /\ ui' = [ui EXCEPT !.editing = IF @ = c.id THEN None ELSE c.id]
    /\ left' = Spent /\ UNCHANGED <<net, db>>

\* Somebody else changes the document.
ChangedElsewhere(t) ==
    /\ ui.page = "document" /\ left.others > 0 /\ ~db.deleted
    /\ db' = [db EXCEPT !.versions = Append(@, [Last(@) EXCEPT !.text = t])]
    /\ left' = [left EXCEPT !.others = @ - 1]
    /\ UNCHANGED <<net, ui>>

-----------------------------------------------------------------------------
(* What comes back *)

\* The panel with the comments is there once the document is, and loads them.
OnDetail(i) ==
    /\ Back(i, "detail")
    /\ LET out == net[i].out IN
       IF out.ok
       THEN /\ net' = Send(LoadFor(Settle(net, i), out.body), "comments", None)
            /\ ui' = [Showing(ui, out.body) EXCEPT !.loading = FALSE]
       ELSE net' = Settle(net, i) /\ ui' = [ui EXCEPT !.loading = FALSE]
    /\ UNCHANGED <<db, left>>

\* The document as the server has it now. A save ends the edit mode; an upload does
\* not, yet what was typed is gone.
OnWritten(i) ==
    /\ Good(i, "save") \/ Good(i, "addFiles")
    /\ LET d == net[i].out.body IN
       /\ net' = LoadFor(Settle(net, i), d)
       /\ ui' = [Showing(ui, d) EXCEPT !.busy = FALSE,
                                       !.mode = IF net[i].op = "save" THEN "view" ELSE @]
    /\ UNCHANGED <<db, left>>

OnDocDeleted(i) ==
    /\ Good(i, "delete")
    /\ net' = Settle(net, i)
    /\ ui' = [ui EXCEPT !.page = "gone"]
    /\ UNCHANGED <<db, left>>

DocActionFails(i) ==
    /\ Bad(i, "save") \/ Bad(i, "addFiles") \/ Bad(i, "delete")
    /\ net' = Settle(net, i)
    /\ ui' = [ui EXCEPT !.busy = FALSE]
    /\ UNCHANGED <<db, left>>

OnDiff(i) ==
    /\ Back(i, "diff") /\ net[i].live
    /\ net' = Settle(net, i)
    /\ ui' = [ui EXCEPT !.diffLoading = FALSE,
                        !.diff = IF net[i].out.ok THEN net[i].out.body ELSE None]
    /\ UNCHANGED <<db, left>>

OnSnapshot(i) ==
    /\ Back(i, "snapshot")
    /\ net' = Settle(net, i)
    /\ ui' = [ui EXCEPT !.snapshot = IF net[i].out.ok THEN net[i].out.body ELSE None]
    /\ UNCHANGED <<db, left>>

OnComments(i) ==
    /\ Back(i, "comments")
    /\ net' = Settle(net, i)
    /\ ui' = [ui EXCEPT !.comments = IF net[i].out.ok THEN net[i].out.body ELSE <<>>]
    /\ UNCHANGED <<db, left>>

\* The list is patched with the answer, whatever it is by now.
OnCommentWritten(i) ==
    /\ Good(i, "addComment") \/ Good(i, "editComment") \/ Good(i, "removeComment")
    /\ net' = Settle(net, i)
    /\ LET op == net[i].op
           c == net[i].out.body IN
       ui' = [ui EXCEPT !.sending = FALSE,
                 !.comments = IF op = "addComment" THEN Append(@, c)
                              ELSE IF op = "removeComment" THEN But(@, c.id)
                              ELSE [k \in DOMAIN @ |-> IF @[k].id = c.id THEN c ELSE @[k]],
                 !.editing = IF op # "addComment" /\ (op = "editComment" \/ @ = c.id)
                             THEN None ELSE @]
    /\ UNCHANGED <<db, left>>

CommentFails(i) ==
    /\ Bad(i, "addComment") \/ Bad(i, "editComment") \/ Bad(i, "removeComment")
    /\ net' = Settle(net, i)
    /\ ui' = [ui EXCEPT !.sending = FALSE]
    /\ UNCHANGED <<db, left>>

-----------------------------------------------------------------------------
DocumentUser ==
    \/ StartEdit \/ ResetEdit \/ SaveDocument \/ DeleteDocument \/ PickFiles \/ AddFiles
    \/ \E t \in DocTexts : Type(t) \/ CreateComment(t)
    \/ \E v, w \in 1 .. Len(db.versions) : Compare(v, w) \/ (v = w /\ LoadSnapshot(v))
    \/ \E c \in ToSet(ui.comments) :
          \/ RemoveComment(c) \/ StartEditComment(c)
          \/ \E t \in DocTexts : EditComment(c, t)

DocumentAnswered(i) ==
    \/ OnDetail(i) \/ OnWritten(i) \/ OnDocDeleted(i) \/ DocActionFails(i) \/ OnDiff(i)
    \/ OnSnapshot(i) \/ OnComments(i) \/ OnCommentWritten(i) \/ CommentFails(i)

DocServed(i) ==
    LET op == net[i].op
        arg == net[i].arg
    IN  Serve(i, DocFound(op, arg), DocBody(op, arg), DocAfter(op, arg))

DocumentNext ==
    \/ /\ ui.page = "document"
       /\ \/ DocumentUser
          \/ \E t \in DocTexts : ChangedElsewhere(t)
          \/ \E i \in Slots :
                DocServed(i) \/ Refuse(i) \/ Late(i) \/ DocumentAnswered(i)

-----------------------------------------------------------------------------
(* Properties *)

\* The page shows what is so, and what was asked for. When nothing is under way its
\* document is no older than what it has itself saved or uploaded to, whatever the
\* order of the answers and whoever else changes it: the next save, which posts the
\* whole form, does not undo the last. The difference shown is that of the two
\* versions chosen, of the document as it is shown, however quickly they are changed:
\* a load is cancelled by the next. For a user who waits, the snapshot is of the
\* version he clicked and the comments are the document's own, each once: neither
\* load is ever cancelled.
ShownAsAsked ==
    ui.page = "document" =>
        /\ Quiet /\ ui.detail # None => ui.detail.versions >= db.own
        /\ ui.diff # None /\ ~ui.diffLoading => ui.diff = <<ui.from, ui.to>>
        /\ left.patient /\ Quiet =>
              /\ ui.snapshot \in {None, ui.selected}
              /\ ui.comments # <<>> => IsInjective(ui.comments)
                                      /\ \A c \in ToSet(ui.comments) : c \in ToSet(db.comments)
=============================================================================
