---------------------------- MODULE MediaWorkspace ----------------------------
(* The media gallery (components/media/MediaWorkspace.tsx): the posts that have   *)
(* an image or a video, found by reading the pages of the document list one after  *)
(* the other, a form that makes a post and attaches its files in two requests, and  *)
(* a window that shows, changes or deletes a post. No load is ever cancelled.       *)
EXTENDS Page, SequencesExt

CONSTANTS
    PageSize,       \* posts of a page of the document list, and of a batch shown
    ScanPages,      \* pages read for one batch (SCAN_PAGES_PER_BATCH)
    MaxPosts        \* posts that can be made

\* A post has media to show or not; those made by this page are marked.
Post(id, media, mine) == [id |-> id, media |-> media, mine |-> mine]

MediaDb(kinds) ==
    [posts |-> [n \in DOMAIN kinds |-> Post(n, kinds[n], FALSE)], next |-> Len(kinds) + 1]

Ids(posts) == [n \in DOMAIN posts |-> posts[n].id]
Has(posts, id) == \E n \in DOMAIN posts : posts[n].id = id
PlaceOf(posts, id) == CHOOSE n \in DOMAIN posts : posts[n].id = id
Without(posts, id) == IF Has(posts, id) THEN RemoveAt(posts, PlaceOf(posts, id)) ELSE posts

AtMost(s, n) == SubSeq(s, 1, IF Len(s) < n THEN Len(s) ELSE n)

\* toMediaCardItem: a post without an image or a video has no card.
Cards(posts) == Ids(SelectSeq(posts, LAMBDA p : p.media))
PageOfPosts(posts, n) == AtMost(SubSeq(posts, (n - 1) * PageSize + 1, Len(posts)), PageSize)

MediaFound(op, arg) ==
    op \in {"post", "patch", "delete", "attach", "rollback"} => Has(db.posts, arg.id)

MediaBody(op, arg) ==
    CASE op = "page" -> [items |-> Cards(PageOfPosts(db.posts, arg.cursor)),
                         pages |-> (Len(db.posts) + PageSize - 1) \div PageSize]
      [] op = "make" -> db.next
      [] OTHER -> arg

\* A new post, and one whose date is changed, is the latest of the list. (Every file
\* attached can be shown: of one accepted by its type alone, without the extension,
\* the gallery makes no card.)
MediaAfter(op, arg) ==
    CASE op = "make" -> [db EXCEPT !.posts = <<Post(db.next, FALSE, TRUE)>> \o @,
                                   !.next = @ + 1]
      [] op = "attach" -> [db EXCEPT !.posts =
                              [n \in DOMAIN @ |-> IF @[n].id = arg.id
                                                  THEN [@[n] EXCEPT !.media = TRUE] ELSE @[n]]]
      [] op = "patch" -> [db EXCEPT !.posts =
                              <<@[PlaceOf(@, arg.id)]>> \o Without(@, arg.id)]
      [] op \in {"delete", "rollback"} -> [db EXCEPT !.posts = Without(@, arg.id)]
      [] OTHER -> db

-----------------------------------------------------------------------------
(* The batches of the gallery *)

\* uniqueById: of the cards of one post the first is kept.
UniqueById(s) ==
    LET first == {n \in DOMAIN s : \A m \in 1 .. n - 1 : s[m] # s[n]}
    IN  [k \in 1 .. Cardinality(first) |->
            s[CHOOSE n \in first : Cardinality({m \in first : m <= n}) = k]]

\* loadMediaBatch; of: the action that awaits it.
BeginBatch(u, reset) ==
    IF reset THEN [u EXCEPT !.loadingInitial = TRUE] ELSE [u EXCEPT !.loadingMore = TRUE]
SendBatch(n, reset, start, of) ==
    Send(n, "page", [reset |-> reset, cursor |-> start, got |-> <<>>, read |-> 0,
                     pages |-> None, of |-> of])

EndBatch(u, reset) ==
    IF reset THEN [u EXCEPT !.loadingInitial = FALSE] ELSE [u EXCEPT !.loadingMore = FALSE]

\* The batch is complete: it replaces the list or is added to it.
ShowBatch(u, b) ==
    LET shown == AtMost(UniqueById(b.got), PageSize)
    IN  [u EXCEPT !.items = IF b.reset THEN shown ELSE UniqueById(@ \o shown),
                  !.nextPage = b.cursor,
                  !.hasMore = b.cursor <= b.pages /\ b.pages > 0]

\* The action that awaited the batch ends.
Ended(u, of) ==
    CASE of = "submit" -> [u EXCEPT !.submitting = FALSE, !.progress = "done", !.hide = TRUE]
      [] of \in {"patch", "delete"} -> [u EXCEPT !.busy = FALSE]
      [] OTHER -> u

-----------------------------------------------------------------------------
\* bootstrap: who the user is, then the first batch.
MountMedia(kinds) ==
    /\ db = MediaDb(kinds)
    /\ net = Send(NoCalls, "me", TRUE)
    /\ ui = [page |-> "media", canUpload |-> FALSE, items |-> <<>>, loadingInitial |-> TRUE,
             loadingMore |-> FALSE, nextPage |-> 1, hasMore |-> TRUE, submitting |-> FALSE,
             progress |-> "none", hide |-> FALSE, modal |-> FALSE, detail |-> None,
             detailLoading |-> FALSE, edit |-> FALSE, busy |-> FALSE]

\* A window that is open covers the page. Its buttons come with the document; that a
\* message of failure takes their place is left out.
OnGallery(n) == ui.page = "media" /\ Acts(n) /\ ~ui.modal
InWindow(n) ==
    /\ ui.page = "media" /\ Acts(n) /\ ui.modal
    /\ ~ui.detailLoading /\ ui.detail # None

\* submit: the post is made first, its files are attached then. The bar appears.
SubmitMedia ==
    /\ OnGallery(1) /\ ui.canUpload /\ ~ui.submitting /\ db.next <= MaxPosts
    /\ net' = Send(net, "make", TRUE)
    /\ ui' = [ui EXCEPT !.submitting = TRUE, !.progress = "going", !.hide = FALSE]
    /\ left' = Spent /\ UNCHANGED db

RefreshGallery ==
    /\ OnGallery(1) /\ ~ui.loadingInitial /\ ~ui.loadingMore
    /\ net' = SendBatch(net, TRUE, 1, None)
    /\ ui' = BeginBatch(ui, TRUE)
    /\ left' = Spent /\ UNCHANGED db

LoadMore ==
    /\ OnGallery(1) /\ ui.hasMore /\ ~ui.loadingInitial /\ ~ui.loadingMore
    /\ net' = SendBatch(net, FALSE, ui.nextPage, None)
    /\ ui' = BeginBatch(ui, FALSE)
    /\ left' = Spent /\ UNCHANGED db

OpenDetail(p) ==
    /\ OnGallery(1) /\ ~ui.loadingInitial /\ \E n \in DOMAIN ui.items : ui.items[n] = p
    /\ net' = Send(net, "post", [id |-> p])
    /\ ui' = [ui EXCEPT !.modal = TRUE, !.detail = None, !.edit = FALSE,
                        !.detailLoading = TRUE]
    /\ left' = Spent /\ UNCHANGED db

CloseDetail ==
    /\ ui.page = "media" /\ Acts(0) /\ ui.modal
    /\ ui' = [ui EXCEPT !.modal = FALSE, !.detail = None, !.edit = FALSE]
    /\ left' = Spent /\ UNCHANGED <<net, db>>

EditDetail ==
    /\ InWindow(0) /\ ui.canUpload /\ ~ui.busy
    /\ ui' = [ui EXCEPT !.edit = ~@]
    /\ left' = Spent /\ UNCHANGED <<net, db>>

\* saveDetail from the editor, deleteDetail from the window.
ChangeDetail(op) ==
    /\ InWindow(1) /\ ui.canUpload /\ ~ui.busy /\ (op = "patch" => ui.edit)
    /\ net' = Send(net, op, [id |-> ui.detail])
    /\ ui' = [ui EXCEPT !.busy = TRUE]
    /\ left' = Spent /\ UNCHANGED db

-----------------------------------------------------------------------------
(* What comes back *)

OnMe(i) ==
    /\ Back(i, "me")
    /\ net' = SendBatch(Settle(net, i), TRUE, 1, None)
    /\ ui' = BeginBatch([ui EXCEPT !.canUpload = net[i].out.ok], TRUE)
    /\ UNCHANGED <<db, left>>

\* One page of a batch: the next one is read until the batch is full, the scan has
\* read as many as it may, or there are no more. A page that fails ends the batch,
\* and the action that awaited it goes on as if it had not.
OnPage(i) ==
    /\ Back(i, "page")
    /\ LET a == net[i].arg
           res == net[i].out.body
           b == [a EXCEPT !.got = @ \o res.items, !.cursor = @ + 1, !.read = @ + 1,
                          !.pages = IF @ # None /\ @ < res.pages THEN @ ELSE res.pages]
           full == res.pages = 0 \/ Len(b.got) >= PageSize
           last == b.read = ScanPages \/ b.cursor > b.pages
       IN  IF ~net[i].out.ok
           THEN /\ net' = Settle(net, i)
                /\ ui' = Ended(EndBatch(ui, a.reset), a.of)
           ELSE IF full \/ last
           THEN /\ net' = Settle(net, i)
                /\ ui' = Ended(EndBatch(ShowBatch(ui, b), a.reset), a.of)
           ELSE /\ net' = Send(Settle(net, i), "page", b)
                /\ ui' = ui
    /\ UNCHANGED <<db, left>>

OnMade(i) ==
    /\ Good(i, "make")
    /\ net' = Send(Settle(net, i), "attach", [id |-> net[i].out.body])
    /\ UNCHANGED <<db, ui, left>>

UploadFails(u) == [u EXCEPT !.submitting = FALSE, !.progress = "failed", !.hide = TRUE]

\* Fault: the post stays when its files were refused.
OnNotAttached_Keep(i) ==
    /\ Bad(i, "attach")
    /\ net' = Settle(net, i)
    /\ ui' = UploadFails(ui)
    /\ UNCHANGED <<db, left>>

\* The files were refused: the post is deleted again.
OnNotAttached(i) ==
    /\ Bad(i, "attach")
    /\ net' = Send(Settle(net, i), "rollback", net[i].arg)
    /\ UNCHANGED <<db, ui, left>>

\* A roll-back that fails is ignored; either way the upload has failed.
OnUploadFailed(i) ==
    /\ Bad(i, "make") \/ Back(i, "rollback")
    /\ net' = Settle(net, i)
    /\ ui' = UploadFails(ui)
    /\ UNCHANGED <<db, left>>

OnAttached(i) ==
    /\ Good(i, "attach")
    /\ net' = SendBatch(Settle(net, i), TRUE, 1, "submit")
    /\ ui' = BeginBatch(ui, TRUE)
    /\ UNCHANGED <<db, left>>

\* openDetail has no clean-up: the window shows what came last.
OnPost(i) ==
    /\ Back(i, "post")
    /\ net' = Settle(net, i)
    /\ ui' = [ui EXCEPT !.detail = IF net[i].out.ok THEN net[i].arg.id ELSE None,
                        !.detailLoading = FALSE, !.edit = FALSE]
    /\ UNCHANGED <<db, left>>

OnPatched(i) ==
    /\ Good(i, "patch")
    /\ net' = SendBatch(Settle(net, i), TRUE, 1, "patch")
    /\ ui' = BeginBatch([ui EXCEPT !.detail = net[i].arg.id, !.edit = FALSE], TRUE)
    /\ UNCHANGED <<db, left>>

OnDeleted(i) ==
    /\ Good(i, "delete")
    /\ net' = SendBatch(Settle(net, i), TRUE, 1, "delete")
    /\ ui' = BeginBatch([ui EXCEPT !.modal = FALSE, !.detail = None, !.edit = FALSE], TRUE)
    /\ UNCHANGED <<db, left>>

OnChangeRefused(i) ==
    /\ Bad(i, "patch") \/ Bad(i, "delete")
    /\ net' = Settle(net, i)
    /\ ui' = [ui EXCEPT !.busy = FALSE]
    /\ UNCHANGED <<db, left>>

HideUpload ==
    /\ ui.page = "media" /\ ui.hide
    /\ ui' = [ui EXCEPT !.progress = "none", !.hide = FALSE]
    /\ UNCHANGED <<net, db, left>>

\* A post is made, or deleted, elsewhere.
MediaElsewhere ==
    /\ ui.page = "media" /\ left.others > 0
    /\ \/ /\ db.next <= MaxPosts
          /\ db' = [db EXCEPT !.posts = <<Post(db.next, TRUE, FALSE)>> \o @, !.next = @ + 1]
       \/ \E n \in DOMAIN db.posts :
             /\ ~db.posts[n].mine
             /\ db' = [db EXCEPT !.posts = Without(@, db.posts[n].id)]
    /\ left' = [left EXCEPT !.others = @ - 1]
    /\ UNCHANGED <<net, ui>>

-----------------------------------------------------------------------------
MediaUser ==
    \/ SubmitMedia \/ RefreshGallery \/ LoadMore \/ CloseDetail \/ EditDetail
    \/ \E p \in 1 .. MaxPosts : OpenDetail(p)
    \/ \E op \in {"patch", "delete"} : ChangeDetail(op)

MediaAnswered(i) ==
    \/ OnMe(i) \/ OnPage(i) \/ OnMade(i) \/ OnNotAttached(i) \/ OnUploadFailed(i)
    \/ OnAttached(i) \/ OnPost(i) \/ OnPatched(i) \/ OnDeleted(i) \/ OnChangeRefused(i)

MediaServed(i) ==
    LET op == net[i].op
        arg == net[i].arg
    IN  Serve(i, MediaFound(op, arg), MediaBody(op, arg), MediaAfter(op, arg))

MediaNext ==
    /\ ui.page = "media"
    /\ \/ MediaUser
       \/ HideUpload \/ MediaElsewhere
       \/ \E i \in Slots :
             MediaServed(i) \/ Refuse(i) \/ MediaAnswered(i)

-----------------------------------------------------------------------------
(* Properties *)

\* A post made by the upload form has its files: when nothing is under way any more,
\* one whose files were refused is gone again. (Two failures leave a post without
\* files: a roll-back that fails is ignored.)
MediaPostHasFiles ==
    ui.page = "media" /\ Quiet =>
        \A n \in DOMAIN db.posts : db.posts[n].mine => db.posts[n].media
=============================================================================
