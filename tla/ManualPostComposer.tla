-------------------------- MODULE ManualPostComposer --------------------------
(* The form for a post made by hand (components/manual/ManualPostComposer.tsx):  *)
(* one post with all files, or one post for each file. A post is made first, its  *)
(* files are attached in a second request; what failed stays chosen, so that the   *)
(* user can send it again. Nothing but the button is disabled meanwhile.           *)
EXTENDS Page, SequencesExt

CONSTANTS
    Files,          \* the files the user has to post, each picked once
    MaxMade         \* posts that can be made

\* Nobody picks files without end.
ASSUME FilesAssumption == IsFiniteSet(Files)

\* files: what the post has; split: it was made for one file.
Made(id, split) == [id |-> id, files |-> {}, split |-> split]
ManualDb == [posts |-> {}, next |-> 1]

ManualFound(op, arg) ==
    op \in {"attachPost", "undoPost"} => \E p \in db.posts : p.id = arg.post

ManualBody(op, arg) == IF op = "makePost" THEN db.next ELSE None

ManualAfter(op, arg) ==
    CASE op = "makePost" ->
           [posts |-> db.posts \cup {Made(db.next, arg.split)}, next |-> db.next + 1]
      [] op = "attachPost" ->
           [db EXCEPT !.posts = {IF p.id = arg.post THEN [p EXCEPT !.files = ToSet(arg.files)]
                                                    ELSE p : p \in @}]
      [] op = "undoPost" -> [db EXCEPT !.posts = {p \in @ : p.id # arg.post}]
      [] OTHER -> db

-----------------------------------------------------------------------------
\* picked: the files the user has chosen and not removed, a history variable.
MountManual ==
    /\ db = ManualDb
    /\ net = Send(NoCalls, "options", TRUE)
    /\ ui = [page |-> "manual", options |-> "loading", mode |-> "MERGED", filled |-> FALSE,
             selected |-> <<>>, submitting |-> FALSE, error |-> FALSE, created |-> {},
             picked |-> {}]

OnManual(n) == ui.page = "manual" /\ Acts(n)
Posted == UNION {p.files : p \in db.posts}

ChooseMode ==
    /\ OnManual(0)
    /\ ui' = [ui EXCEPT !.mode = IF @ = "MERGED" THEN "SPLIT" ELSE "MERGED"]
    /\ left' = Spent /\ UNCHANGED <<net, db>>

\* Title, categories, date and caption: all that validation asks for.
FillForm ==
    /\ OnManual(0) /\ ~ui.filled
    /\ ui' = [ui EXCEPT !.filled = TRUE]
    /\ left' = Spent /\ UNCHANGED <<net, db>>

\* addFiles: a file that is chosen already is not added again.
PickPostFiles(S) ==
    /\ OnManual(0) /\ S # {} /\ S \cap (ToSet(ui.selected) \cup ui.picked \cup Posted) = {}
    /\ ui' = [ui EXCEPT !.selected = @ \o SetToSeq(S), !.picked = @ \cup S]
    /\ left' = Spent /\ UNCHANGED <<net, db>>

DropFile(f) ==
    /\ OnManual(0) /\ f \in ToSet(ui.selected)
    /\ ui' = [ui EXCEPT !.selected = Keeping(@, ToSet(@) \ {f}), !.picked = @ \ {f}]
    /\ left' = Spent /\ UNCHANGED <<net, db>>

\* The loop over the files of the click: what it has done and what is left.
MakeFor(n, rest, done, failed) ==
    Send(n, "makePost", [split |-> TRUE, files |-> <<Head(rest)>>, rest |-> Tail(rest),
                         done |-> done, failed |-> failed, post |-> 0])

\* onSubmit. What is missing is reported at once; one post for each file needs one.
SubmitPost ==
    /\ OnManual(1) /\ ~ui.submitting /\ db.next <= MaxMade
    /\ LET u == [ui EXCEPT !.submitting = TRUE, !.error = FALSE, !.created = {}]
       IN  \/ /\ ~ui.filled
              /\ ui' = [ui EXCEPT !.error = TRUE] /\ net' = net
           \/ /\ ui.filled /\ ui.mode = "SPLIT" /\ ui.selected = <<>>
              /\ ui' = [ui EXCEPT !.error = TRUE, !.created = {}] /\ net' = net
           \/ /\ ui.filled /\ ui.mode = "SPLIT" /\ ui.selected # <<>>
              /\ ui' = u /\ net' = MakeFor(net, ui.selected, {}, <<>>)
           \/ /\ ui.filled /\ ui.mode = "MERGED"
              /\ ui' = u
              /\ net' = Send(net, "makePost", [split |-> FALSE, files |-> ui.selected,
                                               rest |-> <<>>, done |-> {}, failed |-> <<>>,
                                               post |-> 0])
    /\ left' = Spent /\ UNCHANGED db

-----------------------------------------------------------------------------
(* What comes back *)

OnOptions(i) ==
    /\ Back(i, "options")
    /\ net' = Settle(net, i)
    /\ ui' = [ui EXCEPT !.options = IF net[i].out.ok THEN "ready" ELSE "failed"]
    /\ UNCHANGED <<db, left>>

\* The form is emptied, the files with it.
Emptied(u, created) ==
    [u EXCEPT !.filled = FALSE, !.selected = <<>>, !.submitting = FALSE, !.created = created]

\* The loop ends: the files that failed stay chosen.
LoopEnds(done, failed) ==
    IF failed = <<>> THEN Emptied(ui, done)
    ELSE [ui EXCEPT !.selected = failed, !.submitting = FALSE, !.error = TRUE,
                    !.created = done]

\* The next file of the loop.
NextFile(i, done, failed) ==
    IF net[i].arg.rest = <<>>
    THEN net' = Settle(net, i) /\ ui' = LoopEnds(done, failed)
    ELSE net' = MakeFor(Settle(net, i), net[i].arg.rest, done, failed) /\ ui' = ui

OnPostMade(i) ==
    /\ Good(i, "makePost")
    /\ LET arg == [net[i].arg EXCEPT !.post = net[i].out.body]
       IN  IF arg.files = <<>>
           THEN net' = Settle(net, i) /\ ui' = Emptied(ui, {arg.post})
           ELSE net' = Send(Settle(net, i), "attachPost", arg) /\ ui' = ui
    /\ UNCHANGED <<db, left>>

OnNotMade(i) ==
    /\ Bad(i, "makePost")
    /\ LET arg == net[i].arg
       IN  IF arg.split THEN NextFile(i, arg.done, arg.failed \o arg.files)
           ELSE /\ net' = Settle(net, i)
                /\ ui' = [ui EXCEPT !.submitting = FALSE, !.error = TRUE]
    /\ UNCHANGED <<db, left>>

OnFilesAttached(i) ==
    /\ Good(i, "attachPost")
    /\ LET arg == net[i].arg
       IN  IF arg.split THEN NextFile(i, arg.done \cup {arg.post}, arg.failed)
           ELSE net' = Settle(net, i) /\ ui' = Emptied(ui, {arg.post})
    /\ UNCHANGED <<db, left>>

\* Fault: the empty post stays.
OnFilesRefused_NoRollBack(i) ==
    /\ Bad(i, "attachPost")
    /\ LET arg == net[i].arg
       IN  IF arg.split THEN NextFile(i, arg.done, arg.failed \o arg.files)
           ELSE /\ net' = Settle(net, i)
                /\ ui' = [ui EXCEPT !.submitting = FALSE, !.error = TRUE, !.created = {arg.post}]
    /\ UNCHANGED <<db, left>>

\* A post for one file is deleted again; a post for all stays, and so does the form.
OnFilesRefused(i) ==
    /\ Bad(i, "attachPost")
    /\ LET arg == net[i].arg
       IN  IF arg.split THEN net' = Send(Settle(net, i), "undoPost", arg) /\ ui' = ui
           ELSE /\ net' = Settle(net, i)
                /\ ui' = [ui EXCEPT !.submitting = FALSE, !.error = TRUE, !.created = {arg.post}]
    /\ UNCHANGED <<db, left>>

\* Fault: the file counts as handled.
OnPostUndone_Forgets(i) ==
    /\ Back(i, "undoPost")
    /\ NextFile(i, net[i].arg.done, net[i].arg.failed)
    /\ UNCHANGED <<db, left>>

\* Whether the roll-back succeeds is not looked at.
OnPostUndone(i) ==
    /\ Back(i, "undoPost")
    /\ NextFile(i, net[i].arg.done, net[i].arg.failed \o net[i].arg.files)
    /\ UNCHANGED <<db, left>>

-----------------------------------------------------------------------------
ManualUser ==
    \/ ChooseMode \/ FillForm \/ SubmitPost
    \/ \E S \in SUBSET Files : PickPostFiles(S)
    \/ \E f \in Files : DropFile(f)

ManualAnswered(i) ==
    \/ OnOptions(i) \/ OnPostMade(i) \/ OnNotMade(i) \/ OnFilesAttached(i)
    \/ OnFilesRefused(i) \/ OnPostUndone(i)

ManualServed(i) ==
    LET op == net[i].op
        arg == net[i].arg
    IN  Serve(i, ManualFound(op, arg), ManualBody(op, arg), ManualAfter(op, arg))

ManualNext ==
    /\ ui.page = "manual"
    /\ \/ ManualUser
       \/ \E i \in Slots :
             ManualServed(i) \/ Refuse(i) \/ ManualAnswered(i)

-----------------------------------------------------------------------------
(* Properties *)

\* A file that was chosen ends in one place. One post for each file stays so when
\* parts of it fail and are sent again: no file is in two of these posts, even where
\* the answer to an attachment was lost, because the post is deleted before its file
\* is kept for the next try. And no file is lost on the way: it is still chosen or is
\* in a post, whatever part of the submission failed, if the user leaves the form
\* alone while it is sent (files added meanwhile are dropped with the rest). A
\* roll-back that is refused after a lost answer would break the first: a behaviour
\* has either refused calls or lost answers.
FilesPostedOnce ==
    ui.page = "manual" =>
        /\ \A f \in Files :
             Cardinality({p \in db.posts : p.split /\ f \in p.files}) <= 1
        /\ left.patient /\ ~ui.submitting =>
             ui.picked \subseteq ToSet(ui.selected) \cup Posted
=============================================================================
