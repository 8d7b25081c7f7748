--------------------------- MODULE MCDocumentEdits ---------------------------
(* The rules, requests and settings with which DocumentEdits is checked.   *)
EXTENDS DocumentEdits, TLC

\* Sound: only safety is checked, and sessions are only told apart.
EditorsSymmetry == Permutations(Editors) \cup Permutations(Reviewers)

RuleTable ==
    "a" :> [cat |-> "c1", tags |-> {"t1"}, reasons |-> {}]
    @@ "b" :> [cat |-> "c2", tags |-> {"t2"}, reasons |-> {"CLASSIFY_FAIL"}]

Patch(text, status, cat, ts) ==
    [text |-> text, status |-> status, cat |-> cat, tags |-> ts]
Review(cat, ts, remove, approve) ==
    [cat |-> cat, tags |-> ts, remove |-> remove, approve |-> approve]

RenameAndMove == Patch("b", Keep, "c2", {"t2"})
Approve == Review(Keep, Keep, {}, TRUE)
Reclassify == Review("c2", {"t2"}, {}, FALSE)
SomePatches ==
    {RenameAndMove, Patch("b", Keep, Keep, Keep), Patch(Keep, "RESOLVED", "c2", Keep),
     Patch("a", Keep, "c2", {"t2"}), Patch(Keep, Keep, Keep, {"t1"})}
SomeReviews ==
    {Approve, Reclassify, Review(Keep, {"t1", "t2"}, {Duplicate}, FALSE)}

None == [k \in Events |-> 0]

\* Three requests and a delete on one document, every name known.
Requests ==
    [docs |-> {1}, cats |-> Cats, tags |-> Tags,
     patches |-> SomePatches \ {RenameAndMove}, reviews |-> SomeReviews,
     reviewOnly |-> FALSE, used |-> None,
     limit |-> [None EXCEPT !.requests = 3, !.deletes = 1]]

\* Two requests and a backfill that is killed race for the same new names on a
\* document that may be deleted.
Race ==
    [Requests EXCEPT !.cats = {"c1"}, !.tags = {"t1"},
       !.patches = {RenameAndMove}, !.reviews = {Approve, Reclassify},
       !.limit = [requests |-> 2, backfills |-> 1, kills |-> 1, deletes |-> 1]]

\* Backfills alone over several pages, of the archive and of what is in review.
Backfills(n) ==
    [Race EXCEPT !.docs = 1 .. 3, !.limit = [None EXCEPT !.backfills = n]]
Killed == [Backfills(1) EXCEPT !.limit.kills = 1]
InReview == [Backfills(1) EXCEPT !.reviewOnly = TRUE]

AllSettings == {Requests, Race, Backfills(2), Killed, InReview}
=============================================================================
