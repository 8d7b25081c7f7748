------------------------ MODULE MCArchiveWorkspace ------------------------
(* The documents, filters and settings with which ArchiveWorkspace is checked. *)
EXTENDS ArchiveWorkspace

AllDocs == 1 .. 2
TwoFilters == {"all", "some"}
Matching == [f \in TwoFilters |-> IF f = "all" THEN AllDocs ELSE {2}]
Sizes == [f \in TwoFilters |-> IF f = "all" THEN 1 ELSE 2]

Handlers == {"save", "files", "resolve", "delete"}

\* One document after the other with every handler of the modal, by a user who
\* does not wait; bulk actions, the Delete key and page turns, by one who does and
\* by one who does not; with changes elsewhere, refused calls and a lost answer.
Modal == [acts |-> 3, others |-> 0, errors |-> 1, lost |-> 1, patient |-> FALSE,
          ops |-> {"open", "arrow"} \cup Handlers]
Bulk == [Modal EXCEPT !.ops = {"view", "bulk", "deleteKey", "arrow"},
                      !.others = 1]
Patient == [Modal EXCEPT !.ops = {"open", "snapshot", "files", "delete"}, !.lost = 0,
                         !.patient = TRUE, !.acts = 4, !.errors = 0]
PatientBulk == [Bulk EXCEPT !.patient = TRUE, !.errors = 0, !.lost = 0, !.acts = 4,
                            !.ops = {"view", "bulk"}]

AllSettings == {Modal, Bulk, Patient, PatientBulk}
=============================================================================
