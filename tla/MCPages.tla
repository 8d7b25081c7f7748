------------------------------- MODULE MCPages -------------------------------
(***************************************************************************)
(* The pages of the frontend but the archive, each on a small server. A    *)
(* behaviour opens one of the pages: by a user who waits for what he has   *)
(* started, or by one who does not.                                        *)
(***************************************************************************)
EXTENDS DashboardSummary, RulesWorkspace, MindMapWorkspace,
        AdminBackupManager, DocumentPage, MediaWorkspace, ManualPostComposer

Hasty(n) == [acts |-> n, errors |-> 1, lost |-> 0, others |-> 0, patient |-> FALSE]
Waits(n) == [acts |-> n, errors |-> 1, lost |-> 0, others |-> 0, patient |-> TRUE]

\* The dashboard: the wide form covers both months. Without a task, or with one that
\* is linked. With the settings endpoint and without it, then with settings kept in
\* the browser.
TwoForms == {"default", "wide"}
Covered == [f \in TwoForms |-> IF f = "default" THEN {1} ELSE {1, 2}]
NoTask == [month |-> 0, rev |-> 0, link |-> None]
LinkedTask == [month |-> 1, rev |-> 0, link |-> "d"]
OpenDashboard ==
    /\ left \in {Hasty(3), Waits(5)}
    /\ \E task \in {NoTask, LinkedTask} :
         LET tasks == [t \in Tasks |-> task] IN
         \/ MountDashboard(TRUE, tasks, 1, None)
         \/ MountDashboard(FALSE, tasks, 1, [form |-> "wide", days |-> {1}])

\* Two rulesets: one with an old and an active version, one with a version that is
\* not active; a third can be made.
Versions ==
    <<[set |-> "a", rules |-> [text |-> 1, engine |-> TRUE], active |-> FALSE],
      [set |-> "a", rules |-> Template, active |-> TRUE],
      [set |-> "b", rules |-> Template, active |-> FALSE]>>
OpenRules ==
    \/ left = Hasty(2) /\ MountRules({"a", "b"}, Versions, "form")
    \/ left = Waits(4) /\ \E m \in {"form", "json"} : MountRules({"a", "b"}, Versions, m)

\* Documents of two categories, one without a tag; the options of an earlier visit
\* may be out of their range.
MapDocs == {Doc(1, 1, {1}, TRUE), Doc(2, 1, {1, 2}, TRUE), Doc(3, 1, {}, FALSE),
            Doc(4, 2, {2}, TRUE)}
OpenMap ==
    /\ left \in {[Hasty(4) EXCEPT !.errors = 0], [Waits(4) EXCEPT !.others = 1]}
    /\ \E raw \in {None, 9} : MountMindMap(MapDocs, raw)

OpenBackups ==
    \/ left = Hasty(2) /\ MountBackups(2)
    \/ left = Waits(2) /\ MountBackups(0)
    \/ left = Waits(3) /\ MountBackups(2)

\* A document with one version or two, which may be changed elsewhere.
OpenDocument ==
    /\ left \in {[Hasty(3) EXCEPT !.errors = 0], [Waits(4) EXCEPT !.others = 1]}
    /\ \E n \in {1, 2} : MountDocument(n)

\* Three posts that all have media, or four of which one has none: two pages.
OpenMedia ==
    /\ left \in {[Hasty(2) EXCEPT !.others = 1], [Waits(4) EXCEPT !.others = 1]}
    /\ \E kinds \in {<<TRUE, TRUE, TRUE>>, <<TRUE, FALSE, TRUE, TRUE>>} : MountMedia(kinds)

\* Lost answers without refused calls, and the other way round.
OpenManual ==
    /\ left \in {[Hasty(5) EXCEPT !.errors = 0, !.lost = 2], [Waits(6) EXCEPT !.errors = 2]}
    /\ MountManual

Init ==
    \/ OpenDashboard \/ OpenRules \/ OpenMap
    \/ OpenBackups \/ OpenDocument \/ OpenMedia \/ OpenManual

Next ==
    \/ DashboardNext \/ RulesNext \/ MapNext
    \/ BackupsNext \/ DocumentNext \/ MediaNext \/ ManualNext

Spec == Init /\ [][Next]_vars
=============================================================================
