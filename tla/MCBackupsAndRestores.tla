------------------------ MODULE MCBackupsAndRestores ------------------------
(***************************************************************************)
(* Backups beside the attachments that come and go, and restores of the    *)
(* sets that backups have made: a behaviour is about one of the two, and   *)
(* the other stays as it started.                                          *)
(***************************************************************************)
EXTENDS Backups, Restore, TLC

CONSTANTS f1, f2, f3, j1, j2, q1, q2, q3, d1, d2, a, b, c, d

VARIABLE scene

vars == <<backupVars, restoreVars, scene>>

Symmetry ==
    Permutations(Jobs) \cup Permutations({f2, f3}) \cup Permutations(Requests)

\* One run-all beside uploads and brief removals; two backups, run-all or full,
\* beside an upload and deletions of backup files.
Removals == [modes |-> {"all"}, removable |-> Files, brief |-> TRUE,
             deletions |-> FALSE, jobs |-> 1, uploads |-> 2, fails |-> 1]
Deletions == [modes |-> {"all", "full"}, removable |-> {}, brief |-> TRUE,
              deletions |-> TRUE, jobs |-> 2, uploads |-> 1, fails |-> 1]
RemovalsOrDeletions == {Removals, Deletions}

\* The sets of two dumps.
TwoSets == d1 :> {a, b} @@ d2 :> {b, c}

\* Restores of databases in turn, and at once into different targets; of objects
\* in turn; of each kind, at once; and of databases into one target.
InTurn == [together |-> FALSE, shared |-> FALSE, databases |-> 3, buckets |-> 0,
           fails |-> 2]
OneKindOrBoth ==
    {InTurn,
     [InTurn EXCEPT !.together = TRUE, !.fails = 1],
     [InTurn EXCEPT !.databases = 0, !.buckets = 2, !.fails = 1],
     [InTurn EXCEPT !.together = TRUE, !.databases = 1, !.buckets = 1, !.fails = 1],
     [InTurn EXCEPT !.together = TRUE, !.shared = TRUE, !.databases = 2,
                    !.fails = 0]}

Init ==
    /\ BackupsInit
    /\ RestoreInit
    /\ \/ scene = "backups" /\ bounds = InTurn
       \/ scene = "restores" /\ setting = Removals

Next ==
    \/ /\ scene = "backups"
       /\ BackupsNext
       /\ UNCHANGED <<restoreVars, scene>>
    \/ /\ scene = "restores"
       /\ RestoreNext
       /\ UNCHANGED <<backupVars, scene>>

Spec == Init /\ [][Next]_vars
=============================================================================
