---------------------------- MODULE MCFileStore ----------------------------
(* The settings and the symmetry with which FileStore is checked.          *)
EXTENDS FileStore, TLC

\* Sound where only safety is checked.
Symmetry == Permutations(Docs) \cup Permutations(Contents)

Disk == [backend |-> "disk", ops |-> Operations, calls |-> 4, active |-> 1,
         put |-> 0, remove |-> 0, crash |-> 0, lossy |-> FALSE]
MinIO == [Disk EXCEPT !.backend = "minio"]

\* Four calls of any kind one after another on either backend, with an object
\* write that fails; three that only add and edit at the same time; three of any
\* kind, two at a time, with every fault.
AllSettings ==
    {[Disk EXCEPT !.put = 1],
     [MinIO EXCEPT !.put = 1],
     [MinIO EXCEPT !.ops = {"add", "edit"}, !.calls = 3, !.active = 3, !.put = 1],
     [MinIO EXCEPT !.calls = 3, !.active = 2, !.put = 1, !.remove = 1,
                   !.crash = 1, !.lossy = TRUE]}

\* Replaces that exchange files and wait for each other's rows; calls whose upload
\* loses its document or its row before it is finished.
EndSettings ==
    {[Disk EXCEPT !.ops = {"add", "replace"}, !.active = 2],
     [MinIO EXCEPT !.ops = {"add", "detach", "delete"}, !.calls = 3, !.put = 1]}

\* A document is deleted while another one links its file.
ShareSettings ==
    {[Disk EXCEPT !.ops = {"add", "delete"}, !.calls = 3, !.active = 2]}
=============================================================================
