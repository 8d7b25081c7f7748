-------------------------- MODULE MCIngestPipeline --------------------------
(* The bounds and the symmetry with which the ingest pipeline is checked.  *)
EXTENDS IngestLifecycle, TLC

\* Sound where only safety is checked: the module compares members of these
\* sets for equality and nothing else.
Symmetry ==
    Permutations(Docs) \cup Permutations(Workers) \cup Permutations(Jobs)
        \cup Permutations(Contents)

Calm(uploads) == [k \in Events |-> IF k = "uploads" THEN uploads ELSE 0]

\* Two uploads with no fault; one upload with two kills or visibility timeouts;
\* one with publishes refused and its temp file lost; one with a child killed.
OneWorkerLimits ==
    {Calm(2),
     [Calm(1) EXCEPT !.kills = 2],
     [Calm(1) EXCEPT !.lost = 3, !.temps = 1],
     [Calm(1) EXCEPT !.kills = 1, !.children = 1]}

\* Two uploads and a delete; one upload with a kill or a visibility timeout, a
\* pool child killed and a publish refused; one with an operator's call (which
\* may run the job a second time while it runs).
TwoWorkerLimits ==
    {[Calm(2) EXCEPT !.deletes = 1],
     [Calm(1) EXCEPT !.kills = 1, !.children = 1, !.lost = 1],
     [Calm(1) EXCEPT !.operator = 1]}

RaceLimits == {Calm(2)}
=============================================================================
