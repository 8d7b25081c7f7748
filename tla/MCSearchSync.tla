---------------------------- MODULE MCSearchSync ----------------------------
(* The bounds with which SearchSync is checked.                            *)
EXTENDS SearchSync

\* Changes with a rebuild and either a killed worker or two losses.
OneWorkerLimits ==
    {[changes |-> 3, rebuilds |-> 1, lost |-> 0, kills |-> 1],
     [changes |-> 3, rebuilds |-> 1, lost |-> 2, kills |-> 0]}
=============================================================================
