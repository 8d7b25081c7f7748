---------------------------- MODULE JobLifecycle ----------------------------
(***************************************************************************)
(* What the ingest pipeline promises about a job, without how: the states  *)
(* an ingest_jobs row goes through as its poster sees them, the attempts   *)
(* it may take, the one document it makes and how a run of it may end.     *)
(* IngestLifecycle shows that IngestPipeline keeps these promises.         *)
(*   state     ingest_jobs.state                                           *)
(*   attempts  ingest_jobs.attempts                                        *)
(*   retry     ingest_jobs.retry_after is set                                *)
(*   made      documents the job has made                                  *)
(*   running   a worker is running the job                                 *)
(*   calm      nothing has interfered: no process was killed, no operator  *)
(*             has called, nothing was deleted                             *)
(***************************************************************************)
EXTENDS Naturals

CONSTANTS Jobs, MaxAttempts

VARIABLES state, attempts, retry, made, running, calm

jobVars == <<state, attempts, retry, made, running>>
vars == <<jobVars, calm>>

\* README: RECEIVED to INDEXED in this order, then published or in review.
Stage == <<"RECEIVED", "STORED", "EXTRACTED", "CLASSIFIED", "INDEXED">>
Good == {"PUBLISHED", "NEEDS_REVIEW"}
InStage == {Stage[i] : i \in DOMAIN Stage}

Init ==
    /\ state = [j \in Jobs |-> "none"]
    /\ attempts = [j \in Jobs |-> 0]
    /\ retry = [j \in Jobs |-> FALSE]
    /\ made = [j \in Jobs |-> 0]
    /\ running = [j \in Jobs |-> FALSE]
    /\ calm = TRUE

SetState(j, s) == state' = [state EXCEPT ![j] = s]

Receive(j) ==
    /\ state[j] = "none"
    /\ SetState(j, "RECEIVED")
    /\ UNCHANGED <<attempts, retry, made, running>>

\* Only a job that waits is run, and what is left to run is a whole run.
Start(j) ==
    /\ state[j] = "RECEIVED" /\ ~running[j]
    /\ running' = [running EXCEPT ![j] = TRUE]
    /\ UNCHANGED <<state, attempts, retry, made>>

Attempt(j) ==
    /\ running[j] /\ state[j] = "RECEIVED"
    /\ attempts[j] < MaxAttempts
    /\ attempts' = [attempts EXCEPT ![j] = @ + 1]
    /\ retry' = [retry EXCEPT ![j] = FALSE]
    /\ UNCHANGED <<state, made, running>>

\* A stage is done. The document is there before the job says INDEXED.
Advance(j) ==
    /\ running[j]
    /\ \E i \in 1 .. 4 :
         /\ state[j] = Stage[i]
         /\ Stage[i + 1] = "INDEXED" => made[j] = 1
         /\ SetState(j, Stage[i + 1])
    /\ UNCHANGED <<attempts, retry, made, running>>

MakeDocument(j) ==
    /\ running[j] /\ state[j] = "CLASSIFIED"
    /\ made[j] = 0
    /\ made' = [made EXCEPT ![j] = 1]
    /\ UNCHANGED <<state, attempts, retry, running>>

Conclude(j) ==
    /\ running[j] /\ state[j] = "INDEXED"
    /\ \E s \in Good : SetState(j, s)
    /\ UNCHANGED <<attempts, retry, made, running>>

\* A run fails before it has made a document, or not at all.
Fail(j) ==
    /\ running[j] /\ state[j] \in InStage /\ made[j] = 0
    /\ SetState(j, "FAILED")
    /\ UNCHANGED <<attempts, retry, made, running>>

TryAgain(j) ==
    /\ running[j] /\ state[j] = "FAILED"
    /\ attempts[j] < MaxAttempts
    /\ SetState(j, "RECEIVED")
    /\ retry' = [retry EXCEPT ![j] = TRUE]
    /\ UNCHANGED <<attempts, made, running>>

\* A run ends well, with a time for the next attempt, or failed with no attempt left.
End(j) ==
    /\ running[j]
    /\ \/ state[j] \in Good
       \/ state[j] = "RECEIVED" /\ retry[j] /\ attempts[j] < MaxAttempts
       \/ state[j] = "FAILED" /\ attempts[j] >= MaxAttempts
    /\ running' = [running EXCEPT ![j] = FALSE]
    /\ UNCHANGED <<state, attempts, retry, made>>

\* Something interferes. From then on nothing is promised here.
Interfere == calm' = FALSE

Step(j) ==
    \/ Receive(j) \/ Start(j) \/ Attempt(j) \/ Advance(j) \/ MakeDocument(j)
    \/ Conclude(j) \/ Fail(j) \/ TryAgain(j) \/ End(j)

Next ==
    \/ calm /\ UNCHANGED calm /\ \E j \in Jobs : Step(j)
    \/ Interfere

Spec == Init /\ [][Next]_vars
=============================================================================
