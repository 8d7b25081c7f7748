--------------------------- MODULE IngestLifecycle ---------------------------
(***************************************************************************)
(* IngestPipeline implements JobLifecycle: its commits, messages, retries  *)
(* and error paths, seen through the job row and the documents that are    *)
(* there, are the steps of that specification.                             *)
(***************************************************************************)
EXTENDS IngestPipeline

Lifecycle == INSTANCE JobLifecycle WITH
    state <- [j \in Jobs |-> job[j].state],
    attempts <- [j \in Jobs |-> job[j].attempts],
    retry <- [j \in Jobs |-> job[j].retry],
    made <- [j \in Jobs |-> Cardinality(DocsOf(j))],
    running <- [j \in Jobs |-> Running(j)],
    calm <- Undisturbed /\ used.children = 0

\* With one worker, and as long as nothing kills a process, redelivers a message,
\* deletes a document or calls as an operator, a job behaves as promised: its row
\* goes through the documented states, it takes no more attempts than it has and
\* is FAILED only when it has used them, it makes one document, before it says
\* INDEXED and never in a run that fails, and each run leaves the row in review,
\* published, failed for good or waiting, with a time, for the next attempt;
\* whatever stage raises, whatever temp file is lost and however often a publish
\* is refused.
ImplementsLifecycle == Lifecycle!Spec
=============================================================================
