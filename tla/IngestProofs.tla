--------------------------- MODULE IngestProofs ---------------------------
(***************************************************************************)
(* What holds of the ingest pipeline for every number of jobs, documents,  *)
(* contents, tags and workers, and whatever the Limits: type correctness,  *)
(* and that the link from a job to its document is sound however often the *)
(* job is rerun. And as long as one worker process takes the messages, one *)
(* at a time: the files its documents link, that no job is left waiting    *)
(* for nobody, and that IngestPipeline implements JobLifecycle. With two,  *)
(* these are what the races of two runs break.                             *)
(***************************************************************************)
EXTENDS IngestLifecycle, FiniteSetTheorems, TLAPS

(***************************************************************************)
(*                        Any number of workers                            *)
(***************************************************************************)

-----------------------------------------------------------------------------
(* Type correctness.                                                       *)

\* What a process record owes to the place its run has reached.
Sound(p) ==
    /\ p.pc # "idle" => p.job \in Jobs
    /\ p.pc \in {"put", "insert"} => p.file \in Contents
    /\ p.pc = "newtag" => p.cur \in Tags

WorkersOK ==
    /\ wk \in [Workers -> Process]
    /\ \A w \in Workers : Sound(wk[w])

RowsOK == job \in [Jobs -> JobRow]

ContentOK ==
    /\ fileRow \in SUBSET Contents
    /\ object \in SUBSET Contents
    /\ tag \in SUBSET Tags
    /\ doc \in [Docs -> DocRow]

BrokerOK ==
    /\ sending \in [Jobs -> Nat]
    /\ ready \in [Jobs -> Nat]

TypeInv ==
    WorkersOK /\ RowsOK /\ ContentOK /\ BrokerOK /\ used \in [Events -> Nat]

\* The inductive invariant is no weaker than the type invariant.
LEMMA TypeInvGivesTypeOK == TypeInv => TypeOK
  BY DEF TypeInv, TypeOK, WorkersOK, Sound, RowsOK, ContentOK, BrokerOK

LEMMA IdleTyped == Idle \in Process /\ Sound(Idle)
  BY DEF Idle, Process, Pc, Sound

\* A review reason comes from the rules or from duplicate detection.
LEMMA ReviewedTyped ==
  ASSUME NEW p \in Process, NEW review \in BOOLEAN, NEW names \in SUBSET Tags
  PROVE  [p EXCEPT !.pc = "create", !.todo = names, !.review = review \/ p.dup]
            \in Process
  <1> DEFINE reviewed == review \/ p.dup
  <1>1. p.dup \in BOOLEAN
    BY DEF Process
  <1>2. reviewed \in BOOLEAN
    BY <1>1
  <1> HIDE DEF reviewed
  <1>3. [p EXCEPT !.pc = "create", !.todo = names, !.review = reviewed] \in Process
    BY ZenonT(60), <1>2 DEF Process, Pc
  <1> QED
    BY <1>3 DEF reviewed

\* An event counted leaves the counters natural numbers.
LEMMA CountTyped ==
  ASSUME used \in [Events -> Nat], NEW kind, Count(kind)
  PROVE  used' \in [Events -> Nat]
  <1>1. used' = [used EXCEPT ![kind] = @ + 1]
    BY DEF Count
  <1>2. CASE kind \in Events
    BY <1>1, <1>2
  <1>3. CASE kind \notin Events
    BY <1>1, <1>3
  <1> QED
    BY <1>2, <1>3

LEMMA TypeInit == Init => TypeInv
  <1> SUFFICES ASSUME Init PROVE TypeInv
    OBVIOUS
  <1>1. WorkersOK
    BY IdleTyped DEF Init, WorkersOK
  <1>2. RowsOK
    BY NullsAssumption DEF Init, RowsOK, JobRow, NoRow
  <1>3. ContentOK
    BY DEF Init, ContentOK, DocRow, FreeDoc
  <1>4. BrokerOK /\ used \in [Events -> Nat]
    BY DEF Init, BrokerOK
  <1> QED
    BY <1>1, <1>2, <1>3, <1>4 DEF TypeInv

\* How the helpers of the actions keep the types.
LEMMA StepTyped ==
  ASSUME WorkersOK, NEW w \in Workers, NEW p \in Process, Sound(p),
         wk' = [wk EXCEPT ![w] = p]
  PROVE  WorkersOK'
  BY DEF WorkersOK, Sound

LEMMA GotoTyped ==
  ASSUME WorkersOK, NEW w \in Workers, ~At(w, "idle"), NEW pc \in Pc,
         pc \in {"put", "insert"} => wk[w].file \in Contents, pc # "newtag",
         Goto(w, pc)
  PROVE  WorkersOK'
  <1> DEFINE p == [wk[w] EXCEPT !.pc = pc]
  <1>1. wk[w] \in Process /\ Sound(wk[w])
    BY DEF WorkersOK
  <1>2. p \in Process
    BY <1>1 DEF Process
  <1>3. Sound(p)
    BY <1>1 DEF Sound, Process, At
  <1>4. wk' = [wk EXCEPT ![w] = p]
    BY DEF Goto
  <1> QED
    BY <1>2, <1>3, <1>4, StepTyped

LEMMA LeaveTyped ==
  ASSUME WorkersOK, NEW w \in Workers, LeaveTask(w)
  PROVE  WorkersOK'
  BY IdleTyped, StepTyped DEF LeaveTask

LEMMA RaiseTyped ==
  ASSUME WorkersOK, NEW w \in Workers, ~At(w, "idle"), NEW code \in ErrorCode,
         Raise(w, code)
  PROVE  WorkersOK'
  <1> DEFINE p == [wk[w] EXCEPT !.pc = "fail", !.error = code]
  <1>1. wk[w] \in Process /\ Sound(wk[w])
    BY DEF WorkersOK
  <1>2. p \in Process
    BY <1>1 DEF Process, Pc
  <1>3. Sound(p)
    BY <1>1 DEF Sound, Process, At
  <1>4. wk' = [wk EXCEPT ![w] = p]
    BY DEF Raise
  <1> QED
    BY <1>2, <1>3, <1>4, StepTyped

\* Neither the tag commit nor the final commit of _create_document spoils a row.
LEMMA LinkTyped ==
  ASSUME doc \in [Docs -> DocRow], NEW w \in Workers, wk[w] \in Process
  PROVE  /\ [doc EXCEPT ![wk[w].doc].file = Linked(w)] \in [Docs -> DocRow]
         /\ [doc EXCEPT ![wk[w].doc].file = Linked(w),
                        ![wk[w].doc].version = TRUE] \in [Docs -> DocRow]
  <1> DEFINE d == wk[w].doc
             linked == [doc[d] EXCEPT !.file = Linked(w)]
             versioned == [doc[d] EXCEPT !.file = Linked(w), !.version = TRUE]
  <1>1. CASE d \in Docs
    <2>1. doc[d] \in DocRow
      BY <1>1
    <2>2. Linked(w) \in Contents \cup {NoContent}
      BY <2>1 DEF Linked, DocRow, Process
    <2>3. linked \in DocRow /\ versioned \in DocRow
      BY <2>1, <2>2 DEF DocRow
    <2>4. /\ [doc EXCEPT ![d].file = Linked(w)] = [doc EXCEPT ![d] = linked]
          /\ [doc EXCEPT ![d].file = Linked(w), ![d].version = TRUE]
                = [doc EXCEPT ![d] = versioned]
      BY <1>1
    <2> QED
      BY <1>1, <2>3, <2>4
  <1>2. CASE d \notin Docs
    <2>1. /\ [doc EXCEPT ![d].file = Linked(w)] = doc
          /\ [doc EXCEPT ![d].file = Linked(w), ![d].version = TRUE] = doc
      BY <1>2
    <2> QED
      BY <2>1
  <1> QED
    BY <1>1, <1>2

LEMMA RowTyped ==
  ASSUME RowsOK, NEW j \in Jobs, NEW r \in JobRow, job' = [job EXCEPT ![j] = r]
  PROVE  RowsOK'
  BY DEF RowsOK

LEMMA SetStateTyped ==
  ASSUME RowsOK, NEW j \in Jobs, NEW state \in IngestState, SetState(j, state)
  PROVE  RowsOK'
  <1> DEFINE r == [job[j] EXCEPT !.state = state,
                                 !.finished = @ \/ state \in TerminalStates]
  <1>1. job[j] \in JobRow
    BY DEF RowsOK
  <1>2. r \in JobRow
    BY <1>1 DEF JobRow
  <1>3. job' = [job EXCEPT ![j] = r]
    BY DEF SetState
  <1> QED
    BY <1>2, <1>3, RowTyped

\* A step of the pipeline keeps every row, message and process well typed.
LEMMA PipelineTyped ==
  ASSUME TypeInv, NEW w \in Workers, PipelineStep(w)
  PROVE  TypeInv'
  <1> USE DEF TypeInv
  <1>0. /\ wk[w] \in Process /\ Sound(wk[w])
        /\ ~At(w, "idle") => wk[w].job \in Jobs /\ job[wk[w].job] \in JobRow
    BY DEF WorkersOK, RowsOK, Sound, At
  <1>1. CASE Load(w)
    <2> DEFINE p == [wk[w] EXCEPT !.pc = "begin", !.seen = JobOf(w).attempts]
    <2>1. JobOf(w).attempts \in Nat
      BY <1>0, <1>1 DEF Load, At, JobOf, JobRow
    <2>2. p \in Process
      BY ZenonT(60), <1>0, <2>1 DEF Process, Pc
    <2>3. Sound(p)
      BY <1>0, <1>1 DEF Sound, Process, Load, At
    <2>4. wk' = [wk EXCEPT ![w] = p]
      BY <1>1 DEF Load
    <2> QED
      BY <1>1, <2>2, <2>3, <2>4, StepTyped
      DEF Load, RowsOK, content, ContentOK, broker, BrokerOK
  <1>2. CASE Begin(w)
    <2> DEFINE p == [wk[w] EXCEPT !.pc = "read", !.seen = 0]
               r == [job[wk[w].job] EXCEPT !.attempts = wk[w].seen + 1,
                                           !.retry = FALSE]
    <2>1. p \in Process
      BY ZenonT(60), <1>0 DEF Process, Pc
    <2>2. Sound(p)
      BY <1>0, <1>2 DEF Sound, Process, Begin, At
    <2>3. wk' = [wk EXCEPT ![w] = p]
      BY <1>2 DEF Begin
    <2>4. wk[w].job \in Jobs /\ job[wk[w].job] \in JobRow /\ wk[w].seen + 1 \in Nat
      BY <1>0, <1>2 DEF Begin, At, Process
    <2>5. r \in JobRow
      BY <2>4 DEF JobRow
    <2>6. job' = [job EXCEPT ![wk[w].job] = r]
      BY <1>2 DEF Begin
    <2>7. RowsOK'
      BY <2>4, <2>5, <2>6, RowTyped
    <2> QED
      BY <1>2, <2>1, <2>2, <2>3, <2>7, StepTyped
      DEF Begin, content, ContentOK, broker, BrokerOK
  <1>3. CASE ReadTempFile(w)
    <2> DEFINE c == JobOf(w).temp
               stored == [wk[w] EXCEPT !.pc = "stored", !.file = c,
                                       !.dup = IsLinked(c)]
               put == [wk[w] EXCEPT !.pc = "put", !.file = c]
    <2>1. ~At(w, "idle") /\ wk[w].job \in Jobs
      BY <1>0, <1>3 DEF ReadTempFile, At
    <2>2. CASE Raise(w, "STORAGE_TEMP_FILE_MISSING")
      BY <1>3, <2>1, <2>2, RaiseTyped
      DEF ReadTempFile, RowsOK, content, ContentOK, broker, BrokerOK, ErrorCode
    <2>3. CASE c \in fileRow /\ wk' = [wk EXCEPT ![w] = stored]
      <3>1. c \in Contents
        BY <2>3 DEF ContentOK
      <3>2. IsLinked(c) \in BOOLEAN
        BY DEF IsLinked
      <3>3. stored \in Process
        BY <1>0, <3>1, <3>2 DEF Process, Pc
      <3>4. Sound(stored)
        BY <1>0, <2>1 DEF Sound, Process
      <3> QED
        BY <1>3, <2>3, <3>3, <3>4, StepTyped
        DEF ReadTempFile, RowsOK, content, ContentOK, broker, BrokerOK
    <2>4. CASE c \in Contents \ fileRow /\ wk' = [wk EXCEPT ![w] = put]
      <3>1. put \in Process
        BY <1>0, <2>4 DEF Process, Pc
      <3>2. Sound(put)
        BY <1>0, <2>1, <2>4 DEF Sound, Process
      <3> QED
        BY <1>3, <2>4, <3>1, <3>2, StepTyped
        DEF ReadTempFile, RowsOK, content, ContentOK, broker, BrokerOK
    <2> QED
      BY <1>3, <2>2, <2>3, <2>4 DEF ReadTempFile
  <1>4. CASE PutObject(w)
    <2>1. ~At(w, "idle") /\ wk[w].file \in Contents
      BY <1>0, <1>4 DEF PutObject, At, Sound
    <2>2. WorkersOK'
      BY <1>4, <2>1, GotoTyped, RaiseTyped DEF PutObject, Pc, ErrorCode
    <2> QED
      BY <1>4, <2>1, <2>2
      DEF PutObject, RowsOK, ContentOK, broker, BrokerOK
  <1>5. CASE InsertFileRow(w)
    <2>1. ~At(w, "idle") /\ wk[w].file \in Contents
      BY <1>0, <1>5 DEF InsertFileRow, At, Sound
    <2>2. WorkersOK'
      BY <1>5, <2>1, GotoTyped, LeaveTyped DEF InsertFileRow, FlushFails, Pc
    <2> QED
      BY <1>5, <2>1, <2>2
      DEF InsertFileRow, RowsOK, ContentOK, broker, BrokerOK
  <1>6. CASE SetStored(w)
    <2>1. ~At(w, "idle") /\ wk[w].job \in Jobs
      BY <1>0, <1>6 DEF SetStored, At
    <2> QED
      BY <1>6, <2>1, GotoTyped, SetStateTyped
      DEF SetStored, Pc, IngestState, content, ContentOK, broker, BrokerOK
  <1>7. CASE Extract(w)
    <2>1. ~At(w, "idle") /\ wk[w].job \in Jobs
      BY <1>0, <1>7 DEF Extract, At
    <2>2. WorkersOK' /\ RowsOK'
      BY <1>7, <2>1, GotoTyped, RaiseTyped, SetStateTyped
      DEF Extract, Pc, IngestState, ErrorCode, RowsOK
    <2> QED
      BY <1>7, <2>2 DEF Extract, content, ContentOK, broker, BrokerOK
  <1>8. CASE Classify(w)
    <2>1. ~At(w, "idle") /\ wk[w].job \in Jobs
      BY <1>0, <1>8 DEF Classify, At
    <2>2. CASE Raise(w, "RULE_CLASSIFY_FAIL") /\ UNCHANGED job
      BY <1>8, <2>1, <2>2, RaiseTyped
      DEF Classify, RowsOK, content, ContentOK, broker, BrokerOK, ErrorCode
    <2>3. ASSUME NEW review \in BOOLEAN, NEW names \in SUBSET Tags,
                 SetState(wk[w].job, "CLASSIFIED"),
                 wk' = [wk EXCEPT ![w].pc = "create", ![w].todo = names,
                                  ![w].review = review \/ wk[w].dup]
          PROVE  TypeInv'
      <3> DEFINE p == [wk[w] EXCEPT !.pc = "create", !.todo = names,
                                    !.review = review \/ wk[w].dup]
      <3>1. p \in Process
        BY <1>0, ReviewedTyped
      <3>2. Sound(p)
        BY <1>0, <2>1 DEF Sound, Process
      <3>3. wk' = [wk EXCEPT ![w] = p]
        BY <2>3
      <3> QED
        BY <1>8, <2>1, <2>3, <3>1, <3>2, <3>3, StepTyped, SetStateTyped
        DEF Classify, IngestState, content, ContentOK, broker, BrokerOK
    <2> QED
      BY <1>8, <2>2, <2>3 DEF Classify
  <1>9. ASSUME NEW d \in Docs, CreateDocument(w, d) PROVE TypeInv'
    <2> DEFINE p == [wk[w] EXCEPT !.pc = "tags", !.doc = d, !.pending = TRUE,
                                  !.dup = FALSE]
               r == [FreeDoc EXCEPT !.life = "live", !.by = wk[w].job,
                                    !.dup = wk[w].dup]
    <2>1. ~At(w, "idle") /\ wk[w].job \in Jobs
      BY <1>0, <1>9 DEF CreateDocument, At
    <2>2. p \in Process
      BY ZenonT(60), <1>0 DEF Process, Pc
    <2>3. Sound(p)
      BY <1>0, <2>1 DEF Sound, Process
    <2>4. wk' = [wk EXCEPT ![w] = p]
      BY <1>9 DEF CreateDocument
    <2>5. wk[w].dup \in BOOLEAN
      BY <1>0 DEF Process
    <2>6. r \in DocRow
      BY <2>1, <2>5 DEF DocRow, FreeDoc
    <2>7. doc' = [doc EXCEPT ![d] = r]
      BY <1>9 DEF CreateDocument
    <2> QED
      BY <1>9, <2>2, <2>3, <2>4, <2>6, <2>7, StepTyped
      DEF CreateDocument, RowsOK, ContentOK, broker, BrokerOK
  <1>10. ASSUME NEW t \in Tags, LookupTag(w, t) PROVE TypeInv'
    <2> DEFINE found == [wk[w] EXCEPT !.todo = @ \ {t}]
               absent == [wk[w] EXCEPT !.pc = "newtag", !.cur = t]
    <2>1. ~At(w, "idle") /\ wk[w].job \in Jobs /\ wk[w].pc = "tags"
      BY <1>0, <1>10 DEF LookupTag, At
    <2>2. found \in Process /\ absent \in Process
      BY ZenonT(60), <1>0 DEF Process, Pc
    <2>3. Sound(found) /\ Sound(absent)
      BY <1>0, <2>1 DEF Sound, Process
    <2>4. \/ wk' = [wk EXCEPT ![w] = found]
          \/ wk' = [wk EXCEPT ![w] = absent]
      BY <1>10 DEF LookupTag
    <2> QED
      BY <1>10, <2>2, <2>3, <2>4, StepTyped
      DEF LookupTag, RowsOK, content, ContentOK, broker, BrokerOK
  <1>11. CASE InsertTag(w)
    <2> DEFINE p == [wk[w] EXCEPT !.pc = "tags", !.todo = @ \ {wk[w].cur},
                                  !.cur = NoTag, !.pending = FALSE]
    <2>1. ~At(w, "idle") /\ wk[w].job \in Jobs /\ wk[w].cur \in Tags
      BY <1>0, <1>11 DEF InsertTag, At, Sound
    <2>2. p \in Process
      BY ZenonT(60), <1>0 DEF Process, Pc
    <2>3. Sound(p)
      BY <1>0, <2>1 DEF Sound, Process
    <2>4. wk' = [wk EXCEPT ![w] = p]
      BY <1>11 DEF InsertTag
    <2>5. doc' \in [Docs -> DocRow] /\ tag' \in SUBSET Tags
      BY <1>0, <1>11, <2>1, LinkTyped DEF InsertTag, ContentOK
    <2> QED
      BY <1>11, <2>2, <2>3, <2>4, <2>5, StepTyped
      DEF InsertTag, RowsOK, ContentOK, broker, BrokerOK
  <1>12. CASE WriteVersion(w)
    <2> DEFINE p == [wk[w] EXCEPT !.pc = "attach", !.pending = FALSE]
    <2>1. ~At(w, "idle") /\ wk[w].job \in Jobs
      BY <1>0, <1>12 DEF WriteVersion, At
    <2>2. p \in Process
      BY ZenonT(60), <1>0 DEF Process, Pc
    <2>3. Sound(p)
      BY <1>0, <2>1 DEF Sound, Process
    <2>4. CASE doc' = doc /\ RowGone(w, "DB_WRITE_FAIL")
      BY <1>12, <2>1, <2>4, LeaveTyped, RaiseTyped
      DEF WriteVersion, RowGone, FlushFails, ErrorCode, RowsOK, ContentOK,
          broker, BrokerOK
    <2>5. CASE /\ doc' = [doc EXCEPT ![wk[w].doc].file = Linked(w),
                                     ![wk[w].doc].version = TRUE]
               /\ wk' = [wk EXCEPT ![w] = p]
      <3>1. doc' \in [Docs -> DocRow]
        BY <1>0, <2>5, LinkTyped DEF ContentOK
      <3> QED
        BY <1>12, <2>2, <2>3, <2>5, <3>1, StepTyped
        DEF WriteVersion, RowsOK, ContentOK, broker, BrokerOK
    <2> QED
      BY <1>12, <2>4, <2>5 DEF WriteVersion
  <1>13. CASE AttachDocument(w)
    <2>1. ~At(w, "idle") /\ wk[w].job \in Jobs /\ job[wk[w].job] \in JobRow
      BY <1>0, <1>13 DEF AttachDocument, At
    <2>2. WorkersOK'
      BY <1>13, <2>1, GotoTyped, RaiseTyped, LeaveTyped
      DEF AttachDocument, RowGone, FlushFails, Pc, ErrorCode
    <2> DEFINE r == [job[wk[w].job] EXCEPT !.doc = wk[w].doc]
    <2>3. r \in JobRow
      BY <1>0, <2>1 DEF JobRow, Process
    <2>4. RowsOK'
      BY <1>13, <2>1, <2>3, RowTyped DEF AttachDocument, RowsOK
    <2> QED
      BY <1>13, <2>2, <2>4
      DEF AttachDocument, content, ContentOK, broker, BrokerOK
  <1>14. CASE SetIndexed(w)
    <2>1. ~At(w, "idle") /\ wk[w].job \in Jobs
      BY <1>0, <1>14 DEF SetIndexed, At
    <2>2. WorkersOK' /\ RowsOK'
      BY <1>14, <2>1, GotoTyped, RaiseTyped, SetStateTyped
      DEF SetIndexed, Pc, IngestState, ErrorCode, RowsOK
    <2> QED
      BY <1>14, <2>2 DEF SetIndexed, content, ContentOK, broker, BrokerOK
  <1>15. CASE SetFinished(w)
    <2>1. ~At(w, "idle") /\ wk[w].job \in Jobs
      BY <1>0, <1>15 DEF SetFinished, At
    <2>2. WorkersOK' /\ RowsOK'
      BY <1>15, <2>1, GotoTyped, RaiseTyped, SetStateTyped
      DEF SetFinished, Pc, IngestState, ErrorCode, RowsOK
    <2> QED
      BY <1>15, <2>2 DEF SetFinished, content, ContentOK, broker, BrokerOK
  <1>16. CASE Return(w)
    <2>1. ~At(w, "idle")
      BY <1>16 DEF Return, At
    <2> QED
      BY <1>16, <2>1, LeaveTyped, RaiseTyped
      DEF Return, ErrorCode, RowsOK, content, ContentOK, broker, BrokerOK
  <1> QED
    BY <1>1, <1>2, <1>3, <1>4, <1>5, <1>6, <1>7, <1>8, <1>9, <1>10, <1>11, <1>12,
       <1>13, <1>14, <1>15, <1>16 DEF PipelineStep

\* So does a step of the failure path.
LEMMA FailureTyped ==
  ASSUME TypeInv, NEW w \in Workers, FailureStep(w)
  PROVE  TypeInv'
  <1> USE DEF TypeInv
  <1>0. /\ wk[w] \in Process /\ Sound(wk[w])
        /\ ~At(w, "idle") => wk[w].job \in Jobs /\ job[wk[w].job] \in JobRow
    BY DEF WorkersOK, RowsOK, Sound, At
  <1>1. CASE RecordError(w)
    <2> DEFINE p == [Idle EXCEPT !.pc = "failed", !.job = wk[w].job,
                                 !.held = wk[w].held]
               r == [job[wk[w].job] EXCEPT !.error = wk[w].error]
    <2>1. wk[w].job \in Jobs /\ job[wk[w].job] \in JobRow
      BY <1>0, <1>1 DEF RecordError, At
    <2>2. p \in Process
      BY ZenonT(60), <1>0, <2>1 DEF Process, Idle, Pc
    <2>3. Sound(p)
      BY <2>1 DEF Sound, Idle
    <2>4. wk' = [wk EXCEPT ![w] = p]
      BY <1>1 DEF RecordError
    <2>5. r \in JobRow
      BY <1>0, <2>1 DEF JobRow, Process
    <2>6. RowsOK'
      BY <1>1, <2>1, <2>5, RowTyped DEF RecordError
    <2> QED
      BY <1>1, <2>2, <2>3, <2>4, <2>6, StepTyped
      DEF RecordError, content, ContentOK, broker, BrokerOK
  <1>2. CASE MarkFailed(w)
    <2>1. ~At(w, "idle") /\ wk[w].job \in Jobs
      BY <1>0, <1>2 DEF MarkFailed, At
    <2> QED
      BY <1>2, <2>1, GotoTyped, SetStateTyped
      DEF MarkFailed, Pc, IngestState, content, ContentOK, broker, BrokerOK
  <1>3. CASE Decide(w)
    <2>1. ~At(w, "idle")
      BY <1>3 DEF Decide, At
    <2> QED
      BY <1>3, <2>1, GotoTyped
      DEF Decide, Pc, RowsOK, content, ContentOK, broker, BrokerOK
  <1>4. CASE ScheduleRetry(w)
    <2> DEFINE r == [job[wk[w].job] EXCEPT !.state = "RECEIVED", !.retry = TRUE,
                                           !.finished = FALSE]
    <2>1. ~At(w, "idle") /\ wk[w].job \in Jobs /\ job[wk[w].job] \in JobRow
      BY <1>0, <1>4 DEF ScheduleRetry, At
    <2>2. r \in JobRow
      BY <2>1 DEF JobRow, IngestState
    <2>3. job' = [job EXCEPT ![wk[w].job] = r]
      BY <1>4 DEF ScheduleRetry
    <2>4. RowsOK'
      BY <2>1, <2>2, <2>3, RowTyped
    <2> QED
      BY <1>4, <2>1, <2>4, GotoTyped
      DEF ScheduleRetry, Pc, content, ContentOK, broker, BrokerOK
  <1>5. CASE PublishRetry(w)
    <2>1. wk[w].job \in Jobs
      BY <1>0, <1>5 DEF PublishRetry, At
    <2> QED
      BY <1>5, <2>1, LeaveTyped
      DEF PublishRetry, RowsOK, content, ContentOK, BrokerOK
  <1>6. CASE DeadLetter(w)
    <2> DEFINE r == [job[wk[w].job] EXCEPT
                        !.state = "FAILED", !.retry = FALSE,
                        !.error = IF @ = "none" THEN "DLQ_MAX_ATTEMPTS" ELSE @]
    <2>1. wk[w].job \in Jobs /\ job[wk[w].job] \in JobRow
      BY <1>0, <1>6 DEF DeadLetter, At
    <2>2. r \in JobRow
      BY <2>1 DEF JobRow, IngestState, ErrorCode
    <2>3. job' = [job EXCEPT ![wk[w].job] = r]
      BY <1>6 DEF DeadLetter
    <2>4. RowsOK'
      BY <2>1, <2>2, <2>3, RowTyped
    <2> QED
      BY <1>6, <2>4, LeaveTyped
      DEF DeadLetter, content, ContentOK, broker, BrokerOK
  <1> QED
    BY <1>1, <1>2, <1>3, <1>4, <1>5, <1>6 DEF FailureStep

\* So does a fault, or the delivery of a message.
LEMMA FaultTyped ==
  ASSUME TypeInv, NEW w \in Workers, FaultStep(w) \/ \E j \in Jobs : Take(w, j)
  PROVE  TypeInv'
  <1> USE DEF TypeInv
  <1>0. /\ wk[w] \in Process /\ Sound(wk[w])
        /\ ~At(w, "idle") => wk[w].job \in Jobs
    BY DEF WorkersOK, Sound, At
  <1>1. CASE PublishRetryFails(w)
    <2> DEFINE p == [wk[w] EXCEPT !.pc = "decide", !.again = TRUE]
    <2>1. ~At(w, "idle")
      BY <1>1 DEF PublishRetryFails, At
    <2>2. p \in Process
      BY <1>0 DEF Process, Pc
    <2>3. Sound(p)
      BY <1>0, <2>1 DEF Sound, Process
    <2>4. LeaveTask(w) \/ wk' = [wk EXCEPT ![w] = p]
      BY <1>1 DEF PublishRetryFails
    <2>5. WorkersOK'
      BY <2>2, <2>3, <2>4, LeaveTyped, StepTyped
    <2> QED
      BY <1>1, <2>5, CountTyped
      DEF PublishRetryFails, RowsOK, content, ContentOK, broker, BrokerOK
  <1>2. CASE WorkerKilled(w)
    <2>1. wk[w].job \in Jobs
      BY <1>0, <1>2 DEF WorkerKilled
    <2> QED
      BY <1>2, <2>1, LeaveTyped, CountTyped
      DEF WorkerKilled, RowsOK, content, ContentOK, BrokerOK
  <1>3. CASE ChildKilled(w)
    BY <1>3, LeaveTyped, CountTyped
    DEF ChildKilled, RowsOK, content, ContentOK, broker, BrokerOK
  <1>4. CASE Redeliver(w)
    <2> DEFINE p == [wk[w] EXCEPT !.held = FALSE]
    <2>1. wk[w].job \in Jobs
      BY <1>0, <1>4 DEF Redeliver
    <2>2. p \in Process
      BY <1>0 DEF Process
    <2>3. Sound(p)
      BY <1>0 DEF Sound, Process
    <2>4. wk' = [wk EXCEPT ![w] = p]
      BY <1>4 DEF Redeliver
    <2>5. WorkersOK'
      BY <2>2, <2>3, <2>4, StepTyped
    <2>6. BrokerOK' /\ used' \in [Events -> Nat]
      BY <1>4, <2>1, CountTyped DEF Redeliver, BrokerOK
    <2> QED
      BY <1>4, <2>5, <2>6 DEF Redeliver, RowsOK, content, ContentOK
  <1>5. ASSUME NEW j \in Jobs, Take(w, j) PROVE TypeInv'
    <2> DEFINE p == [Idle EXCEPT !.pc = "load", !.job = j, !.held = TRUE]
    <2>1. p \in Process /\ Sound(p)
      BY DEF Idle, Process, Pc, Sound
    <2>2. wk' = [wk EXCEPT ![w] = p]
      BY <1>5 DEF Take
    <2>3. WorkersOK'
      BY <2>1, <2>2, StepTyped
    <2>4. /\ ready[j] > 0
          /\ ready' = [ready EXCEPT ![j] = @ - 1]
          /\ sending' = sending
      BY <1>5, Zenon DEF Take
    <2>5. BrokerOK'
      BY <2>4 DEF BrokerOK
    <2> QED
      BY <1>5, <2>3, <2>5, CountTyped DEF Take, RowsOK, content, ContentOK
  <1> QED
    BY <1>1, <1>2, <1>3, <1>4, <1>5 DEF FaultStep

\* So does whatever the API, an operator or an editor does.
LEMMA RequestTyped ==
  ASSUME TypeInv,
         \/ \E j \in Jobs, c \in Contents : Accept(j, c)
         \/ \E j \in Jobs : \/ Publish(j) \/ PublishLost(j) \/ LoseTempFile(j)
                            \/ OperatorStep(j)
         \/ \E d \in Docs : DeleteDocument(d)
  PROVE  TypeInv'
  <1> USE DEF TypeInv
  <1>0. ASSUME NEW row \in JobRow, NEW reset \in BOOLEAN, NEW clear \in BOOLEAN
        PROVE  Received(row, reset, clear) \in JobRow
    BY DEF Received, JobRow, IngestState
  <1>1. ASSUME NEW j \in Jobs, NEW c \in Contents, Accept(j, c) PROVE TypeInv'
    <2> DEFINE r == [NoRow EXCEPT !.state = "RECEIVED", !.temp = c]
    <2>1. r \in JobRow
      BY DEF NoRow, JobRow, IngestState
    <2>2. job' = [job EXCEPT ![j] = r]
      BY <1>1 DEF Accept
    <2>3. RowsOK'
      BY <2>1, <2>2, RowTyped
    <2>4. sending' = [sending EXCEPT ![j] = @ + 1] /\ ready' = ready
      BY <1>1, Zenon DEF Accept
    <2>5. BrokerOK'
      BY <2>4 DEF BrokerOK
    <2> QED
      BY <1>1, <2>3, <2>5, CountTyped DEF Accept, WorkersOK, content, ContentOK
  <1>2. ASSUME NEW j \in Jobs, Publish(j) \/ PublishLost(j) PROVE TypeInv'
    BY <1>2, CountTyped
    DEF Publish, PublishLost, WorkersOK, RowsOK, content, ContentOK, BrokerOK
  <1>3. ASSUME NEW j \in Jobs, LoseTempFile(j) PROVE TypeInv'
    <2> DEFINE r == [job[j] EXCEPT !.temp = NoContent]
    <2>1. job[j] \in JobRow
      BY DEF RowsOK
    <2>2. r \in JobRow
      BY <2>1 DEF JobRow
    <2>3. RowsOK'
      BY <1>3, <2>2, RowTyped DEF LoseTempFile
    <2> QED
      BY <1>3, <2>3, CountTyped
      DEF LoseTempFile, WorkersOK, content, ContentOK, broker, BrokerOK
  <1>4. ASSUME NEW j \in Jobs, NEW force \in ForceFlags, NEW reset \in BOOLEAN,
               NEW clear \in BOOLEAN, Requeue(j, force, reset, clear)
        PROVE  TypeInv'
    <2>1. job[j] \in JobRow
      BY DEF RowsOK
    <2>2. RowsOK'
      BY <1>0, <1>4, <2>1, RowTyped DEF Requeue
    <2> QED
      BY <1>4, <2>2, CountTyped DEF Requeue, WorkersOK, content, ContentOK, BrokerOK
  <1>5. ASSUME NEW j \in Jobs, NEW c \in Contents, NEW reset \in BOOLEAN,
               NEW clear \in BOOLEAN, RecoverUpload(j, c, reset, clear)
        PROVE  TypeInv'
    <2> DEFINE r == [Received(job[j], reset, clear) EXCEPT !.temp = c]
    <2>1. Received(job[j], reset, clear) \in JobRow
      BY <1>0 DEF RowsOK
    <2>2. r \in JobRow
      BY <2>1 DEF JobRow
    <2>3. RowsOK'
      BY <1>5, <2>2, RowTyped DEF RecoverUpload
    <2> QED
      BY <1>5, <2>3, CountTyped
      DEF RecoverUpload, WorkersOK, content, ContentOK, BrokerOK
  <1>6. ASSUME NEW j \in Jobs, Reprocess(j) PROVE TypeInv'
    BY <1>6, CountTyped DEF Reprocess, WorkersOK, RowsOK, content, ContentOK, BrokerOK
  <1>7. ASSUME NEW d \in Docs, DeleteDocument(d) PROVE TypeInv'
    <2> DEFINE r == [doc[d] EXCEPT !.life = "deleted", !.file = NoContent]
    <2>1. doc[d] \in DocRow
      BY DEF ContentOK
    <2>2. r \in DocRow
      BY <2>1 DEF DocRow
    <2>3. doc' = [doc EXCEPT ![d] = r]
      BY <1>7 DEF DeleteDocument
    <2>4. ASSUME NEW j \in Jobs PROVE [job[j] EXCEPT !.doc = NoDoc] \in JobRow
      BY DEF RowsOK, JobRow
    <2>5. RowsOK'
      BY <1>7, <2>4 DEF DeleteDocument, RowsOK
    <2>6. ContentOK'
      BY <1>7, <2>2, <2>3 DEF DeleteDocument, ContentOK
    <2> QED
      BY <1>7, <2>5, <2>6, CountTyped DEF DeleteDocument, WorkersOK, broker, BrokerOK
  <1> QED
    BY <1>1, <1>2, <1>3, <1>4, <1>5, <1>6, <1>7 DEF OperatorStep

LEMMA TypeStep == TypeInv /\ [Next]_vars => TypeInv'
  <1> SUFFICES ASSUME TypeInv, [Next]_vars PROVE TypeInv'
    OBVIOUS
  <1>1. CASE UNCHANGED vars
    BY <1>1 DEF vars, TypeInv, WorkersOK, RowsOK, ContentOK, BrokerOK
  <1>2. CASE Next
    BY <1>2, PipelineTyped, FailureTyped, FaultTyped, RequestTyped
    DEF Next, WorkerStep
  <1> QED
    BY <1>1, <1>2

LEMMA TypeAlways == Spec => []TypeInv
  BY TypeInit, TypeStep, PTL DEF Spec

\* Every reachable state is well typed: no message count goes below zero, and a
\* process that runs always names a job that was accepted.
THEOREM TypeCorrect == Spec => []TypeOK
  BY TypeAlways, TypeInvGivesTypeOK, PTL

-----------------------------------------------------------------------------
(* The link from a job to its document.                                    *)

\* The job has its document, or an editor deleted one it had made.
HasDocument(j) ==
    \/ job[j].doc # NoDoc
    \/ \E d \in DocsOf(j) : doc[d].life = "deleted"

\* Only accepted jobs are published, delivered and run, or have a document.
Accepted ==
    /\ \A j \in Jobs : job[j].state = "none" => job[j].doc = NoDoc
    /\ \A j \in Jobs : Awaited(j) => job[j].state # "none"
    /\ \A w \in Workers : ~At(w, "idle") => job[wk[w].job].state # "none"

\* What a run between its documents row and its job's last state has done.
Made(w) ==
    /\ wk[w].pc \in {"tags", "newtag", "attach"} =>
          /\ wk[w].doc \in Docs
          /\ doc[wk[w].doc].life # "free"
          /\ doc[wk[w].doc].by = wk[w].job
    /\ wk[w].pc = "attach" => doc[wk[w].doc].version
    /\ wk[w].pc \in {"index", "finish"} => HasDocument(wk[w].job)

LinkInv ==
    /\ TypeInv
    /\ Accepted
    /\ \A w \in Workers : Made(w)
    /\ JobDocumentComplete
    /\ SuccessHasDocument

\* A step that leaves every document that is there as it is, or adds to it.
DocsGrow ==
    \A d \in Docs : doc[d].life # "free" =>
        /\ doc'[d].life = doc[d].life
        /\ doc'[d].by = doc[d].by
        /\ doc[d].version => doc'[d].version

\* A step that moves no job to another document, forgets no job, and lets none
\* succeed that has no document.
RowsKept ==
    \A j \in Jobs :
        /\ job'[j].doc = job[j].doc
        /\ job[j].state # "none" => job'[j].state # "none"
        /\ job'[j].state \in SuccessStates =>
              job[j].state \in SuccessStates \/ HasDocument(j)

LEMMA HasDocumentKept ==
  ASSUME DocsGrow, RowsKept, NEW j \in Jobs, HasDocument(j)
  PROVE  HasDocument(j)'
  BY DEF DocsGrow, RowsKept, HasDocument, DocsOf

\* Such a step keeps the invariant if the run that takes it has done what its
\* next place asks for.
LEMMA Frame ==
  ASSUME LinkInv, TypeInv', DocsGrow, RowsKept,
         \A j \in Jobs : Awaited(j)' => Awaited(j) \/ job'[j].state # "none",
         \A w \in Workers :
            \/ /\ wk'[w].pc = wk[w].pc
               /\ wk'[w].job = wk[w].job
               /\ wk'[w].doc = wk[w].doc
            \/ /\ Made(w)'
               /\ wk'[w].pc # "idle" => job'[wk'[w].job].state # "none"
  PROVE  LinkInv'
  <1>1. JobDocumentComplete'
    <2> SUFFICES ASSUME NEW j \in Jobs, job'[j].doc # NoDoc
                 PROVE  /\ doc'[job'[j].doc].life = "live"
                        /\ doc'[job'[j].doc].by = j
                        /\ doc'[job'[j].doc].version
      BY DEF JobDocumentComplete
    <2>1. job[j].doc = job'[j].doc /\ job[j].doc # NoDoc
      BY DEF RowsKept
    <2>2. job[j].doc \in Docs
      BY <2>1 DEF LinkInv, TypeInv, RowsOK, JobRow
    <2> QED
      BY <2>1, <2>2 DEF LinkInv, JobDocumentComplete, DocsGrow
  <1>2. SuccessHasDocument'
    <2>1. ASSUME NEW j \in Jobs, job'[j].state \in SuccessStates
          PROVE  HasDocument(j)'
      <3>1. HasDocument(j)
        BY <2>1 DEF RowsKept, LinkInv, SuccessHasDocument, HasDocument
      <3> QED
        BY <3>1, HasDocumentKept
    <2> QED
      BY <2>1 DEF SuccessHasDocument, HasDocument
  <1>3. ASSUME NEW w \in Workers, wk'[w].pc = wk[w].pc, wk'[w].job = wk[w].job,
               wk'[w].doc = wk[w].doc
        PROVE  /\ Made(w)'
               /\ wk'[w].pc # "idle" => job'[wk'[w].job].state # "none"
    <2>1. wk[w].pc # "idle" => wk[w].job \in Jobs
      BY DEF LinkInv, TypeInv, WorkersOK, Sound
    <2>2. Made(w) /\ (wk[w].pc # "idle" => job[wk[w].job].state # "none")
      BY DEF LinkInv, Accepted, At
    <2>3. wk'[w].pc # "idle" => job'[wk'[w].job].state # "none"
      BY <1>3, <2>1, <2>2 DEF RowsKept
    <2>4. \A j \in Jobs : HasDocument(j) => HasDocument(j)'
      BY HasDocumentKept
    <2>5. CASE wk[w].pc \in {"index", "finish"}
      BY <1>3, <2>1, <2>2, <2>3, <2>4, <2>5 DEF Made, HasDocument, DocsOf
    <2>6. CASE wk[w].pc \notin {"index", "finish"}
      BY <1>3, <2>2, <2>3, <2>6 DEF Made, DocsGrow
    <2> QED
      BY <2>5, <2>6
  <1>4. Accepted'
    BY <1>3 DEF LinkInv, Accepted, At, RowsKept
  <1> QED
    BY <1>1, <1>2, <1>3, <1>4 DEF LinkInv

LEMMA LinkInit == Init => LinkInv
  <1> SUFFICES ASSUME Init PROVE LinkInv
    OBVIOUS
  <1>1. TypeInv
    BY TypeInit
  <1>2. Accepted
    BY DEF Init, Accepted, Awaited, At, Idle, NoRow
  <1>3. \A w \in Workers : Made(w)
    BY DEF Init, Made, Idle
  <1>4. JobDocumentComplete /\ SuccessHasDocument
    BY DEF Init, JobDocumentComplete, SuccessHasDocument, SuccessStates, NoRow
  <1> QED
    BY <1>1, <1>2, <1>3, <1>4 DEF LinkInv

\* A run that is not between its documents row and its job's last state.
Bare == Pc \ {"tags", "newtag", "attach", "index", "finish"}

LEMMA QuietStep ==
  ASSUME LinkInv, TypeInv', NEW w \in Workers, ~At(w, "idle"),
         doc' = doc, RowsKept,
         \A j \in Jobs : Awaited(j)' => Awaited(j) \/ job'[j].state # "none",
         wk'[w].pc \in Bare,
         wk'[w].pc = "idle" \/ wk'[w].job = wk[w].job,
         \A v \in Workers \ {w} : wk'[v] = wk[v]
  PROVE  LinkInv'
  <1>1. DocsGrow
    BY DEF DocsGrow
  <1>2. wk[w].job \in Jobs /\ job[wk[w].job].state # "none"
    BY DEF LinkInv, TypeInv, WorkersOK, Sound, At, Accepted
  <1>3. Made(w)' /\ (wk'[w].pc # "idle" => job'[wk'[w].job].state # "none")
    BY <1>2 DEF Made, Bare, RowsKept
  <1> QED
    BY <1>1, <1>3, Frame

LEMMA SetStateKept ==
  ASSUME RowsOK, NEW j \in Jobs, NEW state \in IngestState, SetState(j, state),
         state \in SuccessStates => HasDocument(j)
  PROVE  RowsKept
  BY DEF RowsOK, JobRow, SetState, RowsKept, IngestState

\* The pipeline keeps the link.
LEMMA PipelineLinked ==
  ASSUME LinkInv, TypeInv', NEW w \in Workers, PipelineStep(w)
  PROVE  LinkInv'
  <1>0. /\ wk \in [Workers -> Process]
        /\ RowsOK
        /\ ~At(w, "idle") => wk[w].job \in Jobs /\ job[wk[w].job].state # "none"
        /\ Made(w)
    BY DEF LinkInv, TypeInv, WorkersOK, Sound, At, Accepted
  <1>1. ASSUME UNCHANGED job PROVE RowsKept
    BY <1>1 DEF RowsKept
  <1>2. ASSUME UNCHANGED broker
        PROVE  \A j \in Jobs : Awaited(j)' => Awaited(j) \/ job'[j].state # "none"
    BY <1>2 DEF broker, Awaited
  <1>3. ASSUME ~At(w, "idle"), NEW pc \in Bare, Goto(w, pc)
        PROVE  /\ wk'[w].pc \in Bare
               /\ wk'[w].job = wk[w].job
               /\ \A v \in Workers \ {w} : wk'[v] = wk[v]
    BY <1>0, <1>3 DEF Goto, Process
  <1>4. ASSUME ~At(w, "idle"), LeaveTask(w) \/ \E code \in ErrorCode : Raise(w, code)
        PROVE  /\ wk'[w].pc \in Bare
               /\ wk'[w].pc = "idle" \/ wk'[w].job = wk[w].job
               /\ \A v \in Workers \ {w} : wk'[v] = wk[v]
    BY <1>0, <1>4 DEF LeaveTask, Raise, Process, Idle, Bare, Pc
  <1>5. CASE Load(w) \/ ReadTempFile(w)
    <2>1. /\ ~At(w, "idle")
          /\ wk'[w].pc \in Bare
          /\ wk'[w].job = wk[w].job
          /\ \A v \in Workers \ {w} : wk'[v] = wk[v]
      BY <1>0, <1>5 DEF Load, ReadTempFile, Raise, At, Process, Bare, Pc
    <2> QED
      BY <1>1, <1>2, <1>5, <2>1, QuietStep DEF Load, ReadTempFile, content
  <1>6. CASE Begin(w)
    <2>1. /\ ~At(w, "idle")
          /\ wk'[w].pc \in Bare
          /\ wk'[w].job = wk[w].job
          /\ \A v \in Workers \ {w} : wk'[v] = wk[v]
      BY <1>0, <1>6 DEF Begin, At, Process, Bare, Pc
    <2>2. RowsKept
      BY <1>0, <1>6 DEF Begin, RowsKept, RowsOK, JobRow
    <2> QED
      BY <1>2, <1>6, <2>1, <2>2, QuietStep DEF Begin, content
  <1>7. CASE PutObject(w) \/ InsertFileRow(w) \/ Return(w)
    <2>1. ~At(w, "idle")
      BY <1>7 DEF PutObject, InsertFileRow, Return, At
    <2>2. /\ wk'[w].pc \in Bare
          /\ wk'[w].pc = "idle" \/ wk'[w].job = wk[w].job
          /\ \A v \in Workers \ {w} : wk'[v] = wk[v]
      BY <1>3, <1>4, <1>7, <2>1
      DEF PutObject, InsertFileRow, Return, FlushFails, Bare, Pc, ErrorCode
    <2> QED
      BY <1>1, <1>2, <1>7, <2>1, <2>2, QuietStep
      DEF PutObject, InsertFileRow, Return, content
  <1>8. CASE SetStored(w) \/ Extract(w)
    <2>1. ~At(w, "idle")
      BY <1>8 DEF SetStored, Extract, At
    <2>2. /\ wk'[w].pc \in Bare
          /\ wk'[w].pc = "idle" \/ wk'[w].job = wk[w].job
          /\ \A v \in Workers \ {w} : wk'[v] = wk[v]
      BY <1>3, <1>4, <1>8, <2>1 DEF SetStored, Extract, Bare, Pc, ErrorCode
    <2>3. RowsKept
      BY <1>0, <1>1, <1>8, <2>1, SetStateKept
      DEF SetStored, Extract, IngestState, SuccessStates
    <2> QED
      BY <1>2, <1>8, <2>1, <2>2, <2>3, QuietStep DEF SetStored, Extract, content
  <1>9. CASE Classify(w)
    <2>1. ~At(w, "idle")
      BY <1>9 DEF Classify, At
    <2>2. /\ wk'[w].pc \in Bare
          /\ wk'[w].pc = "idle" \/ wk'[w].job = wk[w].job
          /\ \A v \in Workers \ {w} : wk'[v] = wk[v]
      <3>1. CASE Raise(w, "RULE_CLASSIFY_FAIL")
        BY <1>4, <2>1, <3>1 DEF ErrorCode
      <3>2. ASSUME NEW names, NEW review,
                   wk' = [wk EXCEPT ![w].pc = "create", ![w].todo = names,
                                    ![w].review = review \/ wk[w].dup]
            PROVE  /\ wk'[w].pc = "create" /\ wk'[w].job = wk[w].job
                   /\ \A v \in Workers \ {w} : wk'[v] = wk[v]
        BY <1>0, <3>2 DEF Process
      <3> QED
        BY <1>9, <3>1, <3>2 DEF Classify, Bare, Pc
    <2>3. RowsKept
      BY <1>0, <1>1, <1>9, <2>1, SetStateKept
      DEF Classify, IngestState, SuccessStates
    <2> QED
      BY <1>2, <1>9, <2>1, <2>2, <2>3, QuietStep DEF Classify, content
  <1>10. ASSUME NEW d \in Docs, CreateDocument(w, d) PROVE LinkInv'
    <2>1. ~At(w, "idle") /\ doc[d].life = "free" /\ job' = job
      BY <1>10 DEF CreateDocument, At
    <2>2. DocsGrow
      BY <1>10 DEF CreateDocument, DocsGrow
    <2>3. /\ wk'[w].pc = "tags"
          /\ wk'[w].job = wk[w].job
          /\ wk'[w].doc = d
          /\ \A v \in Workers \ {w} : wk'[v] = wk[v]
      BY <1>0, <1>10 DEF CreateDocument, Process
    <2>4. doc'[d].life = "live" /\ doc'[d].by = wk[w].job
      BY <1>10 DEF CreateDocument, FreeDoc, LinkInv, TypeInv, ContentOK
    <2>5. Made(w)'
      BY <2>3, <2>4 DEF Made
    <2>6. wk'[w].pc # "idle" => job'[wk'[w].job].state # "none"
      BY <1>0, <2>1, <2>3
    <2> QED
      BY <1>1, <1>2, <1>10, <2>1, <2>2, <2>3, <2>5, <2>6, Frame DEF CreateDocument
  <1>11. ASSUME NEW t \in Tags, LookupTag(w, t) PROVE LinkInv'
    <2>1. ~At(w, "idle") /\ wk[w].pc = "tags" /\ job' = job /\ doc' = doc
      BY <1>11 DEF LookupTag, At, content
    <2>2. /\ wk'[w].pc \in {"tags", "newtag"}
          /\ wk'[w].job = wk[w].job
          /\ wk'[w].doc = wk[w].doc
          /\ \A v \in Workers \ {w} : wk'[v] = wk[v]
      BY <1>0, <1>11, <2>1 DEF LookupTag, Process
    <2>3. Made(w)' /\ job'[wk'[w].job].state # "none"
      BY <1>0, <2>1, <2>2 DEF Made
    <2>4. DocsGrow
      BY SMTT(60), <2>1 DEF DocsGrow
    <2> QED
      BY <1>1, <1>2, <1>11, <2>1, <2>2, <2>3, <2>4, Frame DEF LookupTag
  <1>12. CASE InsertTag(w)
    <2>1. ~At(w, "idle") /\ wk[w].pc = "newtag" /\ job' = job
      BY <1>12 DEF InsertTag, At
    <2>2. /\ wk'[w].pc = "tags"
          /\ wk'[w].job = wk[w].job
          /\ wk'[w].doc = wk[w].doc
          /\ \A v \in Workers \ {w} : wk'[v] = wk[v]
      BY <1>0, <1>12 DEF InsertTag, Process
    <2>3. \A d \in Docs : /\ doc'[d].life = doc[d].life
                          /\ doc'[d].by = doc[d].by
                          /\ doc'[d].version = doc[d].version
      BY <1>12 DEF InsertTag, LinkInv, TypeInv, ContentOK, DocRow
    <2>4. DocsGrow
      BY <2>3 DEF DocsGrow
    <2>5. Made(w)' /\ job'[wk'[w].job].state # "none"
      BY <1>0, <2>1, <2>2, <2>3 DEF Made
    <2> QED
      BY ZenonT(60), <1>1, <1>2, <1>12, <2>1, <2>2, <2>4, <2>5, Frame DEF InsertTag
  <1>13. CASE WriteVersion(w)
    <2>1. ~At(w, "idle") /\ wk[w].pc = "tags" /\ job' = job
      BY <1>13 DEF WriteVersion, At
    <2>2. CASE doc' = doc /\ RowGone(w, "DB_WRITE_FAIL")
      <3>1. /\ wk'[w].pc \in Bare
            /\ wk'[w].pc = "idle" \/ wk'[w].job = wk[w].job
            /\ \A v \in Workers \ {w} : wk'[v] = wk[v]
        BY <1>4, <2>1, <2>2 DEF RowGone, FlushFails, ErrorCode
      <3> QED
        BY <1>1, <1>2, <1>13, <2>1, <2>2, <3>1, QuietStep DEF WriteVersion
    <2>3. CASE /\ doc' = [doc EXCEPT ![wk[w].doc].file = Linked(w),
                                     ![wk[w].doc].version = TRUE]
               /\ wk' = [wk EXCEPT ![w].pc = "attach", ![w].pending = FALSE]
      <3>1. /\ wk'[w].pc = "attach"
            /\ wk'[w].job = wk[w].job
            /\ wk'[w].doc = wk[w].doc
            /\ \A v \in Workers \ {w} : wk'[v] = wk[v]
        BY <1>0, <2>3 DEF Process
      <3>2. \A d \in Docs : /\ doc'[d].life = doc[d].life
                            /\ doc'[d].by = doc[d].by
                            /\ doc[d].version => doc'[d].version
        BY <2>3 DEF LinkInv, TypeInv, ContentOK, DocRow
      <3>3. wk[w].doc \in Docs /\ doc'[wk[w].doc].version
        BY <1>0, <2>1, <2>3 DEF Made, LinkInv, TypeInv, ContentOK, DocRow
      <3>4. DocsGrow
        BY <3>2 DEF DocsGrow
      <3>5. Made(w)' /\ job'[wk'[w].job].state # "none"
        BY <1>0, <2>1, <3>1, <3>2, <3>3 DEF Made
      <3> QED
        BY <1>1, <1>2, <1>13, <2>1, <3>1, <3>4, <3>5, Frame DEF WriteVersion
    <2> QED
      BY <1>13, <2>2, <2>3 DEF WriteVersion
  <1>14. CASE SetIndexed(w) \/ SetFinished(w)
    <2>1. /\ ~At(w, "idle") /\ wk[w].pc \in {"index", "finish"} /\ doc' = doc
          /\ HasDocument(wk[w].job)
      BY <1>0, <1>14 DEF SetIndexed, SetFinished, At, content, Made
    <2>2. RowsKept
      BY <1>0, <1>1, <1>14, <2>1, SetStateKept
      DEF SetIndexed, SetFinished, IngestState
    <2>3. CASE Raise(w, "PIPELINE_UNEXPECTED")
      BY <1>2, <1>4, <1>14, <2>1, <2>2, <2>3, QuietStep
      DEF SetIndexed, SetFinished, ErrorCode
    <2>4. CASE Goto(w, "return")
      BY <1>2, <1>3, <1>14, <2>1, <2>2, <2>4, QuietStep
      DEF SetIndexed, SetFinished, Bare, Pc
    <2>5. CASE SetIndexed(w) /\ Goto(w, "finish")
      <3>1. /\ wk'[w].pc = "finish"
            /\ wk'[w].job = wk[w].job
            /\ \A v \in Workers \ {w} : wk'[v] = wk[v]
        BY <1>0, <2>5 DEF Goto, Process
      <3>2. DocsGrow
        BY <2>1 DEF DocsGrow
      <3>3. PICK j \in Jobs : j = wk[w].job
        BY <1>0, <2>1
      <3>4. HasDocument(j)'
        BY <2>1, <2>2, <3>2, <3>3, HasDocumentKept
      <3>5. Made(w)'
        BY <3>1, <3>3, <3>4 DEF Made, HasDocument, DocsOf
      <3>6. job'[wk'[w].job].state # "none"
        BY <1>0, <2>1, <2>2, <3>1 DEF RowsKept
      <3> QED
        BY <1>2, <2>2, <2>5, <3>1, <3>2, <3>5, <3>6, Frame DEF SetIndexed
    <2> QED
      BY <1>14, <2>3, <2>4, <2>5 DEF SetIndexed, SetFinished
  <1>15. CASE AttachDocument(w)
    <2>1. ~At(w, "idle") /\ wk[w].pc = "attach" /\ doc' = doc
      BY <1>15 DEF AttachDocument, At, content
    <2>2. CASE job' = job /\ RowGone(w, "PIPELINE_UNEXPECTED")
      <3>1. /\ wk'[w].pc \in Bare
            /\ wk'[w].pc = "idle" \/ wk'[w].job = wk[w].job
            /\ \A v \in Workers \ {w} : wk'[v] = wk[v]
        BY <1>4, <2>1, <2>2 DEF RowGone, FlushFails, ErrorCode
      <3> QED
        BY <1>1, <1>2, <1>15, <2>1, <2>2, <3>1, QuietStep DEF AttachDocument
    <2>3. CASE /\ DocIsLive(w)
               /\ job' = [job EXCEPT ![wk[w].job].doc = wk[w].doc]
               /\ Goto(w, "index")
      <3>1. /\ wk'[w].pc = "index"
            /\ wk'[w].job = wk[w].job
            /\ \A v \in Workers \ {w} : wk'[v] = wk[v]
        BY <1>0, <2>3 DEF Goto, Process
      <3>2. /\ wk[w].job \in Jobs
            /\ wk[w].doc \in Docs
            /\ doc[wk[w].doc].life = "live"
            /\ doc[wk[w].doc].by = wk[w].job
            /\ doc[wk[w].doc].version
        BY <1>0, <2>1, <2>3 DEF Made, DocIsLive
      <3>3. \A j \in Jobs :
               /\ job'[j].state = job[j].state
               /\ job'[j].doc = IF j = wk[w].job THEN wk[w].doc ELSE job[j].doc
        BY <1>0, <2>3, <3>2 DEF RowsOK, JobRow
      <3>4. JobDocumentComplete'
        BY <2>1, <3>2, <3>3 DEF JobDocumentComplete, LinkInv
      <3>5. \A j \in Jobs : HasDocument(j) => HasDocument(j)'
        BY NullsAssumption, <2>1, <3>2, <3>3 DEF HasDocument, DocsOf
      <3>6. SuccessHasDocument'
        BY <3>3, <3>5 DEF SuccessHasDocument, HasDocument, LinkInv
      <3>7. Accepted'
        BY <1>0, <1>15, <2>1, <3>1, <3>2, <3>3
        DEF AttachDocument, Accepted, Awaited, At, broker, LinkInv, TypeInv,
            WorkersOK, Sound
      <3>8. ASSUME NEW v \in Workers PROVE Made(v)'
        <4>1. wk[v].pc # "idle" => wk[v].job \in Jobs
          BY DEF LinkInv, TypeInv, WorkersOK, Sound
        <4>2. CASE v = w
          BY NullsAssumption, <3>1, <3>2, <3>3, <4>2 DEF Made, HasDocument
        <4>3. CASE v # w
          BY <2>1, <3>1, <3>5, <4>1, <4>3
          DEF Made, HasDocument, DocsOf, LinkInv
        <4> QED
          BY <4>2, <4>3
      <3> QED
        BY <3>4, <3>6, <3>7, <3>8 DEF LinkInv
    <2> QED
      BY <1>15, <2>2, <2>3 DEF AttachDocument
  <1> QED
    BY <1>5, <1>6, <1>7, <1>8, <1>9, <1>10, <1>11, <1>12, <1>13, <1>14, <1>15
    DEF PipelineStep

\* The failure path and the faults keep it.
LEMMA FailureLinked ==
  ASSUME LinkInv, TypeInv', NEW w \in Workers, FailureStep(w) \/ FaultStep(w)
  PROVE  LinkInv'
  <1>0. /\ wk \in [Workers -> Process]
        /\ RowsOK
        /\ BrokerOK
        /\ ~At(w, "idle") => wk[w].job \in Jobs /\ job[wk[w].job].state # "none"
    BY DEF LinkInv, TypeInv, WorkersOK, Sound, At, Accepted
  <1>1. ASSUME UNCHANGED job PROVE RowsKept
    BY <1>1 DEF RowsKept
  <1>2. ASSUME UNCHANGED broker
        PROVE  \A j \in Jobs : Awaited(j)' => Awaited(j) \/ job'[j].state # "none"
    BY <1>2 DEF broker, Awaited
  <1>3. ASSUME UNCHANGED <<job, sending>>, ~At(w, "idle"),
               ready' = [ready EXCEPT ![wk[w].job] = @ + 1]
        PROVE  \A j \in Jobs : Awaited(j)' => Awaited(j) \/ job'[j].state # "none"
    BY <1>0, <1>3 DEF Awaited, BrokerOK
  <1>4. ASSUME LeaveTask(w)
        PROVE  /\ wk'[w].pc \in Bare /\ wk'[w].pc = "idle"
               /\ \A v \in Workers \ {w} : wk'[v] = wk[v]
    BY <1>0, <1>4 DEF LeaveTask, Idle, Bare, Pc
  <1>5. ASSUME NEW pc \in Bare, Goto(w, pc)
        PROVE  /\ wk'[w].pc \in Bare
               /\ wk'[w].job = wk[w].job
               /\ \A v \in Workers \ {w} : wk'[v] = wk[v]
    BY <1>0, <1>5 DEF Goto, Process
  <1>6. CASE RecordError(w)
    <2>1. /\ ~At(w, "idle")
          /\ wk'[w].pc \in Bare
          /\ wk'[w].job = wk[w].job
          /\ \A v \in Workers \ {w} : wk'[v] = wk[v]
      BY <1>0, <1>6 DEF RecordError, At, Process, Idle, Bare, Pc
    <2>2. RowsKept
      BY <1>0, <1>6 DEF RecordError, RowsKept, RowsOK, JobRow
    <2> QED
      BY <1>2, <1>6, <2>1, <2>2, QuietStep DEF RecordError, content
  <1>7. CASE MarkFailed(w)
    <2>1. ~At(w, "idle")
      BY <1>7 DEF MarkFailed, At
    <2>2. RowsKept
      BY <1>0, <1>7, <2>1, SetStateKept
      DEF MarkFailed, IngestState, SuccessStates
    <2> QED
      BY <1>2, <1>5, <1>7, <2>1, <2>2, QuietStep DEF MarkFailed, content, Bare, Pc
  <1>8. CASE Decide(w)
    <2>1. ~At(w, "idle")
      BY SMTT(60), <1>8 DEF Decide, At
    <2> QED
      BY <1>1, <1>2, <1>5, <1>8, <2>1, QuietStep DEF Decide, content, Bare, Pc
  <1>9. CASE ScheduleRetry(w)
    <2>1. ~At(w, "idle")
      BY <1>9 DEF ScheduleRetry, At
    <2>2. RowsKept
      BY SMTT(60), <1>0, <1>9, <2>1
      DEF ScheduleRetry, RowsKept, RowsOK, JobRow, SuccessStates
    <2> QED
      BY <1>2, <1>5, <1>9, <2>1, <2>2, QuietStep
      DEF ScheduleRetry, content, Bare, Pc
  <1>10. CASE DeadLetter(w)
    <2>1. ~At(w, "idle")
      BY <1>10 DEF DeadLetter, At
    <2>2. RowsKept
      BY <1>0, <1>10, <2>1 DEF DeadLetter, RowsKept, RowsOK, JobRow, SuccessStates
    <2> QED
      BY <1>2, <1>4, <1>10, <2>1, <2>2, QuietStep DEF DeadLetter, content
  <1>11. CASE PublishRetry(w)
    <2>1. ~At(w, "idle")
      BY <1>11 DEF PublishRetry, At
    <2> QED
      BY <1>1, <1>3, <1>4, <1>11, <2>1, QuietStep DEF PublishRetry, content
  <1>12. CASE PublishRetryFails(w)
    <2>1. ~At(w, "idle")
      BY <1>12 DEF PublishRetryFails, At
    <2>2. /\ wk'[w].pc \in Bare
          /\ wk'[w].pc = "idle" \/ wk'[w].job = wk[w].job
          /\ \A v \in Workers \ {w} : wk'[v] = wk[v]
      BY <1>0, <1>4, <1>12 DEF PublishRetryFails, Process, Bare, Pc
    <2> QED
      BY <1>1, <1>2, <1>12, <2>1, <2>2, QuietStep DEF PublishRetryFails, content
  <1>13. CASE WorkerKilled(w)
    <2>1. \A j \in Jobs : Awaited(j)' => Awaited(j) \/ job'[j].state # "none"
      BY <1>2, <1>3, <1>13 DEF WorkerKilled, broker
    <2> QED
      BY <1>1, <1>4, <1>13, <2>1, QuietStep DEF WorkerKilled, content
  <1>14. CASE ChildKilled(w)
    BY <1>1, <1>2, <1>4, <1>14, QuietStep DEF ChildKilled, content
  <1>15. CASE Redeliver(w)
    <2>1. /\ wk'[w].pc = wk[w].pc
          /\ wk'[w].job = wk[w].job
          /\ wk'[w].doc = wk[w].doc
          /\ \A v \in Workers \ {w} : wk'[v] = wk[v]
      BY <1>0, <1>15 DEF Redeliver, Process
    <2>2. DocsGrow
      BY <1>15 DEF Redeliver, content, DocsGrow
    <2> QED
      BY <1>1, <1>3, <1>15, <2>1, <2>2, Frame DEF Redeliver
  <1> QED
    BY <1>6, <1>7, <1>8, <1>9, <1>10, <1>11, <1>12, <1>13, <1>14, <1>15
    DEF FailureStep, FaultStep

\* So do deliveries, requests and operators, and an editor's delete.
LEMMA RequestLinked ==
  ASSUME LinkInv, TypeInv',
         \/ \E w \in Workers, j \in Jobs : Take(w, j)
         \/ \E j \in Jobs, c \in Contents : Accept(j, c)
         \/ \E j \in Jobs : \/ Publish(j) \/ PublishLost(j) \/ LoseTempFile(j)
                            \/ OperatorStep(j)
         \/ \E d \in Docs : DeleteDocument(d)
  PROVE  LinkInv'
  <1>0. WorkersOK /\ RowsOK /\ ContentOK /\ BrokerOK /\ Accepted
    BY DEF LinkInv, TypeInv
  <1>1. ASSUME UNCHANGED job PROVE RowsKept
    BY <1>1 DEF RowsKept
  <1>2. ASSUME UNCHANGED doc PROVE DocsGrow
    BY <1>2 DEF DocsGrow
  <1>3. ASSUME NEW w \in Workers, NEW j \in Jobs, Take(w, j) PROVE LinkInv'
    <2>1. /\ wk'[w].pc = "load"
          /\ wk'[w].job = j
          /\ \A v \in Workers \ {w} : wk'[v] = wk[v]
      BY <1>0, <1>3 DEF Take, Idle, WorkersOK
    <2>2. job' = job /\ doc' = doc /\ job[j].state # "none"
      BY <1>0, <1>3 DEF Take, content, Accepted, Awaited
    <2>3. ready' = [ready EXCEPT ![j] = @ - 1] /\ sending' = sending
      BY <1>3, Zenon DEF Take
    <2>4. \A i \in Jobs \ {j} : Awaited(i)' => Awaited(i)
      BY <1>0, <2>3 DEF Awaited, BrokerOK
    <2>5. Made(w)' /\ job'[wk'[w].job].state # "none"
      BY <2>1, <2>2 DEF Made
    <2> QED
      BY <1>1, <1>2, <2>1, <2>2, <2>4, <2>5, Frame
  <1>4. ASSUME NEW j \in Jobs, NEW c \in Contents, Accept(j, c) PROVE LinkInv'
    <2> DEFINE r == [NoRow EXCEPT !.state = "RECEIVED", !.temp = c]
    <2>1. /\ job' = [job EXCEPT ![j] = r]
          /\ sending' = [sending EXCEPT ![j] = @ + 1]
          /\ doc' = doc /\ wk' = wk /\ ready' = ready
          /\ job[j].state = "none"
      BY <1>4, Zenon DEF Accept, content
    <2>2. r.doc = NoDoc /\ r.state = "RECEIVED"
      BY DEF NoRow
    <2>3. job[j].doc = NoDoc
      BY <1>0, <2>1 DEF Accepted
    <2>4. RowsKept
      BY <1>0, <2>1, <2>2, <2>3 DEF RowsKept, RowsOK, SuccessStates
    <2>5. \A i \in Jobs \ {j} : Awaited(i)' => Awaited(i)
      BY <1>0, <2>1 DEF Awaited, BrokerOK
    <2>6. job'[j].state # "none"
      BY <1>0, <2>1, <2>2 DEF RowsOK
    <2> QED
      BY <1>2, <2>1, <2>4, <2>5, <2>6, Frame
  <1>5. ASSUME NEW j \in Jobs, Publish(j) \/ PublishLost(j) PROVE LinkInv'
    <2>1. job' = job /\ doc' = doc /\ wk' = wk
      BY <1>5 DEF Publish, PublishLost, content
    <2>2. \A i \in Jobs : Awaited(i)' => Awaited(i)
      BY <1>0, <1>5 DEF Publish, PublishLost, Awaited, BrokerOK
    <2> QED
      BY <1>1, <1>2, <2>1, <2>2, Frame
  <1>6. ASSUME NEW j \in Jobs, LoseTempFile(j) PROVE LinkInv'
    <2>1. doc' = doc /\ wk' = wk /\ UNCHANGED broker
      BY <1>6 DEF LoseTempFile, content
    <2>2. RowsKept
      BY <1>0, <1>6 DEF LoseTempFile, RowsKept, RowsOK, JobRow
    <2>3. \A i \in Jobs : Awaited(i)' => Awaited(i)
      BY <2>1 DEF broker, Awaited
    <2> QED
      BY <1>2, <2>1, <2>2, <2>3, Frame
  <1>7. ASSUME NEW j \in Jobs, OperatorStep(j) PROVE LinkInv'
    <2>1. doc' = doc /\ wk' = wk
      BY <1>7 DEF OperatorStep, Requeue, RecoverUpload, Reprocess, content
    <2>2. RowsKept
      <3>1. ASSUME NEW reset, NEW clear,
                   job' = [job EXCEPT ![j] = Received(@, reset, clear)]
            PROVE  RowsKept
        BY <1>0, <3>1 DEF Received, RowsKept, RowsOK, JobRow, SuccessStates
      <3>2. ASSUME NEW c, NEW reset, NEW clear,
                   job' = [job EXCEPT ![j] =
                             [Received(@, reset, clear) EXCEPT !.temp = c]]
            PROVE  RowsKept
        BY <1>0, <3>2 DEF Received, RowsKept, RowsOK, JobRow, SuccessStates
      <3> QED
        BY <1>1, <1>7, <3>1, <3>2
        DEF OperatorStep, Requeue, RecoverUpload, Reprocess
    <2>3. job[j].state # "none"
      BY <1>7 DEF OperatorStep, Requeue, RecoverUpload, Reprocess
    <2>4. \A i \in Jobs \ {j} : Awaited(i)' => Awaited(i)
      BY <1>0, <1>7
      DEF OperatorStep, Requeue, RecoverUpload, Reprocess, Awaited, BrokerOK
    <2>5. \A i \in Jobs : Awaited(i)' => Awaited(i) \/ job'[i].state # "none"
      BY <2>2, <2>3, <2>4 DEF RowsKept
    <2> QED
      BY <1>2, <2>1, <2>2, <2>5, Frame
  <1>8. ASSUME NEW d \in Docs, DeleteDocument(d) PROVE LinkInv'
    <2>1. wk' = wk /\ UNCHANGED broker /\ doc[d].life = "live"
      BY <1>8 DEF DeleteDocument
    <2>2. \A j \in Jobs :
             /\ job'[j].state = job[j].state
             /\ job'[j].doc = IF job[j].doc = d THEN NoDoc ELSE job[j].doc
      BY <1>0, <1>8 DEF DeleteDocument, RowsOK, JobRow
    <2>3. /\ \A e \in Docs \ {d} : doc'[e] = doc[e]
          /\ doc'[d].life = "deleted"
          /\ doc'[d].by = doc[d].by
          /\ doc'[d].version = doc[d].version
      BY <1>0, <1>8 DEF DeleteDocument, ContentOK, DocRow
    <2>4. JobDocumentComplete'
      BY <1>0, <2>2, <2>3
      DEF JobDocumentComplete, LinkInv, RowsOK, JobRow
    <2>5. \A j \in Jobs : HasDocument(j) => HasDocument(j)'
      BY <1>0, <2>2, <2>3
      DEF HasDocument, DocsOf, JobDocumentComplete, LinkInv
    <2>6. SuccessHasDocument'
      BY <2>2, <2>5 DEF SuccessHasDocument, HasDocument, LinkInv
    <2>7. Accepted'
      BY <1>0, <2>1, <2>2
      DEF Accepted, Awaited, At, broker, WorkersOK, Sound
    <2>8. ASSUME NEW w \in Workers PROVE Made(w)'
      <3>1. Made(w) /\ (wk[w].pc # "idle" => wk[w].job \in Jobs)
        BY <1>0 DEF LinkInv, WorkersOK, Sound
      <3>2. CASE wk[w].pc \in {"index", "finish"}
        BY <2>1, <2>5, <3>1, <3>2 DEF Made, HasDocument, DocsOf
      <3>3. CASE wk[w].pc \notin {"index", "finish"}
        BY <2>1, <2>3, <3>1, <3>3 DEF Made
      <3> QED
        BY <3>2, <3>3
    <2> QED
      BY <2>4, <2>6, <2>7, <2>8 DEF LinkInv
  <1> QED
    BY <1>3, <1>4, <1>5, <1>6, <1>7, <1>8

LEMMA LinkStep == LinkInv /\ [Next]_vars => LinkInv'
  <1> SUFFICES ASSUME LinkInv, [Next]_vars PROVE LinkInv'
    OBVIOUS
  <1>0. TypeInv'
    BY TypeStep DEF LinkInv
  <1>1. CASE UNCHANGED vars
    <2>1. RowsKept /\ DocsGrow /\ wk' = wk /\ UNCHANGED broker
      BY <1>1 DEF vars, RowsKept, DocsGrow, broker
    <2>2. \A j \in Jobs : Awaited(j)' => Awaited(j)
      BY <2>1 DEF broker, Awaited
    <2> QED
      BY <1>0, <2>1, <2>2, Frame
  <1>2. CASE Next
    BY <1>0, <1>2, PipelineLinked, FailureLinked, RequestLinked
    DEF Next, WorkerStep
  <1> QED
    BY <1>1, <1>2

LEMMA LinkAlways == Spec => []LinkInv
  BY LinkInit, LinkStep, PTL DEF Spec

\* However a job is retried, redelivered, requeued or raced, its document_id
\* names a live document that this job made and that has its first version.
THEOREM JobDocumentIsComplete == Spec => []JobDocumentComplete
  <1>1. LinkInv => JobDocumentComplete
    BY DEF LinkInv
  <1> QED
    BY <1>1, LinkAlways, PTL

\* A job in INDEXED, PUBLISHED or NEEDS_REVIEW has a document, unless an editor
\* deleted one it had made.
THEOREM SuccessKeepsDocument == Spec => []SuccessHasDocument
  <1>1. LinkInv => SuccessHasDocument
    BY DEF LinkInv
  <1> QED
    BY <1>1, LinkAlways, PTL

(***************************************************************************)
(*                              One worker                                 *)
(***************************************************************************)

\* The ingest queue is served by one process, as celery -c 1 does.
OneWorker == \A v, w \in Workers : v = w

-----------------------------------------------------------------------------
(* What the helpers of the actions do to the record of the run.            *)

\* What a run keeps from place to place: its delivery, and what it carries.
SameDelivery(w) ==
    /\ wk'[w].job = wk[w].job
    /\ wk'[w].held = wk[w].held
    /\ wk'[w].again = wk[w].again

SameLoad(w) ==
    /\ wk'[w].file = wk[w].file
    /\ wk'[w].dup = wk[w].dup
    /\ wk'[w].pending = wk[w].pending
    /\ wk'[w].cur = wk[w].cur
    /\ wk'[w].doc = wk[w].doc

Otherwise(w) == SameDelivery(w) /\ SameLoad(w) /\ wk'[w].seen = wk[w].seen

LEMMA GotoRun ==
  ASSUME WorkersOK, NEW w \in Workers, NEW pc, Goto(w, pc)
  PROVE  wk'[w].pc = pc /\ Otherwise(w)
  BY DEF WorkersOK, Goto, Process, Otherwise, SameDelivery, SameLoad

LEMMA RaiseRun ==
  ASSUME WorkersOK, NEW w \in Workers, NEW code, Raise(w, code)
  PROVE  wk'[w].pc = "fail" /\ Otherwise(w)
  BY DEF WorkersOK, Raise, Process, Otherwise, SameDelivery, SameLoad

LEMMA LeaveRun ==
  ASSUME WorkersOK, NEW w \in Workers, LeaveTask(w)
  PROVE  wk'[w] = Idle /\ wk'[w].pc = "idle"
  BY DEF WorkersOK, LeaveTask, Idle

LEMMA LoadRun ==
  ASSUME WorkersOK, NEW w \in Workers, Load(w)
  PROVE  /\ wk[w].pc = "load" /\ wk'[w].pc = "begin"
         /\ wk'[w].seen = JobOf(w).attempts
         /\ SameDelivery(w) /\ SameLoad(w)
  BY DEF WorkersOK, Load, At, Process, SameDelivery, SameLoad

LEMMA BeginRun ==
  ASSUME WorkersOK, NEW w \in Workers, Begin(w)
  PROVE  /\ wk[w].pc = "begin" /\ wk'[w].pc = "read"
         /\ SameDelivery(w) /\ SameLoad(w)
  BY DEF WorkersOK, Begin, At, Process, SameDelivery, SameLoad

LEMMA ReadRun ==
  ASSUME WorkersOK, NEW w \in Workers, ReadTempFile(w)
  PROVE  /\ wk[w].pc = "read"
         /\ SameDelivery(w)
         /\ wk'[w].pending = wk[w].pending
         /\ wk'[w].doc = wk[w].doc
         /\ \/ wk'[w].pc = "fail"
            \/ /\ wk'[w].pc = "stored" /\ wk'[w].file \in fileRow
               /\ wk'[w].dup = IsLinked(wk'[w].file)
            \/ /\ wk'[w].pc = "put" /\ wk'[w].file \in Contents \ fileRow
               /\ wk'[w].dup = wk[w].dup
  <1>1. wk[w] \in Process /\ wk \in [Workers -> Process]
    BY DEF WorkersOK
  <1>2. CASE Raise(w, "STORAGE_TEMP_FILE_MISSING")
    BY <1>2, RaiseRun DEF ReadTempFile, At, Otherwise, SameLoad
  <1>3. CASE /\ JobOf(w).temp \in fileRow
             /\ wk' = [wk EXCEPT ![w].pc = "stored", ![w].file = JobOf(w).temp,
                                 ![w].dup = IsLinked(JobOf(w).temp)]
    BY <1>1, <1>3 DEF ReadTempFile, At, Process, SameDelivery
  <1>4. CASE /\ JobOf(w).temp \in Contents \ fileRow
             /\ wk' = [wk EXCEPT ![w].pc = "put", ![w].file = JobOf(w).temp]
    BY <1>1, <1>4 DEF ReadTempFile, At, Process, SameDelivery
  <1> QED
    BY <1>2, <1>3, <1>4 DEF ReadTempFile

LEMMA ClassifyRun ==
  ASSUME WorkersOK, NEW w \in Workers, Classify(w)
  PROVE  /\ wk[w].pc = "classify"
         /\ SameDelivery(w) /\ SameLoad(w)
         /\ \/ wk'[w].pc = "create" /\ SetState(wk[w].job, "CLASSIFIED")
            \/ wk'[w].pc = "fail" /\ UNCHANGED job
  <1>1. wk[w] \in Process /\ wk \in [Workers -> Process] /\ wk[w].pc = "classify"
    BY DEF WorkersOK, Classify, At
  <1>2. CASE Raise(w, "RULE_CLASSIFY_FAIL") /\ UNCHANGED job
    BY <1>1, <1>2, RaiseRun DEF Otherwise
  <1>3. ASSUME NEW reviewed, NEW names, SetState(wk[w].job, "CLASSIFIED"),
               wk' = [wk EXCEPT ![w].pc = "create", ![w].todo = names,
                                ![w].review = reviewed]
        PROVE  /\ SameDelivery(w) /\ SameLoad(w)
               /\ wk'[w].pc = "create" /\ SetState(wk[w].job, "CLASSIFIED")
    BY <1>1, <1>3 DEF Process, SameDelivery, SameLoad
  <1> QED
    BY <1>1, <1>2, <1>3, Zenon DEF Classify

LEMMA CreateRun ==
  ASSUME WorkersOK, NEW w \in Workers, NEW d \in Docs, CreateDocument(w, d)
  PROVE  /\ wk[w].pc = "create" /\ wk'[w].pc = "tags"
         /\ SameDelivery(w)
         /\ wk'[w].file = wk[w].file
         /\ wk'[w].doc = d
         /\ wk'[w].pending
  BY DEF WorkersOK, CreateDocument, At, Process, SameDelivery

LEMMA LookupRun ==
  ASSUME WorkersOK, NEW w \in Workers, NEW t \in Tags, LookupTag(w, t)
  PROVE  /\ wk[w].pc = "tags"
         /\ SameDelivery(w)
         /\ wk'[w].file = wk[w].file
         /\ wk'[w].doc = wk[w].doc
         /\ wk'[w].pending = wk[w].pending
         /\ \/ wk'[w].pc = "tags"
            \/ wk'[w].pc = "newtag" /\ wk'[w].cur \notin tag
  BY DEF WorkersOK, LookupTag, At, Process, SameDelivery

LEMMA InsertRun ==
  ASSUME WorkersOK, NEW w \in Workers, InsertTag(w)
  PROVE  /\ wk[w].pc = "newtag" /\ wk'[w].pc = "tags"
         /\ SameDelivery(w)
         /\ wk'[w].file = wk[w].file
         /\ wk'[w].doc = wk[w].doc
         /\ wk'[w].pending = FALSE
  BY DEF WorkersOK, InsertTag, At, Process, SameDelivery

LEMMA VersionRun ==
  ASSUME WorkersOK, NEW w \in Workers,
         wk' = [wk EXCEPT ![w].pc = "attach", ![w].pending = FALSE]
  PROVE  /\ wk'[w].pc = "attach"
         /\ SameDelivery(w)
         /\ wk'[w].file = wk[w].file
         /\ wk'[w].doc = wk[w].doc
  BY DEF WorkersOK, Process, SameDelivery

LEMMA RecordRun ==
  ASSUME WorkersOK, NEW w \in Workers, RecordError(w)
  PROVE  /\ wk[w].pc = "fail" /\ wk'[w].pc = "failed"
         /\ wk'[w].job = wk[w].job
         /\ wk'[w].held = wk[w].held
         /\ ~wk'[w].again
  BY DEF WorkersOK, RecordError, At, Idle

LEMMA TakeRun ==
  ASSUME WorkersOK, NEW w \in Workers, NEW j \in Jobs, Take(w, j)
  PROVE  /\ wk[w].pc = "idle" /\ wk'[w].pc = "load"
         /\ wk'[w].job = j
         /\ wk'[w].held
         /\ wk'[w].dup = FALSE
  BY DEF WorkersOK, Take, At, Idle

LEMMA RefusedRun ==
  ASSUME WorkersOK, NEW w \in Workers, PublishRetryFails(w)
  PROVE  /\ wk[w].pc = "publish"
         /\ \/ wk[w].again /\ wk'[w] = Idle /\ wk'[w].pc = "idle"
            \/ wk'[w].pc = "decide" /\ wk'[w].job = wk[w].job
                                     /\ wk'[w].held = wk[w].held
                                     /\ wk'[w].again
  BY LeaveRun DEF WorkersOK, PublishRetryFails, At, Process

LEMMA RedeliverRun ==
  ASSUME WorkersOK, NEW w \in Workers, Redeliver(w)
  PROVE  /\ wk'[w].pc = wk[w].pc /\ wk[w].pc # "idle"
         /\ wk'[w].job = wk[w].job
         /\ wk'[w].again = wk[w].again
         /\ wk'[w].seen = wk[w].seen
         /\ SameLoad(w)
         /\ wk[w].held /\ wk'[w].held = FALSE
  BY DEF WorkersOK, Redeliver, At, Process, SameLoad

\* Events are only ever counted, never forgotten.
CountersGrow == \A k \in Events : used[k] <= used'[k]

LEMMA CountGrows ==
  ASSUME used \in [Events -> Nat], NEW kind, Count(kind)
  PROVE  CountersGrow
  <1>1. used' = [used EXCEPT ![kind] = @ + 1]
    BY DEF Count
  <1> QED
    BY <1>1 DEF CountersGrow

LEMMA StepGrows ==
  ASSUME used \in [Events -> Nat], [Next]_vars
  PROVE  CountersGrow
  <1>1. ASSUME UNCHANGED used PROVE CountersGrow
    BY <1>1 DEF CountersGrow
  <1>2. CASE UNCHANGED vars
    BY SMTT(60), <1>1, <1>2 DEF vars
  <1>3. ASSUME NEW w \in Workers, PipelineStep(w) PROVE CountersGrow
    BY ZenonT(60), <1>1, <1>3
    DEF PipelineStep, Load, Begin, ReadTempFile, PutObject, InsertFileRow,
        SetStored, Extract, Classify, CreateDocument, LookupTag, InsertTag,
        WriteVersion, AttachDocument, SetIndexed, SetFinished, Return
  <1>4. ASSUME NEW w \in Workers, FailureStep(w) PROVE CountersGrow
    BY <1>1, <1>4
    DEF FailureStep, RecordError, MarkFailed, Decide, ScheduleRetry,
        PublishRetry, DeadLetter
  <1>5. ASSUME NEW w \in Workers, FaultStep(w) PROVE CountersGrow
    BY <1>5, CountGrows
    DEF FaultStep, PublishRetryFails, WorkerKilled, ChildKilled, Redeliver
  <1>6. ASSUME NEW w \in Workers, NEW j \in Jobs, Take(w, j) PROVE CountersGrow
    BY <1>1, <1>6 DEF Take
  <1>7. ASSUME NEW j \in Jobs, NEW c \in Contents, Accept(j, c) PROVE CountersGrow
    BY <1>7, CountGrows DEF Accept
  <1>8. ASSUME NEW j \in Jobs, Publish(j) \/ PublishLost(j) \/ LoseTempFile(j)
        PROVE  CountersGrow
    BY <1>1, <1>8, CountGrows DEF Publish, PublishLost, LoseTempFile
  <1>9. ASSUME NEW j \in Jobs, OperatorStep(j) PROVE CountersGrow
    BY <1>9, CountGrows DEF OperatorStep, Requeue, RecoverUpload, Reprocess
  <1>10. ASSUME NEW d \in Docs, DeleteDocument(d) PROVE CountersGrow
    BY <1>10, CountGrows DEF DeleteDocument
  <1> QED
    BY <1>2, <1>3, <1>4, <1>5, <1>6, <1>7, <1>8, <1>9, <1>10 DEF Next, WorkerStep

-----------------------------------------------------------------------------
(* Files, their objects and the documents that link them.                  *)

\* With any number of workers: a files row is inserted by a run that has put
\* its object.
ObjectInv ==
    /\ TypeInv
    /\ RowHasObject
    /\ used.deletes = 0 =>
          \A w \in Workers : At(w, "insert") => wk[w].file \in object

\* What the document of a job has to do with the run of it that made it: where
\* the file of a run comes from, and whether another document links it already.
Storing == {"put", "insert"}
Staged == {"stored", "extract", "classify", "create"}
Writing == {"tags", "newtag"}
Written == {"attach", "index", "finish", "return"}

FileRun(w) ==
    /\ wk[w].pc \in {"load", "begin", "read"} \cup Storing => ~wk[w].dup
    /\ wk[w].pc \in Storing \cup Staged \cup Writing => wk[w].file \in Contents
    /\ wk[w].pc \in Storing => wk[w].file \notin fileRow
    /\ wk[w].pc \in Staged => wk[w].dup \/ ~IsLinked(wk[w].file)
    /\ wk[w].pc \in Writing /\ wk[w].pending =>
          \/ doc[wk[w].doc].dup
          \/ \A d \in Docs \ {wk[w].doc} :
                doc[d].life = "live" => doc[d].file # wk[w].file

\* And while nothing is deleted: the run's document is live, its files row stays,
\* and its link is either pending or written.
KeptRun(w) ==
    /\ wk[w].pc \in Staged \cup Writing => wk[w].file \in fileRow
    /\ wk[w].pc = "newtag" => wk[w].cur \notin tag
    /\ wk[w].pc \in Writing \cup Written =>
          /\ wk[w].doc \in Docs
          /\ DocIsLive(w)
          /\ wk[w].pc # "return" =>
                \/ wk[w].pc \in Writing /\ wk[w].pending
                \/ doc[wk[w].doc].file # NoContent

\* A link is to a files row that is there.
LinkedStored ==
    \A d \in Docs : doc[d].life = "live" =>
        doc[d].file \in fileRow \cup {NoContent}

\* The document of every job links a file.
DocumentsFiled ==
    \A j \in Jobs : job[j].doc # NoDoc => doc[job[j].doc].file # NoContent

FileInv ==
    /\ LinkInv
    /\ LinkedStored
    /\ DuplicatesFlagged
    /\ \A w \in Workers : FileRun(w)
    /\ used.deletes = 0 =>
          /\ \A d \in Docs : doc[d].life # "deleted"
          /\ DocumentsFiled
          /\ \A w \in Workers : KeptRun(w)

LEMMA ObjectInit == Init => ObjectInv
  BY TypeInit DEF Init, ObjectInv, RowHasObject, At, Idle

\* A step that leaves the files rows and the objects alone, and leads no run to
\* the insert.
LEMMA ObjectFrame ==
  ASSUME ObjectInv, TypeInv', CountersGrow, UNCHANGED <<fileRow, object>>,
         \A w \in Workers :
            wk'[w].pc = "insert" => wk[w].pc = "insert" /\ wk'[w].file = wk[w].file
  PROVE  ObjectInv'
  <1>1. used'.deletes = 0 => used.deletes = 0
    BY DEF CountersGrow, ObjectInv, TypeInv, Events
  <1> QED
    BY <1>1 DEF ObjectInv, RowHasObject, At

LEMMA ObjectStep == ObjectInv /\ [Next]_vars => ObjectInv'
  <1> SUFFICES ASSUME ObjectInv, [Next]_vars PROVE ObjectInv'
    OBVIOUS
  <1>0. /\ TypeInv /\ TypeInv' /\ CountersGrow
        /\ WorkersOK /\ wk \in [Workers -> Process]
        /\ used'.deletes = 0 => used.deletes = 0
    <2>1. TypeInv /\ TypeInv' /\ CountersGrow
      BY TypeStep, StepGrows DEF ObjectInv, TypeInv
    <2> QED
      BY <2>1 DEF TypeInv, WorkersOK, CountersGrow, Events
  <1>1. CASE UNCHANGED vars
    BY <1>0, <1>1, ObjectFrame DEF vars
  <1>2. ASSUME NEW w \in Workers, PutObject(w) PROVE ObjectInv'
    <2>1. /\ fileRow' = fileRow
          /\ object \subseteq object'
          /\ \A v \in Workers \ {w} : wk'[v] = wk[v]
      BY <1>0, <1>2 DEF PutObject, Goto, Raise
    <2>2. wk'[w].pc = "insert" => wk'[w].file \in object'
      BY <1>0, <1>2, GotoRun, RaiseRun DEF PutObject, Otherwise, SameLoad
    <2> QED
      BY <1>0, <2>1, <2>2 DEF ObjectInv, RowHasObject, At
  <1>3. ASSUME NEW w \in Workers, InsertFileRow(w) PROVE ObjectInv'
    <2>1. /\ At(w, "insert")
          /\ object' = object
          /\ fileRow' \subseteq fileRow \cup {wk[w].file}
          /\ \A v \in Workers \ {w} : wk'[v] = wk[v]
      BY <1>0, <1>3 DEF InsertFileRow, Goto, FlushFails, LeaveTask
    <2>2. wk'[w].pc # "insert"
      BY <1>0, <1>3, GotoRun, LeaveRun DEF InsertFileRow, FlushFails
    <2> QED
      BY <1>0, <2>1, <2>2 DEF ObjectInv, RowHasObject, At
  <1>4. ASSUME NEW w \in Workers, PipelineStep(w), ~PutObject(w), ~InsertFileRow(w)
        PROVE  ObjectInv'
    <2>1. /\ UNCHANGED <<fileRow, object>>
          /\ \A v \in Workers \ {w} : wk'[v] = wk[v]
      BY <1>0, <1>4
      DEF PipelineStep, Load, Begin, ReadTempFile, SetStored, Extract, Classify,
          CreateDocument, LookupTag, InsertTag, WriteVersion, AttachDocument,
          SetIndexed, SetFinished, Return, Goto, Raise, RowGone, FlushFails,
          LeaveTask, content
    <2>2. wk'[w].pc # "insert"
      <3>2. CASE \/ Load(w) \/ Begin(w) \/ ReadTempFile(w) \/ Classify(w)
                 \/ InsertTag(w) \/ \E d \in Docs : CreateDocument(w, d)
                 \/ \E t \in Tags : LookupTag(w, t)
        BY <1>0, <3>2, LoadRun, BeginRun, ReadRun, ClassifyRun, InsertRun,
           CreateRun, LookupRun
      <3>3. CASE \/ SetStored(w) \/ Extract(w) \/ WriteVersion(w)
                 \/ AttachDocument(w) \/ SetIndexed(w) \/ SetFinished(w)
                 \/ Return(w)
        BY <1>0, <3>3, GotoRun, RaiseRun, LeaveRun, VersionRun
        DEF SetStored, Extract, WriteVersion, AttachDocument, SetIndexed,
            SetFinished, Return, RowGone, FlushFails
      <3> QED
        BY <1>4, <3>2, <3>3 DEF PipelineStep
    <2> QED
      BY SMTT(60), <1>0, <2>1, <2>2, ObjectFrame
  <1>5. ASSUME NEW w \in Workers, FailureStep(w) \/ FaultStep(w) PROVE ObjectInv'
    <2>1. /\ UNCHANGED <<fileRow, object>>
          /\ \A v \in Workers \ {w} : wk'[v] = wk[v]
      BY <1>0, <1>5
      DEF FailureStep, FaultStep, RecordError, MarkFailed, Decide, ScheduleRetry,
          PublishRetry, DeadLetter, PublishRetryFails, WorkerKilled, ChildKilled,
          Redeliver, Goto, LeaveTask, content
    <2>2. wk'[w].pc = "insert" => wk[w].pc = "insert" /\ wk'[w].file = wk[w].file
      <3>2. CASE FailureStep(w)
        BY <1>0, <3>2, GotoRun, LeaveRun, RecordRun
        DEF FailureStep, MarkFailed, Decide, ScheduleRetry, PublishRetry, DeadLetter
      <3>3. CASE FaultStep(w)
        BY <1>0, <3>3, LeaveRun, RefusedRun, RedeliverRun
        DEF FaultStep, WorkerKilled, ChildKilled, SameLoad
      <3> QED
        BY <1>5, <3>2, <3>3
    <2> QED
      BY <1>0, <2>1, <2>2, ObjectFrame
  <1>6. ASSUME NEW w \in Workers, NEW j \in Jobs, Take(w, j) PROVE ObjectInv'
    <2>1. /\ UNCHANGED <<fileRow, object>>
          /\ wk'[w].pc = "load"
          /\ \A v \in Workers \ {w} : wk'[v] = wk[v]
      BY <1>0, <1>6 DEF Take, content, Idle
    <2> QED
      BY <1>0, <2>1, ObjectFrame
  <1>7. ASSUME \/ \E j \in Jobs, c \in Contents : Accept(j, c)
               \/ \E j \in Jobs : \/ Publish(j) \/ PublishLost(j)
                                  \/ LoseTempFile(j) \/ OperatorStep(j)
        PROVE  ObjectInv'
    <2>1. UNCHANGED <<fileRow, object, wk>>
      BY <1>7
      DEF Accept, Publish, PublishLost, LoseTempFile, OperatorStep, Requeue,
          RecoverUpload, Reprocess, content
    <2> QED
      BY <1>0, <2>1, ObjectFrame
  <1>8. ASSUME NEW d \in Docs, DeleteDocument(d) PROVE ObjectInv'
    <2>1. used'.deletes # 0
      BY <1>0, <1>8 DEF DeleteDocument, Count, TypeInv, Events
    <2> QED
      BY <1>0, <2>1 DEF ObjectInv, RowHasObject
  <1> QED
    BY <1>1, <1>2, <1>3, <1>4, <1>5, <1>6, <1>7, <1>8 DEF Next, WorkerStep

\* While nothing is deleted every files row has its object, with any number of
\* workers and however the runs of two jobs that store one content interleave.
THEOREM RowsHaveObjects == Spec => []RowHasObject
  <1>1. Spec => []ObjectInv
    BY ObjectInit, ObjectStep, PTL DEF Spec
  <1>2. ObjectInv => RowHasObject
    BY DEF ObjectInv
  <1> QED
    BY <1>1, <1>2, PTL

LEMMA FileInit == Init => FileInv
  <1> SUFFICES ASSUME Init PROVE FileInv
    OBVIOUS
  <1>1. LinkInv
    BY LinkInit
  <1>2. LinkedStored /\ DuplicatesFlagged /\ \A d \in Docs : doc[d].life # "deleted"
    BY DEF Init, LinkedStored, DuplicatesFlagged, FreeDoc
  <1>3. DocumentsFiled
    BY DEF Init, DocumentsFiled, NoRow
  <1>4. \A w \in Workers : FileRun(w) /\ KeptRun(w)
    BY DEF Init, FileRun, KeptRun, Idle, Storing, Staged, Writing, Written
  <1> QED
    BY <1>1, <1>2, <1>3, <1>4 DEF FileInv

\* A step that leaves the documents alone, and takes away no files row.
LEMMA FileFrame ==
  ASSUME OneWorker, FileInv, LinkInv', CountersGrow, doc' = doc,
         fileRow \subseteq fileRow', \A j \in Jobs : job'[j].doc = job[j].doc,
         NEW w \in Workers, FileRun(w)',
         used.deletes = 0 => KeptRun(w)'
  PROVE  FileInv'
  <1>1. used'.deletes = 0 => used.deletes = 0
    BY DEF CountersGrow, FileInv, LinkInv, TypeInv, Events
  <1>2. \A v \in Workers : FileRun(v)' /\ (used'.deletes = 0 => KeptRun(v)')
    BY <1>1 DEF OneWorker
  <1>3. LinkedStored' /\ DuplicatesFlagged'
    BY DEF FileInv, LinkedStored, DuplicatesFlagged
  <1>4. used'.deletes = 0 =>
           (\A d \in Docs : doc'[d].life # "deleted") /\ DocumentsFiled'
    BY <1>1 DEF FileInv, DocumentsFiled
  <1> QED
    BY <1>2, <1>3, <1>4 DEF FileInv

\* So does the start of a run, and whatever follows a failure.
LEMMA FileQuiet ==
  ASSUME OneWorker, FileInv, LinkInv', CountersGrow, doc' = doc,
         fileRow \subseteq fileRow', \A j \in Jobs : job'[j].doc = job[j].doc,
         NEW w \in Workers,
         \/ wk'[w].pc \in {"idle", "fail", "failed", "decide", "retry", "publish",
                           "dead"}
         \/ wk'[w].pc \in {"load", "begin", "read"} /\ ~wk'[w].dup
  PROVE  FileInv'
  <1>1. FileRun(w)' /\ KeptRun(w)'
    BY DEF FileRun, KeptRun, Storing, Staged, Writing, Written
  <1> QED
    BY <1>1, FileFrame

\* And a step that writes only to the row of a job, and leaves the run where it is
\* or takes it on to the next place of the same kind.
LEMMA FileOn ==
  ASSUME OneWorker, FileInv, LinkInv', CountersGrow, doc' = doc,
         fileRow' = fileRow, tag' = tag,
         \A j \in Jobs : job'[j].doc = job[j].doc,
         NEW w \in Workers, SameLoad(w),
         \/ wk'[w].pc = wk[w].pc
         \/ wk[w].pc \in Staged /\ wk'[w].pc \in Staged
         \/ wk[w].pc \in Written /\ wk'[w].pc \in Written
                                 /\ wk[w].pc # "return"
  PROVE  FileInv'
  <1>1. FileRun(w) /\ (used.deletes = 0 => KeptRun(w))
    BY DEF FileInv
  <1>2. FileRun(w)'
    BY <1>1
    DEF FileRun, IsLinked, SameLoad, Storing, Staged, Writing, Written
  <1>3. KeptRun(w) => KeptRun(w)'
    BY DEF KeptRun, DocIsLive, SameLoad, Storing, Staged, Writing, Written
  <1> QED
    BY <1>1, <1>2, <1>3, FileFrame

LEMMA DocKept ==
  ASSUME RowsOK, NEW j \in Jobs, NEW state, SetState(j, state)
  PROVE  \A i \in Jobs : job'[i].doc = job[i].doc
  BY DEF SetState, RowsOK, JobRow

LEMMA FilePipeline ==
  ASSUME OneWorker, FileInv, LinkInv', CountersGrow, NEW w \in Workers,
         PipelineStep(w)
  PROVE  FileInv'
  <1>0. /\ WorkersOK /\ RowsOK /\ ContentOK
        /\ wk[w] \in Process
        /\ wk[w].pc # "idle" => wk[w].job \in Jobs
        /\ FileRun(w)
        /\ used.deletes = 0 => KeptRun(w)
        /\ used'.deletes = 0 => used.deletes = 0
    BY DEF FileInv, LinkInv, TypeInv, WorkersOK, Sound, CountersGrow, Events
  <1>1. ASSUME UNCHANGED job PROVE \A j \in Jobs : job'[j].doc = job[j].doc
    BY <1>1
  <1>2. CASE Load(w)
    <2>1. wk'[w].pc = "begin" /\ ~wk'[w].dup
      BY <1>0, <1>2, LoadRun DEF FileRun, SameLoad
    <2> QED
      BY <1>2, <2>1, FileQuiet DEF Load, content
  <1>3. CASE Begin(w)
    <2>1. wk'[w].pc = "read" /\ ~wk'[w].dup
      BY <1>0, <1>3, BeginRun DEF FileRun, SameLoad
    <2>2. \A j \in Jobs : job'[j].doc = job[j].doc
      BY <1>0, <1>3 DEF Begin, RowsOK, JobRow
    <2> QED
      BY <1>3, <2>1, <2>2, FileQuiet DEF Begin, content
  <1>4. CASE ReadTempFile(w)
    <2>1. ~wk[w].dup /\ doc' = doc /\ fileRow' = fileRow /\ job' = job
      BY ZenonT(60), <1>0, <1>4, ReadRun DEF ReadTempFile, content, FileRun
    <2>2. CASE wk'[w].pc = "fail"
      BY <2>1, <2>2, FileQuiet
    <2>3. CASE /\ wk'[w].pc = "stored" /\ wk'[w].file \in fileRow
               /\ wk'[w].dup = IsLinked(wk'[w].file)
      <3>1. FileRun(w)'
        BY <1>0, <2>1, <2>3
        DEF FileRun, IsLinked, ContentOK, Storing, Staged, Writing
      <3>2. KeptRun(w)'
        BY <2>1, <2>3 DEF KeptRun, Staged, Writing, Written
      <3> QED
        BY <2>1, <3>1, <3>2, FileFrame
    <2>4. CASE /\ wk'[w].pc = "put" /\ wk'[w].file \in Contents \ fileRow
               /\ wk'[w].dup = wk[w].dup
      <3>1. FileRun(w)' /\ KeptRun(w)'
        BY <2>1, <2>4
        DEF FileRun, KeptRun, Storing, Staged, Writing, Written
      <3> QED
        BY <2>1, <3>1, FileFrame
    <2> QED
      BY SMTT(60), <1>0, <1>4, <2>2, <2>3, <2>4, ReadRun
  <1>5. CASE PutObject(w)
    <2>1. job' = job /\ doc' = doc /\ fileRow' = fileRow /\ At(w, "put")
      BY <1>5 DEF PutObject
    <2>2. CASE Raise(w, "STORAGE_WRITE_FAIL")
      BY <1>0, <2>1, <2>2, RaiseRun, FileQuiet
    <2>3. CASE Goto(w, "insert")
      <3>1. wk'[w].pc = "insert" /\ SameLoad(w)
        BY <1>0, <2>3, GotoRun DEF Otherwise
      <3>2. FileRun(w)' /\ KeptRun(w)'
        BY <1>0, <2>1, <3>1
        DEF FileRun, KeptRun, SameLoad, At, Storing, Staged, Writing, Written
      <3> QED
        BY <2>1, <3>2, FileFrame
    <2> QED
      BY <1>5, <2>2, <2>3 DEF PutObject
  <1>6. CASE InsertFileRow(w)
    <2>1. job' = job /\ doc' = doc /\ At(w, "insert") /\ fileRow \subseteq fileRow'
      BY <1>6 DEF InsertFileRow
    <2>2. CASE FlushFails(w)
      BY <1>0, <2>1, <2>2, LeaveRun, FileQuiet DEF FlushFails
    <2>3. CASE Goto(w, "stored") /\ fileRow' = fileRow \cup {wk[w].file}
      <3>1. wk'[w].pc = "stored" /\ SameLoad(w)
        BY <1>0, <2>3, GotoRun DEF Otherwise
      <3>2. wk[w].file \in Contents /\ wk[w].file \notin fileRow
        BY <1>0, <2>1 DEF FileRun, At, Storing
      <3>3. ~IsLinked(wk[w].file)
        BY NullsAssumption, <3>2 DEF IsLinked, FileInv, LinkedStored
      <3>4. FileRun(w)'
        BY <2>1, <3>1, <3>2, <3>3
        DEF FileRun, IsLinked, SameLoad, Storing, Staged, Writing
      <3>5. KeptRun(w)'
        BY <2>3, <3>1 DEF KeptRun, SameLoad, Staged, Writing, Written
      <3> QED
        BY <2>1, <3>4, <3>5, FileFrame
    <2> QED
      BY <1>6, <2>2, <2>3 DEF InsertFileRow
  <1>7. CASE SetStored(w)
    <2>1. /\ SameLoad(w) /\ wk[w].pc \in Staged /\ wk'[w].pc \in Staged
          /\ wk[w].pc # "idle"
      BY <1>0, <1>7, GotoRun DEF SetStored, At, Otherwise, Staged
    <2> QED
      BY <1>0, <1>7, <2>1, DocKept, FileOn DEF SetStored, content
  <1>8. CASE Extract(w)
    <2>1. CASE Raise(w, "CAPTION_PARSE_FAIL") /\ UNCHANGED job
      BY <1>0, <1>1, <1>8, <2>1, RaiseRun, FileQuiet DEF Extract, content
    <2>2. CASE SetState(wk[w].job, "EXTRACTED") /\ Goto(w, "classify")
      <3>1. /\ SameLoad(w) /\ wk[w].pc \in Staged /\ wk'[w].pc \in Staged
            /\ wk[w].pc # "idle"
        BY <1>0, <1>8, <2>2, GotoRun DEF Extract, At, Otherwise, Staged
      <3> QED
        BY <1>0, <1>8, <2>2, <3>1, DocKept, FileOn DEF Extract, content
    <2> QED
      BY <1>8, <2>1, <2>2 DEF Extract
  <1>9. CASE Classify(w)
    <2>1. UNCHANGED content
      BY <1>9 DEF Classify
    <2>2. CASE wk'[w].pc = "fail" /\ UNCHANGED job
      BY <1>0, <1>1, <2>1, <2>2, FileQuiet DEF content
    <2>3. CASE wk'[w].pc = "create" /\ SetState(wk[w].job, "CLASSIFIED")
      <3>1. SameLoad(w) /\ wk[w].pc \in Staged /\ wk[w].pc # "idle"
        BY <1>0, <1>9, ClassifyRun DEF Staged
      <3>2. wk'[w].pc \in Staged
        BY <2>3 DEF Staged
      <3>3. \A j \in Jobs : job'[j].doc = job[j].doc
        BY <1>0, <2>3, <3>1, DocKept
      <3> QED
        BY <2>1, <3>1, <3>2, <3>3, FileOn DEF content
    <2> QED
      BY <1>0, <1>9, <2>2, <2>3, ClassifyRun
  <1>10. ASSUME NEW t \in Tags, LookupTag(w, t) PROVE FileInv'
    <2>1. job' = job /\ doc' = doc /\ fileRow' = fileRow /\ tag' = tag
      BY <1>10 DEF LookupTag, content
    <2>2. FileRun(w)'
      BY <1>0, <1>10, <2>1, LookupRun
      DEF FileRun, IsLinked, Storing, Staged, Writing
    <2>3. KeptRun(w) => KeptRun(w)'
      BY <1>0, <1>10, <2>1, LookupRun
      DEF KeptRun, DocIsLive, Storing, Staged, Writing, Written
    <2> QED
      BY <1>0, <2>1, <2>2, <2>3, FileFrame
  <1>11. CASE AttachDocument(w)
    <2>1. /\ doc' = doc /\ fileRow' = fileRow /\ tag' = tag
          /\ At(w, "attach") /\ wk[w].pc # "idle"
      BY <1>11 DEF AttachDocument, content, At
    <2>2. CASE job' = job /\ RowGone(w, "PIPELINE_UNEXPECTED")
      BY <1>0, <2>1, <2>2, RaiseRun, LeaveRun, FileQuiet DEF RowGone, FlushFails
    <2>3. CASE /\ job' = [job EXCEPT ![wk[w].job].doc = wk[w].doc]
               /\ Goto(w, "index")
      <3>1. wk'[w].pc = "index" /\ SameLoad(w)
        BY <1>0, <2>3, GotoRun DEF Otherwise
      <3>2. FileRun(w)'
        BY <3>1 DEF FileRun, Storing, Staged, Writing
      <3>3. KeptRun(w) => KeptRun(w)'
        BY <2>1, <3>1
        DEF KeptRun, DocIsLive, SameLoad, At, Staged, Writing, Written
      <3>4. KeptRun(w) => doc[wk[w].doc].file # NoContent
        BY <2>1 DEF KeptRun, At, Writing, Written
      <3>5. KeptRun(w) /\ DocumentsFiled => DocumentsFiled'
        BY <1>0, <2>1, <2>3, <3>4 DEF DocumentsFiled, RowsOK, JobRow
      <3>6. LinkedStored' /\ DuplicatesFlagged'
        BY <2>1 DEF FileInv, LinkedStored, DuplicatesFlagged
      <3> QED
        BY <1>0, <2>1, <3>2, <3>3, <3>5, <3>6 DEF FileInv, OneWorker
    <2> QED
      BY <1>11, <2>2, <2>3 DEF AttachDocument
  <1>12. CASE SetIndexed(w) \/ SetFinished(w)
    <2>1. /\ UNCHANGED content
          /\ wk[w].pc \in Written /\ wk[w].pc # "return" /\ wk[w].pc # "idle"
      BY <1>12 DEF SetIndexed, SetFinished, At, Written
    <2>2. CASE Raise(w, "PIPELINE_UNEXPECTED") /\ UNCHANGED job
      BY <1>0, <1>1, <2>1, <2>2, RaiseRun, FileQuiet DEF content
    <2>3. ASSUME NEW state, SetState(wk[w].job, state), NEW pc \in Written,
                 Goto(w, pc)
          PROVE  FileInv'
      <3>1. \A j \in Jobs : job'[j].doc = job[j].doc
        BY <1>0, <2>1, <2>3, DocKept
      <3>2. SameLoad(w) /\ wk'[w].pc \in Written
        BY <1>0, <2>3, GotoRun DEF Otherwise
      <3> QED
        BY <2>1, <3>1, <3>2, FileOn DEF content
    <2> QED
      BY <1>12, <2>2, <2>3 DEF SetIndexed, SetFinished, Written
  <1>13. CASE Return(w)
    BY <1>0, <1>1, <1>13, RaiseRun, LeaveRun, FileQuiet DEF Return, content
  <1>14. ASSUME NEW d \in Docs, CreateDocument(w, d) PROVE FileInv'
    <2>1. /\ job' = job /\ fileRow' = fileRow
          /\ doc[d].life = "free" /\ wk[w].pc = "create"
      BY <1>14 DEF CreateDocument, At
    <2>2. /\ \A e \in Docs \ {d} : doc'[e] = doc[e]
          /\ doc'[d].life = "live"
          /\ doc'[d].file = NoContent
          /\ doc'[d].dup = wk[w].dup
      BY <1>0, <1>14 DEF CreateDocument, FreeDoc, ContentOK
    <2>3. LinkedStored' /\ DuplicatesFlagged'
      BY <2>1, <2>2 DEF FileInv, LinkedStored, DuplicatesFlagged
    <2>4. /\ wk[w].file \in Contents
          /\ wk[w].dup \/ ~IsLinked(wk[w].file)
      BY <1>0, <2>1 DEF FileRun, Staged
    <2>5. /\ wk'[w].pc = "tags" /\ wk'[w].file = wk[w].file
          /\ wk'[w].doc = d /\ wk'[w].pending
      BY <1>0, <1>14, CreateRun
    <2>6. FileRun(w)'
      BY <2>2, <2>4, <2>5 DEF FileRun, IsLinked, Storing, Staged, Writing
    <2>7. KeptRun(w) => KeptRun(w)'
      BY <2>1, <2>2, <2>5 DEF KeptRun, DocIsLive, Staged, Writing, Written
    <2>8. \A j \in Jobs : job[j].doc # d
      BY NullsAssumption, <2>1 DEF FileInv, LinkInv, JobDocumentComplete
    <2>9. DocumentsFiled => DocumentsFiled'
      BY <1>0, <2>1, <2>2, <2>8 DEF DocumentsFiled, RowsOK, JobRow
    <2> QED
      BY <1>0, <2>2, <2>3, <2>6, <2>7, <2>9 DEF FileInv, OneWorker
  <1>15. CASE \/ InsertTag(w)
              \/ /\ WriteVersion(w)
                 /\ LinkIsSound(w)
                 /\ doc' = [doc EXCEPT ![wk[w].doc].file = Linked(w),
                                       ![wk[w].doc].version = TRUE]
                 /\ wk' = [wk EXCEPT ![w].pc = "attach", ![w].pending = FALSE]
    <2>1. /\ job' = job /\ fileRow' = fileRow
          /\ wk[w].pc \in Writing
          /\ wk[w].doc \in Docs
      BY <1>15
      DEF InsertTag, WriteVersion, At, Writing, FileInv, LinkInv, Made
    <2>2. /\ wk'[w].doc = wk[w].doc
          /\ \/ wk'[w].pc = "tags" /\ wk'[w].pending = FALSE
             \/ wk'[w].pc = "attach"
      BY <1>0, <1>15, InsertRun, VersionRun
    <2>3. FileRun(w) /\ wk[w].file \in Contents
      BY <1>0, <2>1 DEF FileRun
    <2>4. CASE /\ InsertTag(w)
               /\ wk[w].cur \in tag \/ ~LinkIsSound(w)
               /\ UNCHANGED <<tag, doc>>
      <3>1. KeptRun(w) => FALSE
        BY <2>3, <2>4
        DEF KeptRun, InsertTag, At, LinkIsSound, Staged, Writing, Written
      <3>2. wk'[w].pc = "tags" /\ wk'[w].pending = FALSE /\ wk'[w].file = wk[w].file
        BY <1>0, <2>4, InsertRun
      <3>3. FileRun(w)'
        BY <2>3, <3>2 DEF FileRun, Storing, Staged, Writing
      <3> QED
        BY <1>0, <2>1, <2>4, <3>1, <3>3, FileFrame
    <2>5. CASE /\ LinkIsSound(w)
               /\ \/ doc' = [doc EXCEPT ![wk[w].doc].file = Linked(w)]
                  \/ doc' = [doc EXCEPT ![wk[w].doc].file = Linked(w),
                                        ![wk[w].doc].version = TRUE]
               /\ wk'[w].file = wk[w].file
      <3>1. /\ \A e \in Docs \ {wk[w].doc} : doc'[e] = doc[e]
            /\ doc'[wk[w].doc].life = doc[wk[w].doc].life
            /\ doc'[wk[w].doc].dup = doc[wk[w].doc].dup
            /\ doc'[wk[w].doc].file = Linked(w)
        BY <1>0, <2>1, <2>5 DEF ContentOK, DocRow
      <3>2. wk[w].pending => wk[w].file \in fileRow
        BY <2>5 DEF LinkIsSound
      <3>3. LinkedStored'
        BY <2>1, <3>1, <3>2 DEF FileInv, LinkedStored, Linked
      <3>4. DuplicatesFlagged'
        <4>1. CASE wk[w].pending
          BY <2>1, <2>3, <3>1, <4>1 DEF FileInv, DuplicatesFlagged, Linked, FileRun
        <4>2. CASE ~wk[w].pending
          BY <2>1, <3>1, <4>2 DEF FileInv, DuplicatesFlagged, Linked
        <4> QED
          BY <4>1, <4>2
      <3>5. FileRun(w)'
        BY <2>2, <2>3, <2>5 DEF FileRun, Storing, Staged, Writing
      <3>6. KeptRun(w) => doc'[wk[w].doc].file # NoContent
        BY NullsAssumption, <2>1, <2>3, <3>1 DEF KeptRun, Linked, Writing
      <3>7. KeptRun(w) => KeptRun(w)'
        BY <2>1, <2>2, <2>5, <3>1, <3>6
        DEF KeptRun, DocIsLive, Staged, Writing, Written
      <3>8. KeptRun(w) /\ DocumentsFiled => DocumentsFiled'
        BY <1>0, <2>1, <3>1, <3>6 DEF DocumentsFiled, RowsOK, JobRow
      <3>9. (\A d \in Docs : doc[d].life # "deleted")
               => \A d \in Docs : doc'[d].life # "deleted"
        BY <3>1
      <3> QED
        BY <1>0, <3>3, <3>4, <3>5, <3>7, <3>8, <3>9 DEF FileInv, OneWorker
    <2>6. wk'[w].file = wk[w].file
      BY <1>0, <1>15, InsertRun, VersionRun
    <2> QED
      BY SMTT(60), <1>15, <2>4, <2>5, <2>6 DEF InsertTag
  <1>16. CASE WriteVersion(w) /\ doc' = doc /\ RowGone(w, "DB_WRITE_FAIL")
    BY <1>0, <1>1, <1>16, RaiseRun, LeaveRun, FileQuiet
    DEF WriteVersion, RowGone, FlushFails
  <1>17. WriteVersion(w) =>
            \/ /\ LinkIsSound(w)
               /\ doc' = [doc EXCEPT ![wk[w].doc].file = Linked(w),
                                     ![wk[w].doc].version = TRUE]
               /\ wk' = [wk EXCEPT ![w].pc = "attach", ![w].pending = FALSE]
            \/ doc' = doc /\ RowGone(w, "DB_WRITE_FAIL")
    BY Zenon DEF WriteVersion
  <1> QED
    BY <1>2, <1>3, <1>4, <1>5, <1>6, <1>7, <1>8, <1>9, <1>10, <1>11, <1>12, <1>13,
       <1>14, <1>15, <1>16, <1>17
    DEF PipelineStep

\* Failures and faults leave the documents and the files alone.
LEMMA FileFault ==
  ASSUME OneWorker, FileInv, LinkInv', CountersGrow, NEW w \in Workers,
         FailureStep(w) \/ FaultStep(w)
  PROVE  FileInv'
  <1>0. WorkersOK /\ RowsOK /\ (wk[w].pc # "idle" => wk[w].job \in Jobs)
    BY SMTT(60) DEF FileInv, LinkInv, TypeInv, WorkersOK, Sound
  <1>1. UNCHANGED content
    BY <1>0
    DEF FailureStep, FaultStep, RecordError, MarkFailed, Decide, ScheduleRetry,
        PublishRetry, DeadLetter, PublishRetryFails, WorkerKilled, ChildKilled,
        Redeliver
  <1>2. \A j \in Jobs : job'[j].doc = job[j].doc
    <2>1. CASE MarkFailed(w)
      BY SMTT(60), <1>0, <2>1, DocKept DEF MarkFailed, At
    <2>2. CASE RecordError(w) \/ ScheduleRetry(w) \/ DeadLetter(w)
      BY <1>0, <2>2 DEF RecordError, ScheduleRetry, DeadLetter, RowsOK, JobRow
    <2>3. CASE UNCHANGED job
      BY <2>3
    <2> QED
      BY <2>1, <2>2, <2>3
      DEF FailureStep, FaultStep, Decide, PublishRetry, PublishRetryFails,
          WorkerKilled, ChildKilled, Redeliver
  <1>3. CASE Redeliver(w)
    BY <1>0, <1>1, <1>2, <1>3, RedeliverRun, FileOn DEF content
  <1>4. CASE ~Redeliver(w)
    <2>1. wk'[w].pc \in {"idle", "fail", "failed", "decide", "retry", "publish",
                         "dead"}
      BY <1>0, <1>4, GotoRun, LeaveRun, RecordRun, RefusedRun
      DEF FailureStep, FaultStep, MarkFailed, Decide, ScheduleRetry, PublishRetry,
          DeadLetter, WorkerKilled, ChildKilled
    <2> QED
      BY SMTT(60), <1>1, <1>2, <2>1, FileQuiet DEF content
  <1> QED
    BY <1>3, <1>4

\* A delete takes a link away, and the file only when nothing else links it.
LEMMA FileDelete ==
  ASSUME OneWorker, FileInv, LinkInv', NEW d \in Docs, DeleteDocument(d)
  PROVE  FileInv'
  <1>0. ContentOK /\ used \in [Events -> Nat]
    BY DEF FileInv, LinkInv, TypeInv
  <1>1. used'.deletes # 0 /\ wk' = wk /\ doc[d].life = "live"
    BY <1>0 DEF DeleteDocument, Count, Events
  <1>2. /\ \A e \in Docs \ {d} : doc'[e] = doc[e]
        /\ doc'[d].life = "deleted"
        /\ doc'[d].dup = doc[d].dup
    BY <1>0 DEF DeleteDocument, ContentOK, DocRow
  <1>3. /\ fileRow' \subseteq fileRow
        /\ \A e \in Docs \ {d} : doc[e].life = "live" /\ doc[e].file \in fileRow
                                 => doc[e].file \in fileRow'
    BY DEF DeleteDocument
  <1>4. LinkedStored' /\ DuplicatesFlagged'
    BY <1>2, <1>3 DEF FileInv, LinkedStored, DuplicatesFlagged
  <1>5. ASSUME NEW w \in Workers PROVE FileRun(w)'
    <2>1. FileRun(w) /\ (wk[w].pc \in Writing => wk[w].doc \in Docs)
      BY DEF FileInv, LinkInv, Made, Writing
    <2>2. \A c : IsLinked(c)' => IsLinked(c)
      BY <1>2 DEF IsLinked
    <2>3. /\ wk[w].pc \in Writing => doc'[wk[w].doc].dup = doc[wk[w].doc].dup
          /\ \A e \in Docs : doc'[e].life = "live" => doc'[e] = doc[e]
      BY <1>2, <2>1
    <2> QED
      BY <1>1, <1>3, <2>1, <2>2, <2>3 DEF FileRun
  <1> QED
    BY <1>1, <1>4, <1>5 DEF FileInv

LEMMA FileStep == OneWorker /\ FileInv /\ [Next]_vars => FileInv'
  <1> SUFFICES ASSUME OneWorker, FileInv, [Next]_vars PROVE FileInv'
    OBVIOUS
  <1>0. LinkInv' /\ CountersGrow /\ WorkersOK /\ RowsOK
    BY LinkStep, StepGrows DEF FileInv, LinkInv, TypeInv
  <1>1. ASSUME UNCHANGED <<doc, fileRow, tag, wk>>,
               \A j \in Jobs : job'[j].doc = job[j].doc
        PROVE  FileInv'
    <2>1. CASE Workers = {}
      <3>1. used'.deletes = 0 => used.deletes = 0
        BY <1>0 DEF CountersGrow, FileInv, LinkInv, TypeInv, Events
      <3> QED
        BY <1>0, <1>1, <2>1, <3>1
        DEF FileInv, LinkedStored, DuplicatesFlagged, DocumentsFiled
    <2>2. ASSUME NEW w \in Workers PROVE FileInv'
      BY <1>0, <1>1, FileOn DEF SameLoad
    <2> QED
      BY <2>1, <2>2
  <1>2. CASE UNCHANGED vars
    BY <1>1, <1>2 DEF vars
  <1>3. ASSUME NEW w \in Workers, WorkerStep(w) \/ FaultStep(w) PROVE FileInv'
    BY <1>0, <1>3, FilePipeline, FileFault DEF WorkerStep
  <1>4. ASSUME NEW w \in Workers, NEW j \in Jobs, Take(w, j) PROVE FileInv'
    <2>1. wk'[w].pc = "load" /\ ~wk'[w].dup
      BY <1>0, <1>4, TakeRun
    <2> QED
      BY <1>0, <1>4, <2>1, FileQuiet DEF Take, content
  <1>5. ASSUME NEW j \in Jobs, NEW c \in Contents, Accept(j, c) PROVE FileInv'
    <2>1. job[j].doc = NoDoc
      BY <1>5 DEF Accept, FileInv, LinkInv, Accepted
    <2>2. \A i \in Jobs : job'[i].doc = job[i].doc
      BY <1>0, <1>5, <2>1 DEF Accept, NoRow, RowsOK
    <2> QED
      BY <1>1, <1>5, <2>2 DEF Accept, content
  <1>6. ASSUME NEW j \in Jobs, Publish(j) \/ PublishLost(j) PROVE FileInv'
    BY <1>1, <1>6 DEF Publish, PublishLost, content
  <1>7. ASSUME NEW j \in Jobs, LoseTempFile(j) PROVE FileInv'
    <2>1. \A i \in Jobs : job'[i].doc = job[i].doc
      BY <1>0, <1>7 DEF LoseTempFile, RowsOK, JobRow
    <2> QED
      BY <1>1, <1>7, <2>1 DEF LoseTempFile, content
  <1>8. ASSUME NEW j \in Jobs, OperatorStep(j) PROVE FileInv'
    <2>1. ASSUME NEW reset, NEW clear,
                 job' = [job EXCEPT ![j] = Received(@, reset, clear)]
          PROVE  \A i \in Jobs : job'[i].doc = job[i].doc
      BY <1>0, <2>1 DEF Received, RowsOK, JobRow
    <2>2. ASSUME NEW c, NEW reset, NEW clear,
                 job' = [job EXCEPT ![j] =
                           [Received(@, reset, clear) EXCEPT !.temp = c]]
          PROVE  \A i \in Jobs : job'[i].doc = job[i].doc
      BY <1>0, <2>2 DEF Received, RowsOK, JobRow
    <2>3. \A i \in Jobs : job'[i].doc = job[i].doc
      BY <1>8, <2>1, <2>2 DEF OperatorStep, Requeue, RecoverUpload, Reprocess
    <2> QED
      BY <1>1, <1>8, <2>3
      DEF OperatorStep, Requeue, RecoverUpload, Reprocess, content
  <1>9. ASSUME NEW d \in Docs, DeleteDocument(d) PROVE FileInv'
    BY <1>0, <1>9, FileDelete
  <1> QED
    BY <1>2, <1>3, <1>4, <1>5, <1>6, <1>7, <1>8, <1>9 DEF Next

\* With one worker two documents never share a file unflagged, whatever is killed,
\* redelivered, requeued or deleted.
THEOREM SharedFilesAreFlagged ==
  ASSUME OneWorker
  PROVE  Spec => []DuplicatesFlagged
  <1>1. Spec => []FileInv
    BY FileInit, FileStep, PTL DEF Spec
  <1>2. FileInv => DuplicatesFlagged
    BY DEF FileInv
  <1> QED
    BY <1>1, <1>2, PTL

\* With one worker, as long as nothing is deleted, a job that was published or sent
\* to review has a document with its file, whatever else happens.
THEOREM PublishedDocumentsHaveFiles ==
  ASSUME OneWorker
  PROVE  Spec => [](used.deletes = 0 => PublishedHasFile)
  <1>1. Spec => []FileInv
    BY FileInit, FileStep, PTL DEF Spec
  <1>2. FileInv => (used.deletes = 0 => PublishedHasFile)
    BY DEF FileInv, DocumentsFiled, PublishedHasFile
  <1> QED
    BY <1>1, <1>2, PTL

-----------------------------------------------------------------------------
(* Nobody waits for nobody.                                                *)

\* No operator has called and nothing was deleted: what follows is about what
\* kills, refused publishes, lost files and failing stages do.
LeftAlone == used.operator = 0 /\ used.deletes = 0

\* A job that is not finished has somebody to finish it, and one in FAILED too,
\* unless its attempts are used up.
Attended(j) ==
    /\ used.lost = 0 /\ used.children = 0
          => \/ job[j].state \in TerminalStates \cup {"none"}
             \/ Awaited(j) \/ Running(j)
    /\ used.children = 0 /\ job[j].state = "FAILED"
          => Awaited(j) \/ Running(j) \/ job[j].attempts >= MaxAttempts

\* The handler of an upload is the only one that will publish the job's message.
FirstMessage(j) ==
    sending[j] > 0 => /\ sending[j] = 1 /\ ready[j] = 0
                      /\ job[j].state = "RECEIVED"
                      /\ ~Running(j)

\* What a run knows of its row, and that its message is there again if it is not
\* this worker that holds it.
RunSettled(w) ==
    /\ wk[w].pc = "begin" => wk[w].seen = JobOf(w).attempts
    /\ wk[w].pc = "return" => JobOf(w).state \in {"PUBLISHED", "NEEDS_REVIEW"}
    /\ wk[w].pc = "publish" => JobOf(w).state = "RECEIVED"
    /\ wk[w].pc = "dead" => JobOf(w).attempts >= MaxAttempts
    /\ wk[w].pc # "idle" /\ ~wk[w].held => ready[wk[w].job] > 0

Settled ==
    /\ \A j \in Jobs : Attended(j) /\ FirstMessage(j)
    /\ \A w \in Workers : RunSettled(w)

SettledInv == FileInv /\ (LeftAlone => Settled)

LEMMA SettledInit == Init => SettledInv
  <1> SUFFICES ASSUME Init PROVE SettledInv
    OBVIOUS
  <1>1. \A j \in Jobs : Attended(j) /\ FirstMessage(j)
    BY DEF Init, Attended, FirstMessage, NoRow
  <1>2. \A w \in Workers : RunSettled(w)
    BY DEF Init, RunSettled, Idle
  <1> QED
    BY <1>1, <1>2, FileInit DEF SettledInv, Settled

\* A step that leaves the rows of the other jobs as they are.
OtherRows(w) ==
    \A i \in Jobs \ {wk[w].job} :
        job'[i].state = job[i].state /\ job'[i].attempts = job[i].attempts

LEMMA SetStateRow ==
  ASSUME RowsOK, NEW j \in Jobs, NEW state, SetState(j, state)
  PROVE  /\ \A i \in Jobs \ {j} : job'[i] = job[i]
         /\ job'[j].state = state
         /\ job'[j].attempts = job[j].attempts
         /\ job'[j].retry = job[j].retry
  BY DEF SetState, RowsOK, JobRow

LEMMA RunningAlone ==
  ASSUME OneWorker, NEW w \in Workers, wk[w].pc # "idle"
  PROVE  \A i : Running(i) <=> i = wk[w].job
  BY DEF OneWorker, Running

\* A run that goes on.
LEMMA SettledGo ==
  ASSUME OneWorker, SettledInv, FileInv', CountersGrow, LeftAlone, NEW w \in Workers,
         wk[w].pc # "idle", wk'[w].pc # "idle", wk'[w].job = wk[w].job,
         OtherRows(w), sending' = sending, ready' = ready, RunSettled(w)'
  PROVE  Settled'
  <1>0. PICK j \in Jobs : j = wk[w].job
    BY DEF SettledInv, FileInv, LinkInv, TypeInv, WorkersOK, Sound
  <1>1. \A i : (Running(i) <=> i = j) /\ (Running(i)' <=> i = j)
    BY <1>0 DEF OneWorker, Running
  <1>2. /\ Settled
        /\ used'.lost = 0 => used.lost = 0
        /\ used'.children = 0 => used.children = 0
    BY DEF SettledInv, FileInv, LinkInv, TypeInv, WorkersOK, Sound, CountersGrow,
           Events
  <1>3. \A i \in Jobs \ {j} : Attended(i)' /\ FirstMessage(i)'
    BY <1>0, <1>1, <1>2 DEF Settled, Attended, FirstMessage, OtherRows, Awaited
  <1>4. Attended(j)'
    BY <1>1 DEF Attended
  <1>5. FirstMessage(j)'
    BY <1>1, <1>2 DEF Settled, FirstMessage
  <1>6. \A v \in Workers : RunSettled(v)'
    BY DEF OneWorker
  <1> QED
    BY <1>3, <1>4, <1>5, <1>6 DEF Settled

\* Most places ask nothing of the row.
LEMMA SettledOn ==
  ASSUME OneWorker, SettledInv, FileInv', CountersGrow, LeftAlone, NEW w \in Workers,
         wk[w].pc # "idle", wk'[w].job = wk[w].job, wk'[w].held = wk[w].held,
         wk'[w].pc \notin {"idle", "begin", "return", "publish", "dead"},
         OtherRows(w), sending' = sending, ready' = ready
  PROVE  Settled'
  <1>1. RunSettled(w)'
    BY DEF SettledInv, Settled, RunSettled
  <1> QED
    BY <1>1, SettledGo

\* A run that ends has left its job finished or waiting.
LEMMA SettledEnd ==
  ASSUME OneWorker, SettledInv, FileInv', CountersGrow, LeftAlone, NEW w \in Workers,
         wk[w].pc # "idle", wk'[w].pc = "idle", OtherRows(w), sending' = sending,
         NEW j \in Jobs, wk[w].job = j, Attended(j)',
         ready' = ready \/ ready' = [ready EXCEPT ![j] = @ + 1]
  PROVE  Settled'
  <1>1. \A i : (Running(i) <=> i = j) /\ ~Running(i)'
    BY DEF OneWorker, Running
  <1>2. /\ Settled /\ BrokerOK
        /\ used'.lost = 0 => used.lost = 0
        /\ used'.children = 0 => used.children = 0
    BY DEF SettledInv, FileInv, LinkInv, TypeInv, CountersGrow, Events
  <1>3. \A i \in Jobs \ {j} : ready'[i] = ready[i]
    BY <1>2 DEF BrokerOK
  <1>4. \A i \in Jobs \ {j} : Attended(i)' /\ FirstMessage(i)'
    BY <1>1, <1>2, <1>3 DEF Settled, Attended, FirstMessage, OtherRows, Awaited
  <1>5. FirstMessage(j)'
    BY <1>1, <1>2 DEF Settled, FirstMessage
  <1>6. \A v \in Workers : RunSettled(v)'
    BY DEF OneWorker, RunSettled
  <1> QED
    BY <1>4, <1>5, <1>6 DEF Settled

\* Only a run in some place takes a step of the task.
LEMMA StepsRun ==
  ASSUME NEW w \in Workers, PipelineStep(w) \/ FailureStep(w) \/ FaultStep(w)
  PROVE  wk[w].pc # "idle"
  <1>1. CASE PipelineStep(w)
    BY ZenonT(60), <1>1
    DEF PipelineStep, Load, Begin, ReadTempFile, PutObject, InsertFileRow,
        SetStored, Extract, Classify, CreateDocument, LookupTag, InsertTag,
        WriteVersion, AttachDocument, SetIndexed, SetFinished, Return, At
  <1>2. CASE FailureStep(w) \/ FaultStep(w)
    BY ZenonT(60), <1>2
    DEF FailureStep, FaultStep, RecordError, MarkFailed, Decide, ScheduleRetry,
        PublishRetry, DeadLetter, PublishRetryFails, WorkerKilled, ChildKilled,
        Redeliver, At
  <1> QED
    BY SMTT(60), <1>1, <1>2

LEMMA SettledPipeline ==
  ASSUME OneWorker, SettledInv, FileInv', CountersGrow, LeftAlone, NEW w \in Workers,
         NEW j \in Jobs, wk[w].job = j, wk[w].pc # "idle",
         PipelineStep(w)
  PROVE  Settled'
  <1>0. /\ WorkersOK /\ RowsOK
        /\ FileRun(w) /\ KeptRun(w) /\ RunSettled(w)
    BY SMTT(60) DEF SettledInv, FileInv, LinkInv, TypeInv, WorkersOK, Sound, LeftAlone, Settled
  <1>1. sending' = sending /\ ready' = ready
    BY ZenonT(60) DEF PipelineStep, Load, Begin, ReadTempFile, PutObject, InsertFileRow,
        SetStored, Extract, Classify, CreateDocument, LookupTag, InsertTag,
        WriteVersion, AttachDocument, SetIndexed, SetFinished, Return, At, broker
  <1>2. OtherRows(w)
    <2>1. ASSUME NEW state, SetState(j, state) PROVE OtherRows(w)
      BY <1>0, <1>1, <2>1, SetStateRow DEF OtherRows
    <2>2. ASSUME job' = job PROVE OtherRows(w)
      BY <2>2 DEF OtherRows
    <2>3. CASE Begin(w) \/ AttachDocument(w)
      BY <1>0, <2>2, <2>3 DEF Begin, AttachDocument, OtherRows, RowsOK
    <2> QED
      BY <2>1, <2>2, <2>3
      DEF PipelineStep, Load, ReadTempFile, PutObject, InsertFileRow, SetStored,
          Extract, Classify, CreateDocument, LookupTag, InsertTag, WriteVersion,
          SetIndexed, SetFinished, Return
  <1>3. CASE Load(w)
    <2>1. RunSettled(w)'
      BY ZenonT(60), <1>0, <1>1, <1>3, LoadRun
      DEF RunSettled, Load, SameDelivery, JobOf
    <2> QED
      BY <1>0, <1>1, <1>2, <1>3, <2>1, LoadRun, SettledGo DEF SameDelivery
  <1>4. CASE \/ Begin(w) \/ ReadTempFile(w) \/ Classify(w) \/ InsertTag(w)
             \/ \E d \in Docs : CreateDocument(w, d)
             \/ \E t \in Tags : LookupTag(w, t)
    <2>1. SameDelivery(w) /\ wk'[w].pc \notin {"idle", "begin", "return", "publish",
                                              "dead"}
      BY ZenonT(60), <1>0, <1>4, BeginRun, ReadRun, ClassifyRun, InsertRun, CreateRun, LookupRun
    <2> QED
      BY <1>1, <1>2, <2>1, SettledOn DEF SameDelivery
  <1>5. ASSUME NEW pc \in {"insert", "stored", "extract", "classify", "index",
                          "finish", "fail"},
               Goto(w, pc) \/ (pc = "fail" /\ \E code : Raise(w, code))
        PROVE  Settled'
    <2>1. SameDelivery(w) /\ wk'[w].pc = pc
      BY <1>0, <1>5, GotoRun, RaiseRun DEF Otherwise
    <2> QED
      BY <1>1, <1>2, <1>5, <2>1, SettledOn DEF SameDelivery
  <1>6. CASE PutObject(w) \/ SetStored(w) \/ Extract(w) \/ SetIndexed(w)
    BY <1>5, <1>6 DEF PutObject, SetStored, Extract, SetIndexed
  <1>7. CASE InsertFileRow(w)
    <2>1. wk[w].file \notin fileRow
      BY <1>0, <1>7 DEF InsertFileRow, At, FileRun, Storing
    <2> QED
      BY <1>5, <1>7, <2>1 DEF InsertFileRow
  <1>8. CASE WriteVersion(w)
    <2>1. DocIsLive(w) /\ LinkIsSound(w)
      BY <1>0, <1>8 DEF WriteVersion, At, KeptRun, LinkIsSound, Writing
    <2>2. SameDelivery(w) /\ wk'[w].pc = "attach"
      BY <1>0, <1>8, <2>1, VersionRun DEF WriteVersion
    <2> QED
      BY <1>1, <1>2, <2>2, SettledOn DEF SameDelivery
  <1>9. CASE AttachDocument(w)
    <2>1. DocIsLive(w)
      BY <1>0, <1>9 DEF AttachDocument, At, KeptRun, Written
    <2> QED
      BY <1>5, <1>9, <2>1 DEF AttachDocument
  <1>10. CASE SetFinished(w)
    <2>1. CASE Raise(w, "PIPELINE_UNEXPECTED")
      BY <1>5, <2>1
    <2>2. ASSUME NEW state \in {"PUBLISHED", "NEEDS_REVIEW"}, SetState(j, state),
                 Goto(w, "return")
          PROVE  Settled'
      <3>1. wk'[w].pc = "return" /\ SameDelivery(w)
        BY <1>0, <2>2, GotoRun DEF Otherwise
      <3>2. job'[j].state = state
        BY <1>0, <1>1, <2>2, SetStateRow
      <3>3. RunSettled(w)'
        BY <1>0, <1>1, <3>1, <3>2 DEF RunSettled, SameDelivery, JobOf
      <3> QED
        BY <1>1, <1>2, <3>1, <3>3, SettledGo DEF SameDelivery
    <2> QED
      BY <1>10, <2>1, <2>2 DEF SetFinished
  <1>11. CASE Return(w)
    <2>1. LeaveTask(w) /\ job' = job
      BY <1>0, <1>11 DEF Return, At, KeptRun, Written
    <2>2. job[j].state \in {"PUBLISHED", "NEEDS_REVIEW"}
      BY <1>0, <1>11 DEF Return, At, RunSettled, JobOf
    <2>3. Attended(j)'
      BY <2>1, <2>2 DEF Attended, TerminalStates
    <2> QED
      BY <1>0, <1>1, <1>2, <2>1, <2>3, LeaveRun, SettledEnd
  <1> QED
    BY <1>3, <1>4, <1>6, <1>7, <1>8, <1>9, <1>10, <1>11 DEF PipelineStep

LEMMA SettledFault ==
  ASSUME OneWorker, SettledInv, FileInv', CountersGrow, LeftAlone, NEW w \in Workers,
         NEW j \in Jobs, wk[w].job = j, wk[w].pc # "idle",
         FailureStep(w) \/ FaultStep(w)
  PROVE  Settled'
  <1>0. /\ WorkersOK /\ RowsOK /\ BrokerOK /\ used \in [Events -> Nat]
        /\ RunSettled(w)
        /\ used' \in [Events -> Nat]
        /\ ready' \in [Jobs -> Nat]
    BY DEF SettledInv, FileInv, LinkInv, TypeInv, WorkersOK, Sound, Settled, BrokerOK
  <1>1. sending' = sending
    BY DEF FailureStep, FaultStep, RecordError, MarkFailed, Decide, ScheduleRetry,
        PublishRetry, DeadLetter, PublishRetryFails, WorkerKilled, ChildKilled,
        Redeliver, At, broker
  <1>2. OtherRows(w)
    <2>1. CASE MarkFailed(w)
      BY <1>0, <1>1, <2>1, SetStateRow DEF OtherRows, MarkFailed
    <2>2. CASE RecordError(w) \/ ScheduleRetry(w) \/ DeadLetter(w)
      BY <1>0, <2>2 DEF RecordError, ScheduleRetry, DeadLetter, OtherRows, RowsOK
    <2>3. CASE job' = job
      BY <2>3 DEF OtherRows
    <2> QED
      BY <2>1, <2>2, <2>3
      DEF FailureStep, FaultStep, Decide, PublishRetry, PublishRetryFails,
          WorkerKilled, ChildKilled, Redeliver
  <1>3. CASE RecordError(w)
    BY <1>0, <1>1, <1>2, <1>3, RecordRun, SettledOn DEF RecordError, broker
  <1>4. CASE MarkFailed(w)
    BY <1>0, <1>1, <1>2, <1>4, GotoRun, SettledOn
    DEF MarkFailed, broker, Otherwise, SameDelivery
  <1>5. CASE Decide(w)
    <2>1. /\ wk'[w].pc = (IF should_retry(JobOf(w).attempts) THEN "retry" ELSE "dead")
          /\ SameDelivery(w)
      BY <1>0, <1>5, GotoRun DEF Decide, Otherwise
    <2>2. job' = job /\ ready' = ready
      BY <1>5 DEF Decide, broker
    <2>3. JobOf(w).attempts \in Nat
      BY <1>0, <1>1 DEF RowsOK, JobRow, JobOf
    <2>4. RunSettled(w)'
      BY BoundsAssumption, <1>0, <1>1, <2>1, <2>2, <2>3
      DEF RunSettled, SameDelivery, JobOf, should_retry
    <2> QED
      BY <1>0, <1>1, <1>2, <2>1, <2>2, <2>4, SettledGo DEF SameDelivery
  <1>6. CASE ScheduleRetry(w)
    <2>1. wk'[w].pc = "publish" /\ SameDelivery(w)
      BY <1>0, <1>6, GotoRun DEF ScheduleRetry, Otherwise
    <2>2. job'[j].state = "RECEIVED" /\ ready' = ready
      BY <1>0, <1>1, <1>6 DEF ScheduleRetry, RowsOK, JobRow, broker
    <2>3. RunSettled(w)'
      BY <1>0, <1>1, <2>1, <2>2 DEF RunSettled, SameDelivery, JobOf
    <2> QED
      BY <1>0, <1>1, <1>2, <2>1, <2>2, <2>3, SettledGo DEF SameDelivery
  <1>7. ASSUME ready' = [ready EXCEPT ![j] = @ + 1] PROVE Awaited(j)'
    BY <1>0, <1>1, <1>7 DEF Awaited, BrokerOK
  <1>8. CASE PublishRetry(w)
    <2>1. Attended(j)'
      BY <1>7, <1>8 DEF PublishRetry, Attended
    <2> QED
      BY <1>0, <1>1, <1>2, <1>8, <2>1, LeaveRun, SettledEnd DEF PublishRetry
  <1>9. CASE DeadLetter(w)
    <2>1. job'[j].state = "FAILED" /\ job'[j].attempts >= MaxAttempts
      BY <1>0, <1>1, <1>9 DEF DeadLetter, RunSettled, At, JobOf, RowsOK, JobRow
    <2>2. Attended(j)'
      BY <2>1 DEF Attended, TerminalStates
    <2> QED
      BY <1>0, <1>1, <1>2, <1>9, <2>2, LeaveRun, SettledEnd DEF DeadLetter, broker
  <1>10. CASE PublishRetryFails(w)
    <2>1. used'.lost # 0 /\ job' = job /\ ready' = ready
      BY <1>0, <1>10 DEF PublishRetryFails, Count, Events, broker
    <2>2. job[j].state = "RECEIVED"
      BY <1>0, <1>10 DEF PublishRetryFails, At, RunSettled, JobOf
    <2>3. CASE wk'[w].pc = "idle"
      <3>1. Attended(j)'
        BY <2>1, <2>2 DEF Attended
      <3> QED
        BY <1>1, <1>2, <2>1, <2>3, <3>1, SettledEnd
    <2>4. CASE /\ wk'[w].pc = "decide" /\ wk'[w].job = wk[w].job
               /\ wk'[w].held = wk[w].held
      BY <1>1, <1>2, <2>1, <2>4, SettledOn
    <2> QED
      BY <1>0, <1>10, <2>3, <2>4, RefusedRun
  <1>11. CASE WorkerKilled(w)
    <2>1. Awaited(j)'
      <3>1. CASE wk[w].held
        BY <1>7, <1>11, <3>1 DEF WorkerKilled
      <3>2. CASE ~wk[w].held
        BY <1>0, <1>1, <1>11, <3>2 DEF WorkerKilled, RunSettled, Awaited
      <3> QED
        BY <3>1, <3>2
    <2>2. Attended(j)'
      BY <2>1 DEF Attended
    <2> QED
      BY <1>0, <1>1, <1>2, <1>11, <2>2, LeaveRun, SettledEnd DEF WorkerKilled
  <1>12. CASE ChildKilled(w)
    <2>1. used'.children # 0
      BY <1>0, <1>12 DEF ChildKilled, Count, Events
    <2>2. Attended(j)'
      BY <2>1 DEF Attended
    <2> QED
      BY <1>0, <1>1, <1>2, <1>12, <2>2, LeaveRun, SettledEnd DEF ChildKilled, broker
  <1>13. CASE Redeliver(w)
    <2>1. /\ wk'[w].pc = wk[w].pc /\ wk'[w].job = j /\ wk'[w].seen = wk[w].seen
          /\ job' = job /\ ready' = [ready EXCEPT ![j] = @ + 1]
      BY <1>0, <1>13, RedeliverRun DEF Redeliver
    <2>2. Settled /\ ready'[j] > 0
      BY <1>0, <1>1, <2>1 DEF SettledInv, BrokerOK
    <2>3. RunSettled(w)'
      BY <1>0, <1>1, <2>1, <2>2 DEF RunSettled, JobOf
    <2>4. \A i : (Running(i) <=> i = j) /\ (Running(i)' <=> i = j)
      BY <1>1, <2>1 DEF OneWorker, Running
    <2>5. \A i \in Jobs \ {j} : ready'[i] = ready[i]
      BY <1>0, <2>1 DEF BrokerOK
    <2>6. /\ used'.lost = 0 => used.lost = 0
          /\ used'.children = 0 => used.children = 0
      BY <1>0 DEF CountersGrow, Events
    <2>7. \A i \in Jobs \ {j} : Attended(i)' /\ FirstMessage(i)'
      BY <1>1, <1>2, <2>1, <2>2, <2>4, <2>5, <2>6
      DEF Settled, Attended, FirstMessage, OtherRows, Awaited
    <2>8. Attended(j)' /\ FirstMessage(j)'
      BY <1>1, <2>2, <2>4 DEF Settled, Attended, FirstMessage
    <2> QED
      BY <2>3, <2>7, <2>8 DEF Settled, OneWorker
  <1> QED
    BY <1>3, <1>4, <1>5, <1>6, <1>8, <1>9, <1>10, <1>11, <1>12, <1>13
    DEF FailureStep, FaultStep

\* A step of no worker, that sends or loses a message of one job.
LEMMA SettledMessage ==
  ASSUME OneWorker, SettledInv, FileInv', CountersGrow, LeftAlone, NEW j \in Jobs,
         wk' = wk, \A i \in Jobs \ {j} : /\ job'[i].state = job[i].state
                                        /\ job'[i].attempts = job[i].attempts
                                        /\ sending'[i] = sending[i]
                                        /\ ready'[i] = ready[i],
         Attended(j)', FirstMessage(j)',
         Running(j) => /\ job'[j].state = job[j].state
                       /\ job'[j].attempts = job[j].attempts
                       /\ ready[j] > 0 => ready'[j] > 0
  PROVE  Settled'
  <1>1. /\ Settled
        /\ used'.lost = 0 => used.lost = 0
        /\ used'.children = 0 => used.children = 0
    BY DEF SettledInv, FileInv, LinkInv, TypeInv, CountersGrow, Events
  <1>2. \A i \in Jobs \ {j} : Attended(i)' /\ FirstMessage(i)'
    BY <1>1 DEF Settled, Attended, FirstMessage, Awaited, Running
  <1>3. ASSUME NEW w \in Workers PROVE RunSettled(w)'
    <2>1. RunSettled(w) /\ (wk[w].pc # "idle" => wk[w].job \in Jobs)
      BY <1>1 DEF Settled, SettledInv, FileInv, LinkInv, TypeInv, WorkersOK, Sound
    <2>2. CASE wk[w].pc # "idle" /\ wk[w].job = j
      BY <2>1, <2>2 DEF RunSettled, JobOf, Running
    <2>3. CASE wk[w].pc # "idle" /\ wk[w].job # j
      BY <2>1, <2>3 DEF RunSettled, JobOf
    <2>4. CASE wk[w].pc = "idle"
      BY <2>4 DEF RunSettled
    <2> QED
      BY <2>2, <2>3, <2>4
  <1> QED
    BY <1>2, <1>3 DEF Settled

LEMMA SettledRequest ==
  ASSUME OneWorker, SettledInv, FileInv', CountersGrow, LeftAlone, LeftAlone',
         \/ \E w \in Workers, j \in Jobs : Take(w, j)
         \/ \E j \in Jobs, c \in Contents : Accept(j, c)
         \/ \E j \in Jobs : \/ Publish(j) \/ PublishLost(j) \/ LoseTempFile(j)
                            \/ OperatorStep(j)
         \/ \E d \in Docs : DeleteDocument(d)
  PROVE  Settled'
  <1>0. /\ WorkersOK /\ RowsOK /\ BrokerOK /\ used \in [Events -> Nat]
        /\ Settled /\ Accepted
        /\ used'.lost = 0 => used.lost = 0
        /\ used'.children = 0 => used.children = 0
    BY DEF SettledInv, FileInv, LinkInv, TypeInv, CountersGrow, Events
  <1>1. ASSUME NEW w \in Workers, NEW j \in Jobs, Take(w, j) PROVE Settled'
    <2>1. /\ job' = job /\ sending' = sending /\ ready[j] > 0
          /\ \A i \in Jobs \ {j} : ready'[i] = ready[i]
      BY <1>0, <1>1 DEF Take, BrokerOK
    <2>2. /\ wk[w].pc = "idle" /\ wk'[w].pc = "load" /\ wk'[w].job = j
          /\ wk'[w].held
      BY <1>0, <1>1, TakeRun
    <2>3. \A i : ~Running(i) /\ (Running(i)' <=> i = j)
      BY <2>2 DEF OneWorker, Running
    <2>4. \A i \in Jobs \ {j} : Attended(i)' /\ FirstMessage(i)'
      BY <1>0, <2>1, <2>3 DEF Settled, Attended, FirstMessage, Awaited
    <2>5. Attended(j)'
      BY <2>3 DEF Attended
    <2>6. FirstMessage(j)'
      BY <1>0, <2>1 DEF Settled, FirstMessage
    <2>7. RunSettled(w)'
      BY <2>2 DEF RunSettled
    <2> QED
      BY <2>4, <2>5, <2>6, <2>7 DEF Settled, OneWorker
  <1>2. ASSUME NEW j \in Jobs, NEW c \in Contents, Accept(j, c) PROVE Settled'
    <2>1. /\ job[j].state = "none"
          /\ ~Awaited(j) /\ ~Running(j)
      BY <1>0, <1>2 DEF Accept, Accepted, Running, At
    <2>2. /\ wk' = wk /\ ready' = ready
          /\ sending' = [sending EXCEPT ![j] = @ + 1]
          /\ job' = [job EXCEPT ![j] = [NoRow EXCEPT !.state = "RECEIVED",
                                                     !.temp = c]]
      BY <1>2, Zenon DEF Accept
    <2>3. sending'[j] = 1 /\ ready'[j] = 0 /\ job'[j].state = "RECEIVED"
      BY <1>0, <2>1, <2>2 DEF Awaited, BrokerOK, RowsOK, NoRow
    <2>4. Attended(j)' /\ FirstMessage(j)'
      BY <2>1, <2>2, <2>3 DEF Attended, FirstMessage, Awaited, Running
    <2>5. \A i \in Jobs \ {j} : /\ job'[i].state = job[i].state
                                 /\ job'[i].attempts = job[i].attempts
                                 /\ sending'[i] = sending[i]
                                 /\ ready'[i] = ready[i]
      BY <1>0, <2>2 DEF BrokerOK, RowsOK
    <2> QED
      BY <2>1, <2>2, <2>4, <2>5, SettledMessage
  <1>3. ASSUME NEW j \in Jobs, Publish(j) \/ PublishLost(j) PROVE Settled'
    <2>1. /\ sending[j] = 1 /\ ready[j] = 0 /\ job[j].state = "RECEIVED"
          /\ ~Running(j)
      BY <1>0, <1>3 DEF Publish, PublishLost, Settled, FirstMessage
    <2>2. /\ wk' = wk /\ job' = job
          /\ sending'[j] = 0
          /\ \A i \in Jobs \ {j} : sending'[i] = sending[i] /\ ready'[i] = ready[i]
      BY <1>0, <1>3, <2>1 DEF Publish, PublishLost, BrokerOK
    <2>3. used'.lost = 0 => ready'[j] > 0
      BY <1>0, <1>3, <2>1 DEF Publish, PublishLost, BrokerOK, Count, Events
    <2>4. Attended(j)' /\ FirstMessage(j)'
      BY <2>1, <2>2, <2>3 DEF Attended, FirstMessage, Awaited
    <2> QED
      BY <2>1, <2>2, <2>4, SettledMessage
  <1>4. ASSUME NEW j \in Jobs, LoseTempFile(j) PROVE Settled'
    <2>1. /\ wk' = wk /\ sending' = sending /\ ready' = ready
          /\ \A i \in Jobs : /\ job'[i].state = job[i].state
                             /\ job'[i].attempts = job[i].attempts
      BY <1>0, <1>4 DEF LoseTempFile, broker, RowsOK, JobRow
    <2>2. Attended(j)' /\ FirstMessage(j)'
      BY <1>0, <2>1 DEF Settled, Attended, FirstMessage, Awaited, Running
    <2> QED
      BY <2>1, <2>2, SettledMessage
  <1>5. ASSUME NEW j \in Jobs, OperatorStep(j) PROVE FALSE
    <2>1. Count("operator")
      BY <1>5 DEF OperatorStep, Requeue, RecoverUpload, Reprocess
    <2> QED
      BY <1>0, <2>1 DEF LeftAlone, Count, Events
  <1>6. ASSUME NEW d \in Docs, DeleteDocument(d) PROVE FALSE
    BY <1>0, <1>6 DEF DeleteDocument, LeftAlone, Count, Events
  <1> QED
    BY <1>1, <1>2, <1>3, <1>4, <1>5, <1>6

LEMMA SettledStep == OneWorker /\ SettledInv /\ [Next]_vars => SettledInv'
  <1> SUFFICES ASSUME OneWorker, SettledInv, [Next]_vars PROVE SettledInv'
    OBVIOUS
  <1>0. FileInv' /\ CountersGrow
    BY FileStep, StepGrows DEF SettledInv, FileInv, LinkInv, TypeInv
  <1>1. LeftAlone' => LeftAlone
    BY <1>0 DEF LeftAlone, CountersGrow, SettledInv, FileInv, LinkInv, TypeInv, Events
  <1>2. ASSUME LeftAlone, LeftAlone' PROVE Settled'
    <2>1. CASE UNCHANGED vars
      BY <1>2, <2>1
      DEF vars, SettledInv, Settled, Attended, FirstMessage, Awaited, Running,
          RunSettled, JobOf
    <2>2. ASSUME NEW w \in Workers, WorkerStep(w) \/ FaultStep(w) PROVE Settled'
      <3>1. wk[w].pc # "idle"
        BY <2>2, StepsRun DEF WorkerStep
      <3>2. PICK j \in Jobs : wk[w].job = j
        BY <3>1 DEF SettledInv, FileInv, LinkInv, TypeInv, WorkersOK, Sound
      <3> QED
        BY <1>0, <1>2, <2>2, <3>1, <3>2, SettledPipeline, SettledFault
        DEF WorkerStep
    <2> QED
      BY <1>0, <1>2, <2>1, <2>2, SettledRequest DEF Next
  <1> QED
    BY <1>0, <1>1, <1>2 DEF SettledInv

\* With one worker, and as long as no operator calls and nothing is deleted, a job
\* that rests is settled: whatever stage fails, and however often the worker is
\* killed, a message redelivered or its publish refused.
THEOREM NobodyIsStranded ==
  ASSUME OneWorker
  PROVE  Spec => [](LeftAlone => NoStrandedJob)
  <1>1. Spec => []SettledInv
    BY SettledInit, SettledStep, PTL DEF Spec
  <1>2. SettledInv => (LeftAlone => NoStrandedJob)
    BY DEF SettledInv, Settled, Attended, NoStrandedJob, AtRest
  <1> QED
    BY <1>1, <1>2, PTL

-----------------------------------------------------------------------------
(* IngestPipeline implements JobLifecycle.                                 *)

\* Nothing has interfered.
Calm == Undisturbed /\ used.children = 0

\* A job as a run of it finds or leaves it: waiting, in a stage, tried again.
Fresh(j) == job[j].state = "RECEIVED" /\ job[j].attempts < MaxAttempts
InStageOf(j, state) == job[j].state = state /\ ~job[j].retry
ToRetry(j) ==
    \/ job[j].state = "FAILED" /\ ~job[j].retry
    \/ job[j].state = "RECEIVED" /\ job[j].retry /\ job[j].attempts < MaxAttempts

\* The row and the documents of a job at every place of its run.
CalmRun(w) ==
    LET j == wk[w].job
    IN  /\ wk[w].pc \in {"load", "begin"} => Fresh(j)
        /\ wk[w].pc \in {"read", "put", "insert", "stored"} =>
              InStageOf(j, "RECEIVED")
        /\ wk[w].pc = "extract" => InStageOf(j, "STORED")
        /\ wk[w].pc = "classify" => InStageOf(j, "EXTRACTED")
        /\ wk[w].pc \in {"create", "tags", "newtag", "attach", "index"} =>
              InStageOf(j, "CLASSIFIED")
        /\ wk[w].pc = "finish" => job[j].state = "INDEXED"
        /\ wk[w].pc = "return" => job[j].state \in Lifecycle!Good
        /\ wk[w].pc \in {"fail", "failed"} =>
              \E state \in Lifecycle!InStage : InStageOf(j, state)
        /\ wk[w].pc = "decide" => ToRetry(j)
        /\ wk[w].pc = "retry" => ToRetry(j) /\ job[j].attempts < MaxAttempts
        /\ wk[w].pc = "publish" => Fresh(j) /\ job[j].retry
        /\ wk[w].pc = "dead" => InStageOf(j, "FAILED")
        /\ wk[w].pc \in Writing \cup (Written \ {"return"}) =>
              DocsOf(j) = {wk[w].doc}
        /\ wk[w].pc \notin {"idle", "return"} \cup Writing \cup Written =>
              DocsOf(j) = {}

\* A job waits for one message, whose run it will be.
Waiting(j) ==
    Awaited(j) => /\ Fresh(j)
                  /\ ready[j] <= 1
                  /\ DocsOf(j) = {}
                  /\ ~Running(j)

Unborn(j) ==
    job[j].state = "none" =>
        job[j].attempts = 0 /\ ~job[j].retry /\ DocsOf(j) = {}

CalmKept ==
    /\ \A j \in Jobs : Waiting(j) /\ Unborn(j)
    /\ \A w \in Workers : CalmRun(w)

CalmInv == SettledInv /\ (Calm => CalmKept)

\* What the refinement mapping makes of the rows and the runs.
StateOf == [j \in Jobs |-> job[j].state]
AttemptsOf == [j \in Jobs |-> job[j].attempts]
RetryOf == [j \in Jobs |-> job[j].retry]
MadeOf == [j \in Jobs |-> Cardinality(DocsOf(j))]
RunningOf == [j \in Jobs |-> Running(j)]

LEMMA CalmInit == Init => CalmInv /\ Lifecycle!Init
  <1> SUFFICES ASSUME Init PROVE CalmInv /\ Lifecycle!Init
    OBVIOUS
  <1>1. \A j \in Jobs : /\ job[j].state = "none" /\ job[j].attempts = 0
                        /\ job[j].retry = FALSE
                        /\ DocsOf(j) = {} /\ ~Running(j) /\ ~Awaited(j)
    BY DEF Init, NoRow, DocsOf, FreeDoc, Running, Idle, Awaited
  <1>2. \A w \in Workers : CalmRun(w)
    BY DEF Init, Idle, CalmRun, Writing, Written
  <1>3. \A j \in Jobs : Waiting(j) /\ Unborn(j)
    BY <1>1 DEF Waiting, Unborn
  <1>10. CalmInv
    BY <1>2, <1>3, SettledInit DEF CalmInv, CalmKept
  <1>4. StateOf = [j \in Jobs |-> "none"] /\ AttemptsOf = [j \in Jobs |-> 0]
    BY <1>1 DEF StateOf, AttemptsOf
  <1>5. RetryOf = [j \in Jobs |-> FALSE] /\ RunningOf = [j \in Jobs |-> FALSE]
    <2>1. \A j \in Jobs : Running(j) = FALSE
      BY <1>1 DEF Running
    <2>2. RunningOf = [j \in Jobs |-> FALSE]
      BY <2>1 DEF RunningOf
    <2> QED
      BY <1>1, <2>2 DEF RetryOf
  <1>6. MadeOf = [j \in Jobs |-> 0]
    BY <1>1, FS_EmptySet DEF MadeOf
  <1>7. Calm = TRUE
    BY DEF Init, Calm, Undisturbed, Events
  <1>8. Lifecycle!Init
    BY <1>4, <1>5, <1>6, <1>7
    DEF Lifecycle!Init, StateOf, AttemptsOf, RetryOf, MadeOf, RunningOf, Calm
  <1> QED
    BY <1>8, <1>10

\* A step that shows nothing of the jobs but j.
OthersKept(j) ==
    \A i \in Jobs \ {j} :
        /\ job'[i].state = job[i].state
        /\ job'[i].attempts = job[i].attempts
        /\ job'[i].retry = job[i].retry
        /\ DocsOf(i)' = DocsOf(i)
        /\ Running(i)' = Running(i)

\* How a step that shows only in job j looks from the specification.
LEMMA Mapped ==
  ASSUME NEW j \in Jobs, OthersKept(j)
  PROVE  /\ \A s : job'[j].state = s => StateOf' = [StateOf EXCEPT ![j] = s]
         /\ \A n : job'[j].attempts = n => AttemptsOf' = [AttemptsOf EXCEPT ![j] = n]
         /\ \A b : job'[j].retry = b => RetryOf' = [RetryOf EXCEPT ![j] = b]
         /\ \A n : Cardinality(DocsOf(j))' = n => MadeOf' = [MadeOf EXCEPT ![j] = n]
         /\ \A b : Running(j)' = b => RunningOf' = [RunningOf EXCEPT ![j] = b]
  <1>1. \A s : job'[j].state = s => StateOf' = [StateOf EXCEPT ![j] = s]
    BY DEF StateOf, OthersKept
  <1>2. \A n : job'[j].attempts = n => AttemptsOf' = [AttemptsOf EXCEPT ![j] = n]
    BY DEF AttemptsOf, OthersKept
  <1>3. \A b : job'[j].retry = b => RetryOf' = [RetryOf EXCEPT ![j] = b]
    BY DEF RetryOf, OthersKept
  <1>4. \A n : Cardinality(DocsOf(j))' = n => MadeOf' = [MadeOf EXCEPT ![j] = n]
    BY DEF MadeOf, OthersKept
  <1>5. \A b : Running(j)' = b => RunningOf' = [RunningOf EXCEPT ![j] = b]
    BY DEF RunningOf, OthersKept
  <1> QED
    BY <1>1, <1>2, <1>3, <1>4, <1>5

LEMMA MappedSame ==
  ASSUME NEW j \in Jobs, OthersKept(j)
  PROVE  /\ job'[j].state = job[j].state => StateOf' = StateOf
         /\ job'[j].attempts = job[j].attempts => AttemptsOf' = AttemptsOf
         /\ job'[j].retry = job[j].retry => RetryOf' = RetryOf
         /\ DocsOf(j)' = DocsOf(j) => MadeOf' = MadeOf
         /\ Running(j)' = Running(j) => RunningOf' = RunningOf
  <1>1. job'[j].state = job[j].state => StateOf' = StateOf
    BY DEF StateOf, OthersKept
  <1>2. job'[j].attempts = job[j].attempts => AttemptsOf' = AttemptsOf
    BY DEF AttemptsOf, OthersKept
  <1>3. job'[j].retry = job[j].retry => RetryOf' = RetryOf
    BY DEF RetryOf, OthersKept
  <1>4. DocsOf(j)' = DocsOf(j) => MadeOf' = MadeOf
    BY DEF MadeOf, OthersKept
  <1>5. Running(j)' = Running(j) => RunningOf' = RunningOf
    BY DEF RunningOf, OthersKept
  <1> QED
    BY <1>1, <1>2, <1>3, <1>4, <1>5

\* A step of one job that the specification allows.
LEMMA Allowed ==
  ASSUME NEW j \in Jobs, Lifecycle!Step(j), Calm, Calm'
  PROVE  Lifecycle!Next
  BY DEF Lifecycle!Next, Calm

\* One that changes only the state of a job that runs: a stage, the end of the
\* last stage, or a failure.
LEMMA StateStep ==
  ASSUME NEW j \in Jobs, OthersKept(j), Calm, Calm', Running(j), Running(j)',
         job'[j].attempts = job[j].attempts, job'[j].retry = job[j].retry,
         DocsOf(j)' = DocsOf(j),
         \/ job[j].state = "RECEIVED" /\ job'[j].state = "STORED"
         \/ job[j].state = "STORED" /\ job'[j].state = "EXTRACTED"
         \/ job[j].state = "EXTRACTED" /\ job'[j].state = "CLASSIFIED"
         \/ /\ job[j].state = "CLASSIFIED" /\ job'[j].state = "INDEXED"
            /\ Cardinality(DocsOf(j)) = 1
         \/ job[j].state = "INDEXED" /\ job'[j].state \in Lifecycle!Good
         \/ /\ job[j].state \in Lifecycle!InStage /\ job'[j].state = "FAILED"
            /\ Cardinality(DocsOf(j)) = 0
  PROVE  Lifecycle!Next
  <1>0. PICK s : s = job'[j].state
    OBVIOUS
  <1>1. /\ AttemptsOf' = AttemptsOf /\ RetryOf' = RetryOf /\ MadeOf' = MadeOf
        /\ RunningOf' = RunningOf
    BY MappedSame
  <1>2. StateOf' = [StateOf EXCEPT ![j] = s]
    BY <1>0, Mapped
  <1>3. /\ StateOf[j] = job[j].state /\ RunningOf[j] = TRUE
        /\ MadeOf[j] = Cardinality(DocsOf(j))
    BY DEF StateOf, RunningOf, MadeOf
  <1>4. Lifecycle!SetState(j, s)
    BY <1>2 DEF Lifecycle!SetState, StateOf
  <1>5. CASE \/ job[j].state = "RECEIVED" /\ s = "STORED"
             \/ job[j].state = "STORED" /\ s = "EXTRACTED"
             \/ job[j].state = "EXTRACTED" /\ s = "CLASSIFIED"
             \/ /\ job[j].state = "CLASSIFIED" /\ s = "INDEXED"
                /\ Cardinality(DocsOf(j)) = 1
    <2>1. /\ Lifecycle!Stage[1] = "RECEIVED" /\ Lifecycle!Stage[2] = "STORED"
          /\ Lifecycle!Stage[3] = "EXTRACTED" /\ Lifecycle!Stage[4] = "CLASSIFIED"
          /\ Lifecycle!Stage[5] = "INDEXED"
      BY DEF Lifecycle!Stage
    <2>2. PICK i \in 1 .. 4 : /\ job[j].state = Lifecycle!Stage[i]
                              /\ s = Lifecycle!Stage[i + 1]
                              /\ s = "INDEXED" => Cardinality(DocsOf(j)) = 1
      <3>1. /\ 1 \in 1 .. 4 /\ 2 \in 1 .. 4 /\ 3 \in 1 .. 4 /\ 4 \in 1 .. 4
            /\ 1 + 1 = 2 /\ 2 + 1 = 3 /\ 3 + 1 = 4 /\ 4 + 1 = 5
        OBVIOUS
      <3> QED
        BY <1>5, <2>1, <3>1
    <2>3. /\ StateOf[j] = Lifecycle!Stage[i]
          /\ Lifecycle!Stage[i + 1] = "INDEXED" => MadeOf[j] = 1
          /\ Lifecycle!SetState(j, Lifecycle!Stage[i + 1])
      BY <1>3, <1>4, <2>2
    <2>4. Lifecycle!Advance(j)
      BY <1>1, <1>3, <2>3
      DEF Lifecycle!Advance, StateOf, AttemptsOf, RetryOf, MadeOf, RunningOf
    <2> QED
      BY <2>4, Allowed DEF Lifecycle!Step
  <1>6. CASE job[j].state = "INDEXED" /\ s \in Lifecycle!Good
    <2>1. Lifecycle!Conclude(j)
      BY <1>1, <1>3, <1>4, <1>6
      DEF Lifecycle!Conclude, StateOf, AttemptsOf, RetryOf, MadeOf, RunningOf
    <2> QED
      BY <2>1, Allowed DEF Lifecycle!Step
  <1>7. CASE /\ job[j].state \in Lifecycle!InStage /\ s = "FAILED"
             /\ Cardinality(DocsOf(j)) = 0
    <2>1. Lifecycle!SetState(j, "FAILED")
      BY <1>4, <1>7
    <2>2. Lifecycle!Fail(j)
      BY <1>1, <1>3, <1>7, <2>1
      DEF Lifecycle!Fail, StateOf, AttemptsOf, RetryOf, MadeOf, RunningOf
    <2> QED
      BY <2>2, Allowed DEF Lifecycle!Step
  <1> QED
    BY <1>0, <1>5, <1>6, <1>7

LEMMA AttemptStep ==
  ASSUME NEW j \in Jobs, OthersKept(j), Calm, Calm', Running(j), Running(j)',
         Fresh(j), job'[j].state = job[j].state, job'[j].retry = FALSE,
         job'[j].attempts = job[j].attempts + 1, DocsOf(j)' = DocsOf(j)
  PROVE  Lifecycle!Next
  <1>1. StateOf' = StateOf /\ MadeOf' = MadeOf /\ RunningOf' = RunningOf
    BY MappedSame
  <1>2. /\ AttemptsOf' = [AttemptsOf EXCEPT ![j] = job[j].attempts + 1]
        /\ RetryOf' = [RetryOf EXCEPT ![j] = FALSE]
    BY Mapped
  <1>3. /\ AttemptsOf[j] = job[j].attempts /\ StateOf[j] = "RECEIVED"
        /\ RunningOf[j] = TRUE
    BY DEF AttemptsOf, StateOf, RunningOf, Fresh
  <1>4. Lifecycle!Attempt(j)
    BY <1>1, <1>2, <1>3
    DEF Lifecycle!Attempt, StateOf, AttemptsOf, RetryOf, MadeOf, RunningOf, Fresh
  <1> QED
    BY <1>4, Allowed DEF Lifecycle!Step

LEMMA MakeStep ==
  ASSUME NEW j \in Jobs, OthersKept(j), Calm, Calm', Running(j), Running(j)',
         job[j].state = "CLASSIFIED", job' = job,
         Cardinality(DocsOf(j)) = 0, Cardinality(DocsOf(j))' = 1
  PROVE  Lifecycle!Next
  <1>1. /\ StateOf' = StateOf /\ AttemptsOf' = AttemptsOf /\ RetryOf' = RetryOf
        /\ RunningOf' = RunningOf
    BY MappedSame
  <1>2. MadeOf' = [MadeOf EXCEPT ![j] = 1]
    BY Mapped
  <1>3. MadeOf[j] = 0 /\ StateOf[j] = "CLASSIFIED" /\ RunningOf[j] = TRUE
    BY DEF MadeOf, StateOf, RunningOf
  <1>4. Lifecycle!MakeDocument(j)
    BY <1>1, <1>2, <1>3
    DEF Lifecycle!MakeDocument, StateOf, AttemptsOf, RetryOf, MadeOf, RunningOf
  <1> QED
    BY <1>4, Allowed DEF Lifecycle!Step

LEMMA AgainStep ==
  ASSUME NEW j \in Jobs, OthersKept(j), Calm, Calm', Running(j), Running(j)',
         job[j].state = "FAILED", job[j].attempts < MaxAttempts,
         job'[j].state = "RECEIVED", job'[j].retry = TRUE,
         job'[j].attempts = job[j].attempts, DocsOf(j)' = DocsOf(j)
  PROVE  Lifecycle!Next
  <1>1. AttemptsOf' = AttemptsOf /\ MadeOf' = MadeOf /\ RunningOf' = RunningOf
    BY MappedSame
  <1>2. /\ StateOf' = [StateOf EXCEPT ![j] = "RECEIVED"]
        /\ RetryOf' = [RetryOf EXCEPT ![j] = TRUE]
    BY Mapped
  <1>3. /\ AttemptsOf[j] = job[j].attempts /\ StateOf[j] = "FAILED"
        /\ RunningOf[j] = TRUE
    BY DEF AttemptsOf, StateOf, RunningOf
  <1>4. Lifecycle!TryAgain(j)
    BY <1>1, <1>2, <1>3
    DEF Lifecycle!TryAgain, Lifecycle!SetState, StateOf, AttemptsOf, RetryOf,
        MadeOf, RunningOf
  <1> QED
    BY <1>4, Allowed DEF Lifecycle!Step

LEMMA EndStep ==
  ASSUME NEW j \in Jobs, OthersKept(j), Calm, Calm', Running(j), ~Running(j)',
         job'[j].state = job[j].state, job'[j].attempts = job[j].attempts,
         job'[j].retry = job[j].retry, DocsOf(j)' = DocsOf(j),
         \/ job[j].state \in Lifecycle!Good
         \/ Fresh(j) /\ job[j].retry
         \/ job[j].state = "FAILED" /\ job[j].attempts >= MaxAttempts
  PROVE  Lifecycle!Next
  <1>1. /\ StateOf' = StateOf /\ AttemptsOf' = AttemptsOf /\ RetryOf' = RetryOf
        /\ MadeOf' = MadeOf
    BY MappedSame
  <1>2. Running(j)' = FALSE
    OBVIOUS
  <1>3. RunningOf' = [RunningOf EXCEPT ![j] = FALSE]
    BY <1>2, Mapped
  <1>4. /\ StateOf[j] = job[j].state /\ AttemptsOf[j] = job[j].attempts
        /\ RetryOf[j] = job[j].retry /\ RunningOf[j] = TRUE
    BY DEF StateOf, AttemptsOf, RetryOf, RunningOf
  <1>5. Lifecycle!End(j)
    BY <1>1, <1>3, <1>4
    DEF Lifecycle!End, StateOf, AttemptsOf, RetryOf, MadeOf, RunningOf, Fresh
  <1> QED
    BY <1>5, Allowed DEF Lifecycle!Step

LEMMA StartStep ==
  ASSUME NEW j \in Jobs, OthersKept(j), Calm, Calm', ~Running(j), Running(j)',
         job[j].state = "RECEIVED", job' = job, DocsOf(j)' = DocsOf(j)
  PROVE  Lifecycle!Next
  <1>1. /\ StateOf' = StateOf /\ AttemptsOf' = AttemptsOf /\ RetryOf' = RetryOf
        /\ MadeOf' = MadeOf
    BY MappedSame
  <1>2. Running(j)' = TRUE /\ Running(j) = FALSE
    BY DEF Running
  <1>3. RunningOf' = [RunningOf EXCEPT ![j] = TRUE]
    BY <1>2, Mapped
  <1>4. StateOf[j] = "RECEIVED" /\ RunningOf[j] = FALSE
    BY <1>2 DEF StateOf, RunningOf
  <1>5. Lifecycle!Start(j)
    BY <1>1, <1>3, <1>4
    DEF Lifecycle!Start, StateOf, AttemptsOf, RetryOf, MadeOf, RunningOf
  <1> QED
    BY <1>5, Allowed DEF Lifecycle!Step

LEMMA ReceiveStep ==
  ASSUME NEW j \in Jobs, OthersKept(j), Calm, Calm', Running(j)' = Running(j),
         job[j].state = "none", job'[j].state = "RECEIVED",
         job'[j].attempts = job[j].attempts, job'[j].retry = job[j].retry,
         DocsOf(j)' = DocsOf(j)
  PROVE  Lifecycle!Next
  <1>1. /\ AttemptsOf' = AttemptsOf /\ RetryOf' = RetryOf /\ MadeOf' = MadeOf
        /\ RunningOf' = RunningOf
    BY MappedSame
  <1>2. StateOf' = [StateOf EXCEPT ![j] = "RECEIVED"]
    BY Mapped
  <1>3. StateOf[j] = "none"
    BY DEF StateOf
  <1>4. Lifecycle!Receive(j)
    BY <1>1, <1>2, <1>3
    DEF Lifecycle!Receive, Lifecycle!SetState, StateOf, AttemptsOf, RetryOf,
        MadeOf, RunningOf
  <1> QED
    BY <1>4, Allowed DEF Lifecycle!Step

\* One that shows in no job is a stutter.
LEMMA HiddenStep ==
  ASSUME Calm, Calm',
         \A i \in Jobs : /\ job'[i].state = job[i].state
                         /\ job'[i].attempts = job[i].attempts
                         /\ job'[i].retry = job[i].retry
                         /\ DocsOf(i)' = DocsOf(i)
                         /\ Running(i)' = Running(i)
  PROVE  UNCHANGED Lifecycle!vars
  <1>1. StateOf' = StateOf /\ AttemptsOf' = AttemptsOf /\ RetryOf' = RetryOf
    BY DEF StateOf, AttemptsOf, RetryOf
  <1>2. MadeOf' = MadeOf
    BY DEF MadeOf
  <1>3. RunningOf' = RunningOf
    BY DEF RunningOf
  <1>4. Calm' = Calm
    BY DEF Calm, Undisturbed
  <1> QED
    BY <1>1, <1>2, <1>3, <1>4
    DEF Lifecycle!vars, Lifecycle!jobVars, StateOf, AttemptsOf, RetryOf, MadeOf,
        RunningOf, Calm

\* What interferes ends the promises.
LEMMA DisturbedStep ==
  ASSUME ~Calm'
  PROVE  Lifecycle!Next
  BY DEF Lifecycle!Next, Lifecycle!Interfere, Calm, Undisturbed

-----------------------------------------------------------------------------
(* Every calm step keeps the invariant and is a step of JobLifecycle.      *)

Simulated == [Lifecycle!Next]_Lifecycle!vars

\* A run that goes on with its job.
LEMMA CalmGo ==
  ASSUME OneWorker, CalmInv, Calm, NEW w \in Workers, NEW j \in Jobs,
         wk[w].job = j, wk'[w].job = j, wk[w].pc # "idle", wk'[w].pc # "idle",
         sending' = sending, ready' = ready, OthersKept(j),
         job'[j].state # "none", CalmRun(w)'
  PROVE  CalmKept'
  <1>1. CalmKept
    BY DEF CalmInv
  <1>2. Running(j) /\ Running(j)'
    BY DEF Running
  <1>3. Waiting(j)'
    BY <1>1, <1>2 DEF CalmKept, Waiting, Awaited
  <1>4. \A i \in Jobs \ {j} : Waiting(i)' /\ Unborn(i)'
    BY <1>1 DEF CalmKept, Waiting, Unborn, OthersKept, Awaited, Fresh
  <1>5. Unborn(j)'
    BY DEF Unborn
  <1>6. \A v \in Workers : CalmRun(v)'
    BY DEF OneWorker
  <1> QED
    BY <1>3, <1>4, <1>5, <1>6 DEF CalmKept

\* One that changes nothing of its job that the specification shows.
LEMMA CalmOn ==
  ASSUME OneWorker, CalmInv, Calm, Calm', NEW w \in Workers, NEW j \in Jobs,
         wk[w].job = j, wk'[w].job = j, wk[w].pc # "idle", wk'[w].pc # "idle",
         sending' = sending, ready' = ready,
         \A i \in Jobs : /\ job'[i].state = job[i].state
                         /\ job'[i].attempts = job[i].attempts
                         /\ job'[i].retry = job[i].retry,
         \A i \in Jobs : DocsOf(i)' = DocsOf(i),
         job[j].state # "none", CalmRun(w)'
  PROVE  CalmKept' /\ Simulated
  <1>1. \A i : Running(i)' = Running(i)
    BY DEF OneWorker, Running
  <1>2. OthersKept(j)
    BY <1>1 DEF OthersKept
  <1>3. CalmKept'
    BY <1>2, CalmGo
  <1>4. UNCHANGED Lifecycle!vars
    BY <1>1, HiddenStep
  <1> QED
    BY <1>3, <1>4 DEF Simulated

\* The documents of no job change with the files they link.
LEMMA DocsKept ==
  ASSUME \A d \in Docs : doc'[d].life = doc[d].life /\ doc'[d].by = doc[d].by
  PROVE  \A i : DocsOf(i)' = DocsOf(i)
  BY DEF DocsOf

\* A run that sets the state of its job.
LEMMA CalmSet ==
  ASSUME OneWorker, RowsOK, NEW w \in Workers, NEW j \in Jobs,
         wk[w].job = j, wk'[w].job = j, wk[w].pc # "idle", wk'[w].pc # "idle",
         doc' = doc, NEW state, SetState(j, state)
  PROVE  /\ OthersKept(j) /\ Running(j) /\ Running(j)'
         /\ job'[j].state = state /\ job'[j].attempts = job[j].attempts
         /\ job'[j].retry = job[j].retry /\ DocsOf(j)' = DocsOf(j)
  <1>1. \A i : (Running(i) <=> i = j) /\ (Running(i)' <=> i = j)
    BY DEF OneWorker, Running
  <1>2. \A i : Running(i)' = Running(i)
    BY <1>1 DEF Running
  <1>3. \A i : DocsOf(i)' = DocsOf(i)
    BY DocsKept
  <1>4. /\ \A i \in Jobs \ {j} : job'[i] = job[i]
        /\ job'[j].state = state /\ job'[j].attempts = job[j].attempts
        /\ job'[j].retry = job[j].retry
    BY SetStateRow
  <1>5. OthersKept(j)
    BY <1>2, <1>3, <1>4 DEF OthersKept
  <1> QED
    BY <1>1, <1>3, <1>4, <1>5

\* A run that ends leaves its job with no message, or with one for a fresh run.
LEMMA CalmEnd ==
  ASSUME OneWorker, CalmInv, Calm, Calm', NEW w \in Workers, NEW j \in Jobs,
         wk[w].job = j, wk[w].pc # "idle", wk'[w].pc = "idle",
         sending' = sending, doc' = doc, job[j].state # "none",
         \A i \in Jobs : /\ job'[i].state = job[i].state
                         /\ job'[i].attempts = job[i].attempts
                         /\ job'[i].retry = job[i].retry,
         \/ ready' = ready
         \/ /\ ready' = [ready EXCEPT ![j] = @ + 1]
            /\ Fresh(j) /\ DocsOf(j) = {},
         \/ job[j].state \in Lifecycle!Good
         \/ Fresh(j) /\ job[j].retry
         \/ job[j].state = "FAILED" /\ job[j].attempts >= MaxAttempts
  PROVE  CalmKept' /\ Simulated
  <1>1. CalmKept /\ BrokerOK
    BY DEF CalmInv, SettledInv, FileInv, LinkInv, TypeInv
  <1>2. \A i : (Running(i) <=> i = j) /\ ~Running(i)'
    BY DEF OneWorker, Running
  <1>3. \A i : DocsOf(i)' = DocsOf(i)
    BY DocsKept
  <1>4. \A i \in Jobs \ {j} : Running(i)' = Running(i)
    BY <1>2 DEF Running
  <1>5. OthersKept(j)
    BY <1>3, <1>4 DEF OthersKept
  <1>6. sending[j] = 0 /\ ready[j] = 0
    BY <1>1, <1>2 DEF CalmKept, Waiting, Awaited, BrokerOK
  <1>7. Waiting(j)'
    <2>1. CASE ready' = ready
      BY <1>6, <2>1 DEF Waiting, Awaited
    <2>2. CASE /\ ready' = [ready EXCEPT ![j] = @ + 1]
               /\ Fresh(j) /\ DocsOf(j) = {}
      <3>1. ready'[j] = 1
        BY <1>1, <1>6, <2>2 DEF BrokerOK
      <3>2. Fresh(j)' /\ DocsOf(j)' = {}
        BY <1>3, <2>2 DEF Fresh
      <3> QED
        BY <1>2, <3>1, <3>2 DEF Waiting
    <2> QED
      BY <2>1, <2>2
  <1>8. \A i \in Jobs \ {j} : ready'[i] = ready[i]
    BY <1>1 DEF BrokerOK
  <1>9. \A i \in Jobs \ {j} : Waiting(i)' /\ Unborn(i)'
    BY <1>1, <1>2, <1>3, <1>8 DEF CalmKept, Waiting, Unborn, Awaited, Fresh
  <1>10. Unborn(j)'
    BY DEF Unborn
  <1>11. \A v \in Workers : CalmRun(v)'
    BY DEF OneWorker, CalmRun, Writing, Written
  <1>12. Lifecycle!Next
    BY <1>2, <1>3, <1>5, EndStep
  <1> QED
    BY <1>7, <1>9, <1>10, <1>11, <1>12 DEF CalmKept, Simulated

LEMMA CalmPipeline ==
  ASSUME OneWorker, CalmInv, TypeInv', Calm, Calm', NEW w \in Workers,
         NEW j \in Jobs, wk[w].job = j, wk[w].pc # "idle", PipelineStep(w)
  PROVE  CalmKept' /\ Simulated
  <1>0. /\ WorkersOK /\ RowsOK /\ ContentOK /\ LeftAlone
        /\ CalmRun(w) /\ RunSettled(w) /\ FileRun(w) /\ KeptRun(w)
        /\ job[j].state # "none"
    BY SMTT(60) DEF CalmInv, CalmKept, SettledInv, Settled, FileInv, LinkInv, TypeInv, Calm,
           Undisturbed, LeftAlone, Accepted, At
  <1>1. UNCHANGED broker /\ sending' = sending /\ ready' = ready
    BY ZenonT(60) DEF PipelineStep, Load, Begin, ReadTempFile, PutObject, InsertFileRow,
        SetStored, Extract, Classify, CreateDocument, LookupTag, InsertTag,
        WriteVersion, AttachDocument, SetIndexed, SetFinished, Return, broker
  <1>2. ASSUME job' = job, doc' = doc, wk'[w].pc # "idle", wk'[w].job = j, CalmRun(w)'
        PROVE  CalmKept' /\ Simulated
    <2>1. \A i : DocsOf(i)' = DocsOf(i)
      BY <1>2, DocsKept
    <2> QED
      BY <1>0, <1>1, <1>2, <2>1, CalmOn
  <1>3. ASSUME job' = job, doc' = doc, wk'[w].pc = "fail", wk'[w].job = j,
               DocsOf(j) = {},
               job[j].state \in Lifecycle!InStage, ~job[j].retry
        PROVE  CalmKept' /\ Simulated
    <2>1. DocsOf(j)' = DocsOf(j)
      BY <1>3, DocsKept
    <2>2. CalmRun(w)'
      BY <1>3, <2>1 DEF CalmRun, InStageOf, Writing, Written
    <2> QED
      BY <1>2, <1>3, <2>2
  <1>4. CASE Load(w)
    <2>1. job' = job /\ doc' = doc /\ DocsOf(j)' = DocsOf(j)
      BY <1>4, DocsKept DEF Load, content
    <2>2. wk[w].pc = "load" /\ wk'[w].pc = "begin" /\ wk'[w].job = j
      BY <1>0, <1>4, LoadRun DEF SameDelivery
    <2>3. CalmRun(w)'
      BY <1>0, <2>1, <2>2 DEF CalmRun, Fresh, Writing, Written
    <2> QED
      BY <1>2, <2>1, <2>2, <2>3
  <1>5. CASE Begin(w)
    <2>1. wk[w].pc = "begin" /\ wk'[w].pc = "read" /\ wk'[w].job = j
      BY <1>0, <1>5, BeginRun DEF SameDelivery
    <2>2. Fresh(j) /\ wk[w].seen = job[j].attempts /\ DocsOf(j) = {}
      BY <1>0, <2>1 DEF CalmRun, RunSettled, JobOf, Writing, Written
    <2>3. \A i : DocsOf(i)' = DocsOf(i)
      BY <1>5, DocsKept DEF Begin, content
    <2>4. /\ \A i \in Jobs \ {j} : job'[i] = job[i]
          /\ job'[j].state = job[j].state
          /\ job'[j].attempts = job[j].attempts + 1
          /\ job'[j].retry = FALSE
      BY <1>0, <1>5, <2>2 DEF Begin, RowsOK, JobRow
    <2>5. \A i : (Running(i) <=> i = j) /\ (Running(i)' <=> i = j)
      BY <2>1 DEF OneWorker, Running
    <2>6. \A i : Running(i)' = Running(i)
      BY <2>5 DEF Running
    <2>7. OthersKept(j)
      BY <2>3, <2>4, <2>6 DEF OthersKept
    <2>8. CalmRun(w)'
      BY <2>1, <2>2, <2>3, <2>4 DEF CalmRun, InStageOf, Fresh, Writing, Written
    <2>9. CalmKept'
      BY <1>0, <1>1, <2>1, <2>4, <2>7, <2>8, CalmGo
    <2>10. Lifecycle!Next
      BY <2>2, <2>3, <2>4, <2>5, <2>7, AttemptStep
    <2> QED
      BY <2>9, <2>10 DEF Simulated
  <1>6. CASE ReadTempFile(w) \/ PutObject(w) \/ InsertFileRow(w)
    <2>1. job' = job /\ doc' = doc
      BY <1>6 DEF ReadTempFile, PutObject, InsertFileRow, content
    <2>2. wk[w].pc \in {"read", "put", "insert"}
      BY <1>6 DEF ReadTempFile, PutObject, InsertFileRow, At
    <2>3. InStageOf(j, "RECEIVED") /\ DocsOf(j) = {}
      BY <1>0, <2>2 DEF CalmRun, Writing, Written
    <2>4. wk'[w].job = j /\ wk'[w].pc \in {"put", "insert", "stored", "fail"}
      <3>1. CASE ReadTempFile(w)
        BY <1>0, <3>1, ReadRun DEF SameDelivery
      <3>2. CASE PutObject(w)
        BY <1>0, <3>2, GotoRun, RaiseRun DEF PutObject, Otherwise, SameDelivery
      <3>3. CASE InsertFileRow(w)
        <4>1. wk[w].file \notin fileRow
          BY <1>0, <3>3 DEF InsertFileRow, At, FileRun, Storing
        <4> QED
          BY <1>0, <3>3, <4>1, GotoRun DEF InsertFileRow, Otherwise, SameDelivery
      <3> QED
        BY <1>6, <3>1, <3>2, <3>3
    <2>5. CASE wk'[w].pc = "fail"
      <3>1. "RECEIVED" \in Lifecycle!InStage
        BY DEF Lifecycle!InStage, Lifecycle!Stage
      <3> QED
        BY <1>3, <2>1, <2>3, <2>4, <2>5, <3>1 DEF InStageOf
    <2>6. CASE wk'[w].pc # "fail"
      <3>1. DocsOf(j)' = DocsOf(j)
        BY <2>1, DocsKept
      <3>2. CalmRun(w)'
        BY <2>1, <2>3, <2>4, <2>6, <3>1 DEF CalmRun, InStageOf, Writing, Written
      <3> QED
        BY <1>2, <2>1, <2>4, <3>2
    <2> QED
      BY <2>5, <2>6
  <1>7. ASSUME NEW from \in {"RECEIVED", "STORED", "EXTRACTED"}, NEW to, NEW pc,
               \/ from = "RECEIVED" /\ to = "STORED" /\ pc = "extract"
               \/ from = "STORED" /\ to = "EXTRACTED" /\ pc = "classify"
               \/ from = "EXTRACTED" /\ to = "CLASSIFIED" /\ pc = "create",
               InStageOf(j, from), DocsOf(j) = {}, SetState(j, to), doc' = doc,
               wk'[w].pc = pc, wk'[w].job = j
        PROVE  CalmKept' /\ Simulated
    <2>1. /\ OthersKept(j) /\ Running(j) /\ Running(j)'
          /\ job'[j].state = to /\ job'[j].attempts = job[j].attempts
          /\ job'[j].retry = job[j].retry /\ DocsOf(j)' = DocsOf(j)
      BY <1>0, <1>7, CalmSet
    <2>2. CalmRun(w)'
      BY <1>7, <2>1 DEF CalmRun, InStageOf, Writing, Written
    <2>3. CalmKept'
      BY <1>0, <1>1, <1>7, <2>1, <2>2, CalmGo
    <2>4. Lifecycle!Next
      BY <1>7, <2>1, StateStep DEF InStageOf
    <2> QED
      BY <2>3, <2>4 DEF Simulated
  <1>8. CASE SetStored(w)
    <2>1. InStageOf(j, "RECEIVED") /\ DocsOf(j) = {}
      BY <1>0, <1>8 DEF SetStored, At, CalmRun, Writing, Written
    <2>2. wk'[w].pc = "extract" /\ wk'[w].job = j
      BY <1>0, <1>8, GotoRun DEF SetStored, Otherwise, SameDelivery
    <2> QED
      BY <1>7, <1>8, <2>1, <2>2 DEF SetStored, content
  <1>9. CASE Extract(w)
    <2>1. InStageOf(j, "STORED") /\ DocsOf(j) = {} /\ doc' = doc
      BY <1>0, <1>9 DEF Extract, At, CalmRun, Writing, Written, content
    <2>2. CASE SetState(j, "EXTRACTED") /\ Goto(w, "classify")
      <3>1. wk'[w].pc = "classify" /\ wk'[w].job = j
        BY <1>0, <2>2, GotoRun DEF Otherwise, SameDelivery
      <3> QED
        BY <1>7, <2>1, <2>2, <3>1
    <2>3. CASE Raise(w, "CAPTION_PARSE_FAIL") /\ UNCHANGED job
      <3>1. wk'[w].pc = "fail" /\ wk'[w].job = j
        BY <1>0, <2>3, RaiseRun DEF Otherwise, SameDelivery
      <3>2. "STORED" \in Lifecycle!InStage
        BY DEF Lifecycle!InStage, Lifecycle!Stage
      <3> QED
        BY <1>3, <2>1, <2>3, <3>1, <3>2 DEF InStageOf
    <2> QED
      BY <1>9, <2>2, <2>3 DEF Extract
  <1>10. CASE Classify(w)
    <2>1. wk[w].pc = "classify" /\ wk'[w].job = j /\ doc' = doc
      BY <1>0, <1>10, ClassifyRun DEF Classify, SameDelivery, content
    <2>2. InStageOf(j, "EXTRACTED") /\ DocsOf(j) = {}
      BY <1>0, <2>1 DEF CalmRun, Writing, Written
    <2>3. CASE wk'[w].pc = "create" /\ SetState(j, "CLASSIFIED")
      BY <1>7, <2>1, <2>2, <2>3
    <2>4. CASE wk'[w].pc = "fail" /\ UNCHANGED job
      <3>1. "EXTRACTED" \in Lifecycle!InStage
        BY DEF Lifecycle!InStage, Lifecycle!Stage
      <3> QED
        BY <1>3, <2>1, <2>2, <2>4, <3>1 DEF InStageOf
    <2> QED
      BY <1>0, <1>10, <2>3, <2>4, ClassifyRun
  <1>11. ASSUME NEW d \in Docs, CreateDocument(w, d) PROVE CalmKept' /\ Simulated
    <2>1. /\ wk[w].pc = "create" /\ wk'[w].pc = "tags" /\ wk'[w].job = j
          /\ wk'[w].doc = d
      BY <1>0, <1>11, CreateRun DEF SameDelivery
    <2>2. InStageOf(j, "CLASSIFIED") /\ DocsOf(j) = {}
      BY <1>0, <2>1 DEF CalmRun, Writing, Written
    <2>3. /\ job' = job /\ doc[d].life = "free"
          /\ \A e \in Docs \ {d} : doc'[e] = doc[e]
          /\ doc'[d].life = "live" /\ doc'[d].by = j
      BY <1>0, <1>11 DEF CreateDocument, ContentOK, FreeDoc
    <2>4. DocsOf(j)' = {d}
      BY <2>2, <2>3 DEF DocsOf
    <2>5. \A i \in Jobs \ {j} : DocsOf(i)' = DocsOf(i)
      BY <2>3 DEF DocsOf
    <2>6. \A i : (Running(i) <=> i = j) /\ (Running(i)' <=> i = j)
      BY <2>1 DEF OneWorker, Running
    <2>7. \A i : Running(i)' = Running(i)
      BY <2>6 DEF Running
    <2>8. OthersKept(j)
      BY <2>3, <2>5, <2>7 DEF OthersKept
    <2>9. CalmRun(w)'
      BY <2>1, <2>2, <2>3, <2>4 DEF CalmRun, InStageOf, Writing, Written
    <2>10. CalmKept'
      BY <1>0, <1>1, <2>1, <2>3, <2>8, <2>9, CalmGo
    <2>11. Cardinality(DocsOf(j)) = 0 /\ Cardinality(DocsOf(j))' = 1
      BY <2>2, <2>4, FS_EmptySet, FS_Singleton
    <2>12. Lifecycle!Next
      BY <2>2, <2>3, <2>6, <2>8, <2>11, MakeStep DEF InStageOf
    <2> QED
      BY <2>10, <2>12 DEF Simulated
  <1>12. ASSUME wk[w].pc \in {"tags", "newtag", "attach"},
                wk'[w].pc \in {"tags", "newtag", "attach", "index"},
                wk'[w].job = j, wk'[w].doc = wk[w].doc,
                \A i \in Jobs : /\ job'[i].state = job[i].state
                                /\ job'[i].attempts = job[i].attempts
                                /\ job'[i].retry = job[i].retry,
                \A d \in Docs : doc'[d].life = doc[d].life /\ doc'[d].by = doc[d].by
         PROVE  CalmKept' /\ Simulated
    <2>1. InStageOf(j, "CLASSIFIED") /\ DocsOf(j) = {wk[w].doc}
      BY <1>0, <1>12 DEF CalmRun, Writing, Written
    <2>2. \A i : DocsOf(i)' = DocsOf(i)
      BY <1>12, DocsKept
    <2>3. CalmRun(w)'
      BY <1>12, <2>1, <2>2 DEF CalmRun, InStageOf, Writing, Written
    <2> QED
      BY <1>0, <1>1, <1>12, <2>2, <2>3, CalmOn
  <1>13. ASSUME NEW t \in Tags, LookupTag(w, t) PROVE CalmKept' /\ Simulated
    <2>1. job' = job /\ doc' = doc
      BY <1>13 DEF LookupTag, content
    <2> QED
      BY <1>0, <1>12, <1>13, <2>1, LookupRun DEF SameDelivery
  <1>14. CASE InsertTag(w)
    <2>1. /\ wk[w].pc = "newtag" /\ wk'[w].pc = "tags" /\ wk'[w].job = j
          /\ wk'[w].doc = wk[w].doc
      BY <1>0, <1>14, InsertRun DEF SameDelivery
    <2>2. \A d \in Docs : doc'[d].life = doc[d].life /\ doc'[d].by = doc[d].by
      BY <1>0, <1>14 DEF InsertTag, ContentOK, DocRow
    <2> QED
      BY <1>12, <1>14, <2>1, <2>2 DEF InsertTag
  <1>15. CASE WriteVersion(w)
    <2>1. wk[w].pc = "tags" /\ DocIsLive(w) /\ LinkIsSound(w) /\ job' = job
      BY <1>0, <1>15 DEF WriteVersion, At, KeptRun, LinkIsSound, Writing
    <2>2. /\ wk'[w].pc = "attach" /\ wk'[w].job = j
          /\ wk'[w].doc = wk[w].doc
      BY <1>0, <1>15, <2>1, VersionRun DEF WriteVersion, SameDelivery
    <2>3. \A d \in Docs : doc'[d].life = doc[d].life /\ doc'[d].by = doc[d].by
      BY <1>0, <1>15, <2>1 DEF WriteVersion, ContentOK, DocRow
    <2> QED
      BY <1>12, <2>1, <2>2, <2>3
  <1>16. CASE AttachDocument(w)
    <2>1. /\ wk[w].pc = "attach" /\ Goto(w, "index") /\ doc' = doc
          /\ job' = [job EXCEPT ![wk[w].job].doc = wk[w].doc]
      BY <1>0, <1>16 DEF AttachDocument, At, KeptRun, Written, content
    <2>2. wk'[w].pc = "index" /\ wk'[w].job = j /\ wk'[w].doc = wk[w].doc
      BY <1>0, <2>1, GotoRun DEF Otherwise, SameDelivery, SameLoad
    <2>3. \A i \in Jobs : /\ job'[i].state = job[i].state
                          /\ job'[i].attempts = job[i].attempts
                          /\ job'[i].retry = job[i].retry
      BY <1>0, <2>1 DEF RowsOK, JobRow
    <2> QED
      BY <1>12, <2>1, <2>2, <2>3
  <1>17. CASE SetIndexed(w)
    <2>1. wk[w].pc = "index" /\ SetState(j, "INDEXED") /\ Goto(w, "finish")
      BY <1>0, <1>17 DEF SetIndexed, At, KeptRun, Written
    <2>2. InStageOf(j, "CLASSIFIED") /\ DocsOf(j) = {wk[w].doc}
      BY <1>0, <2>1 DEF CalmRun, Writing, Written
    <2>3. wk'[w].pc = "finish" /\ wk'[w].job = j /\ wk'[w].doc = wk[w].doc
      BY <1>0, <2>1, GotoRun DEF Otherwise, SameDelivery, SameLoad
    <2>4. /\ OthersKept(j) /\ Running(j) /\ Running(j)'
          /\ job'[j].state = "INDEXED" /\ job'[j].attempts = job[j].attempts
          /\ job'[j].retry = job[j].retry /\ DocsOf(j)' = DocsOf(j)
      BY <1>0, <1>17, <2>1, <2>3, CalmSet DEF SetIndexed, content
    <2>5. CalmRun(w)'
      BY <2>2, <2>3, <2>4 DEF CalmRun, Writing, Written
    <2>6. CalmKept'
      BY <1>0, <1>1, <2>3, <2>4, <2>5, CalmGo
    <2>7. Cardinality(DocsOf(j)) = 1
      BY <2>2, FS_Singleton
    <2>8. Lifecycle!Next
      BY <2>2, <2>4, <2>7, StateStep DEF InStageOf
    <2> QED
      BY <2>6, <2>8 DEF Simulated
  <1>18. CASE SetFinished(w)
    <2>1. PICK s \in Lifecycle!Good : SetState(j, s)
      BY <1>0, <1>18 DEF SetFinished, At, KeptRun, Written, Lifecycle!Good
    <2>2. wk[w].pc = "finish" /\ Goto(w, "return")
      BY <1>0, <1>18 DEF SetFinished, At, KeptRun, Written
    <2>3. job[j].state = "INDEXED"
      BY <1>0, <2>2 DEF CalmRun
    <2>4. wk'[w].pc = "return" /\ wk'[w].job = j
      BY <1>0, <2>2, GotoRun DEF Otherwise, SameDelivery
    <2>5. /\ OthersKept(j) /\ Running(j) /\ Running(j)'
          /\ job'[j].state = s /\ job'[j].attempts = job[j].attempts
          /\ job'[j].retry = job[j].retry /\ DocsOf(j)' = DocsOf(j)
      BY <1>0, <1>18, <2>1, <2>4, CalmSet DEF SetFinished, content
    <2>6. CalmRun(w)'
      BY <2>1, <2>4, <2>5 DEF CalmRun, Writing, Written
    <2>7. CalmKept'
      BY <1>0, <1>1, <2>1, <2>4, <2>5, <2>6, CalmGo DEF Lifecycle!Good
    <2>8. Lifecycle!Next
      BY <2>1, <2>3, <2>5, StateStep
    <2> QED
      BY <2>7, <2>8 DEF Simulated
  <1>19. CASE Return(w)
    <2>1. LeaveTask(w) /\ job' = job /\ doc' = doc /\ wk[w].pc = "return"
      BY <1>0, <1>19 DEF Return, At, KeptRun, Written, content
    <2>2. job[j].state \in Lifecycle!Good
      BY <1>0, <2>1 DEF CalmRun
    <2>3. wk'[w].pc = "idle"
      BY <1>0, <2>1, LeaveRun
    <2> QED
      BY <1>0, <1>1, <2>1, <2>2, <2>3, CalmEnd
  <1> QED
    BY <1>4, <1>5, <1>6, <1>8, <1>9, <1>10, <1>11, <1>13, <1>14, <1>15, <1>16,
       <1>17, <1>18, <1>19
    DEF PipelineStep

LEMMA CalmFailure ==
  ASSUME OneWorker, CalmInv, TypeInv', Calm, Calm', NEW w \in Workers,
         NEW j \in Jobs, wk[w].job = j, wk[w].pc # "idle",
         FailureStep(w) \/ PublishRetryFails(w)
  PROVE  CalmKept' /\ Simulated
  <1>0. /\ WorkersOK /\ RowsOK /\ job[j] \in JobRow
        /\ CalmRun(w) /\ RunSettled(w)
        /\ job[j].state # "none"
    BY DEF CalmInv, CalmKept, SettledInv, Settled, FileInv, LinkInv, TypeInv, Calm,
           Undisturbed, LeftAlone, Accepted, At, RowsOK
  <1>1. sending' = sending /\ doc' = doc
    BY DEF FailureStep, RecordError, MarkFailed, Decide, ScheduleRetry,
           PublishRetry, DeadLetter, PublishRetryFails, content, broker
  <1>2. \A i : DocsOf(i)' = DocsOf(i)
    BY <1>1, DocsKept
  <1>3. wk[w].pc \in {"fail", "failed", "decide", "retry", "publish", "dead"}
    BY DEF FailureStep, RecordError, MarkFailed, Decide, ScheduleRetry,
           PublishRetry, DeadLetter, PublishRetryFails, At
  <1>4. DocsOf(j) = {}
    BY <1>0, <1>3 DEF CalmRun, Writing, Written
  <1>5. CASE RecordError(w)
    <2>1. wk[w].pc = "fail" /\ wk'[w].pc = "failed" /\ wk'[w].job = j
      BY <1>0, <1>5, RecordRun
    <2>2. /\ ready' = ready
          /\ \A i \in Jobs : /\ job'[i].state = job[i].state
                             /\ job'[i].attempts = job[i].attempts
                             /\ job'[i].retry = job[i].retry
      BY <1>0, <1>5 DEF RecordError, RowsOK, JobRow, broker
    <2>3. CalmRun(w)'
      BY <1>0, <1>2, <1>4, <2>1, <2>2 DEF CalmRun, InStageOf, Writing, Written
    <2> QED
      BY <1>0, <1>1, <1>2, <2>1, <2>2, <2>3, CalmOn
  <1>6. CASE MarkFailed(w)
    <2>1. wk[w].pc = "failed" /\ wk'[w].pc = "decide" /\ wk'[w].job = j
      BY <1>0, <1>6, GotoRun DEF MarkFailed, At, Otherwise, SameDelivery
    <2>2. /\ OthersKept(j) /\ Running(j) /\ Running(j)'
          /\ job'[j].state = "FAILED" /\ job'[j].attempts = job[j].attempts
          /\ job'[j].retry = job[j].retry /\ DocsOf(j)' = DocsOf(j)
      BY <1>0, <1>1, <1>6, <2>1, CalmSet DEF MarkFailed
    <2>3. job[j].state \in Lifecycle!InStage /\ ~job[j].retry
      BY <1>0, <2>1 DEF CalmRun, InStageOf
    <2>4. CalmRun(w)'
      BY <1>4, <2>1, <2>2, <2>3 DEF CalmRun, ToRetry, Writing, Written
    <2>5. CalmKept'
      BY <1>0, <1>1, <1>6, <2>1, <2>2, <2>4, CalmGo DEF MarkFailed, broker
    <2>6. Cardinality(DocsOf(j)) = 0
      BY <1>4, FS_EmptySet
    <2>7. Lifecycle!Next
      BY <2>2, <2>3, <2>6, StateStep
    <2> QED
      BY <2>5, <2>7 DEF Simulated
  <1>7. CASE Decide(w)
    <2>1. /\ wk[w].pc = "decide" /\ wk'[w].job = j /\ job' = job /\ ready' = ready
          /\ wk'[w].pc = (IF should_retry(job[j].attempts) THEN "retry" ELSE "dead")
      BY <1>0, <1>7, GotoRun
      DEF Decide, At, Otherwise, SameDelivery, JobOf, broker
    <2>2. ToRetry(j)
      BY <1>0, <2>1 DEF CalmRun
    <2>3. CASE should_retry(job[j].attempts)
      <3>1. CalmRun(w)'
        BY <1>2, <1>4, <2>1, <2>2, <2>3
        DEF CalmRun, ToRetry, should_retry, Writing, Written
      <3> QED
        BY <1>0, <1>1, <1>2, <2>1, <2>3, <3>1, CalmOn
    <2>4. CASE ~should_retry(job[j].attempts)
      <3>1. CalmRun(w)'
        BY <1>2, <1>4, <2>1, <2>2, <2>4
        DEF CalmRun, ToRetry, InStageOf, should_retry, Writing, Written
      <3> QED
        BY <1>0, <1>1, <1>2, <2>1, <2>4, <3>1, CalmOn
    <2> QED
      BY <2>3, <2>4
  <1>8. CASE ScheduleRetry(w)
    <2>1. wk[w].pc = "retry" /\ wk'[w].pc = "publish" /\ wk'[w].job = j
      BY <1>0, <1>8, GotoRun DEF ScheduleRetry, At, Otherwise, SameDelivery
    <2>2. ToRetry(j) /\ job[j].attempts < MaxAttempts
      BY <1>0, <2>1 DEF CalmRun
    <2>3. /\ \A i \in Jobs \ {j} : job'[i] = job[i]
          /\ job'[j].state = "RECEIVED"
          /\ job'[j].retry = TRUE
          /\ job'[j].attempts = job[j].attempts
          /\ ready' = ready
      BY <1>0, <1>8 DEF ScheduleRetry, RowsOK, JobRow, broker
    <2>4. \A i : (Running(i) <=> i = j) /\ (Running(i)' <=> i = j)
      BY <2>1 DEF OneWorker, Running
    <2>5. \A i : Running(i)' = Running(i)
      BY <2>4 DEF Running
    <2>6. OthersKept(j)
      BY <1>2, <2>3, <2>5 DEF OthersKept
    <2>7. CalmRun(w)'
      BY <1>2, <1>4, <2>1, <2>2, <2>3 DEF CalmRun, Fresh, Writing, Written
    <2>8. CalmKept'
      BY <1>0, <1>1, <2>1, <2>3, <2>6, <2>7, CalmGo
    <2>9. CASE job[j].state = "FAILED"
      <3>1. Lifecycle!Next
        BY <1>2, <2>2, <2>3, <2>4, <2>6, <2>9, AgainStep
      <3> QED
        BY <2>8, <3>1 DEF Simulated
    <2>10. CASE job[j].state = "RECEIVED" /\ job[j].retry
      <3>1. job[j].retry = TRUE
        BY <1>0, <2>10 DEF JobRow
      <3>2. UNCHANGED Lifecycle!vars
        BY <1>2, <2>3, <2>5, <2>10, <3>1, HiddenStep
      <3> QED
        BY <2>8, <3>2 DEF Simulated
    <2> QED
      BY <2>2, <2>9, <2>10 DEF ToRetry
  <1>9. CASE PublishRetry(w) \/ (PublishRetryFails(w) /\ wk'[w].pc = "idle")
    <2>1. /\ wk[w].pc = "publish" /\ job' = job
          /\ ready' = ready \/ ready' = [ready EXCEPT ![j] = @ + 1]
      BY <1>9 DEF PublishRetry, PublishRetryFails, At, broker
    <2>2. wk'[w].pc = "idle"
      BY <1>0, <1>9, LeaveRun DEF PublishRetry
    <2>3. Fresh(j) /\ job[j].retry
      BY <1>0, <2>1 DEF CalmRun
    <2> QED
      BY <1>0, <1>1, <1>4, <2>1, <2>2, <2>3, CalmEnd
  <1>10. CASE PublishRetryFails(w) /\ wk'[w].pc # "idle"
    <2>1. /\ wk[w].pc = "publish" /\ wk'[w].pc = "decide" /\ wk'[w].job = j
          /\ job' = job /\ ready' = ready
      BY <1>0, <1>10, RefusedRun DEF PublishRetryFails, broker
    <2>2. CalmRun(w)'
      BY <1>0, <1>2, <1>4, <2>1 DEF CalmRun, ToRetry, Fresh, Writing, Written
    <2> QED
      BY <1>0, <1>1, <1>2, <2>1, <2>2, CalmOn
  <1>11. CASE DeadLetter(w)
    <2>1. /\ wk[w].pc = "dead" /\ wk'[w].pc = "idle" /\ ready' = ready
      BY <1>0, <1>11, LeaveRun DEF DeadLetter, At, broker
    <2>2. InStageOf(j, "FAILED") /\ job[j].attempts >= MaxAttempts
      BY <1>0, <2>1 DEF CalmRun, RunSettled, JobOf
    <2>3. job[j].retry = FALSE
      BY <1>0, <2>2 DEF InStageOf, JobRow
    <2>4. \A i \in Jobs : /\ job'[i].state = job[i].state
                          /\ job'[i].attempts = job[i].attempts
                          /\ job'[i].retry = job[i].retry
      BY <1>0, <1>11, <2>2, <2>3 DEF DeadLetter, InStageOf, RowsOK, JobRow
    <2> QED
      BY <1>0, <1>1, <2>1, <2>2, <2>4, CalmEnd DEF InStageOf
  <1> QED
    BY <1>5, <1>6, <1>7, <1>8, <1>9, <1>10, <1>11 DEF FailureStep

\* Deliveries and requests, while nobody interferes.
LEMMA CalmRequest ==
  ASSUME OneWorker, MaxAttempts # 0, CalmInv, TypeInv', Calm, Calm',
         \/ \E w \in Workers, j \in Jobs : Take(w, j)
         \/ \E j \in Jobs, c \in Contents : Accept(j, c)
         \/ \E j \in Jobs : Publish(j) \/ PublishLost(j) \/ LoseTempFile(j)
  PROVE  CalmKept' /\ Simulated
  <1>0. /\ WorkersOK /\ RowsOK /\ BrokerOK /\ CalmKept /\ Accepted
        /\ \A j \in Jobs : FirstMessage(j)
        /\ \A v \in Workers : wk[v].pc # "idle" => wk[v].job \in Jobs
    BY DEF CalmInv, SettledInv, Settled, FileInv, LinkInv, TypeInv, Calm,
           Undisturbed, LeftAlone, WorkersOK, Sound
  <1>1. ASSUME doc' = doc PROVE \A i : DocsOf(i)' = DocsOf(i)
    BY <1>1, DocsKept
  <1>2. ASSUME wk' = wk PROVE \A i : Running(i)' = Running(i)
    BY <1>2 DEF Running
  <1>3. ASSUME NEW w \in Workers, NEW j \in Jobs, Take(w, j)
        PROVE  CalmKept' /\ Simulated
    <2>1. /\ job' = job /\ sending' = sending /\ ready[j] > 0
          /\ ready' = [ready EXCEPT ![j] = @ - 1] /\ doc' = doc
      BY <1>3, Zenon DEF Take, content
    <2>2. wk[w].pc = "idle" /\ wk'[w].pc = "load" /\ wk'[w].job = j
      BY <1>0, <1>3, TakeRun
    <2>3. \A i : ~Running(i) /\ (Running(i)' <=> i = j)
      BY <2>2 DEF OneWorker, Running
    <2>4. \A i \in Jobs \ {j} : Running(i)' = Running(i)
      BY <2>3 DEF Running
    <2>5. OthersKept(j)
      BY <1>1, <2>1, <2>4 DEF OthersKept
    <2>6. Awaited(j) /\ Waiting(j)
      BY <1>0, <2>1 DEF Awaited, CalmKept
    <2>7. Fresh(j) /\ DocsOf(j) = {} /\ ready[j] <= 1 /\ sending[j] = 0
      BY <1>0, <2>1, <2>6 DEF Waiting, FirstMessage, BrokerOK
    <2>8. ready'[j] = 0 /\ \A i \in Jobs \ {j} : ready'[i] = ready[i]
      BY <1>0, <2>1, <2>7 DEF BrokerOK
    <2>9. \A i \in Jobs \ {j} : Waiting(i)'
      BY <1>0, <1>1, <2>1, <2>3, <2>8 DEF CalmKept, Waiting, Awaited, Fresh
    <2>10. Waiting(j)'
      BY <2>1, <2>7, <2>8 DEF Waiting, Awaited
    <2>11. \A i \in Jobs : Unborn(i)'
      BY <1>0, <1>1, <2>1 DEF CalmKept, Unborn
    <2>12. CalmRun(w)'
      BY <1>1, <2>1, <2>2, <2>7 DEF CalmRun, Fresh, Writing, Written
    <2>13. CalmKept'
      BY <2>9, <2>10, <2>11, <2>12 DEF CalmKept, OneWorker
    <2>14. Lifecycle!Next
      BY <1>1, <2>1, <2>3, <2>5, <2>7, StartStep DEF Fresh
    <2> QED
      BY <2>13, <2>14 DEF Simulated
  <1>4. ASSUME NEW j \in Jobs, wk' = wk, doc' = doc, ~Running(j),
               \A i \in Jobs \ {j} : /\ job'[i].state = job[i].state
                                    /\ job'[i].attempts = job[i].attempts
                                    /\ job'[i].retry = job[i].retry
                                    /\ sending'[i] = sending[i]
                                    /\ ready'[i] = ready[i],
               Waiting(j)', Unborn(j)'
        PROVE  CalmKept' /\ OthersKept(j)
    <2>1. \A i \in Jobs \ {j} : Waiting(i)' /\ Unborn(i)'
      BY <1>0, <1>1, <1>2, <1>4 DEF CalmKept, Waiting, Unborn, Awaited, Fresh
    <2>2. ASSUME NEW v \in Workers PROVE CalmRun(v)'
      <3>1. CASE wk[v].pc = "idle"
        BY <1>4, <3>1 DEF CalmRun, Writing, Written
      <3>2. CASE wk[v].pc # "idle"
        <4>1. PICK i \in Jobs \ {j} : i = wk[v].job
          BY <1>0, <1>4, <3>2 DEF Running
        <4>2. CalmRun(v)
          BY <1>0 DEF CalmKept
        <4> QED
          BY <1>1, <1>4, <4>1, <4>2 DEF CalmRun, Fresh, InStageOf, ToRetry
      <3> QED
        BY <3>1, <3>2
    <2>3. OthersKept(j)
      BY <1>1, <1>2, <1>4 DEF OthersKept
    <2> QED
      BY <1>4, <2>1, <2>2, <2>3 DEF CalmKept
  <1>5. ASSUME NEW j \in Jobs, NEW c \in Contents, Accept(j, c)
        PROVE  CalmKept' /\ Simulated
    <2>1. /\ job[j].state = "none" /\ wk' = wk /\ ready' = ready /\ doc' = doc
          /\ sending' = [sending EXCEPT ![j] = @ + 1]
          /\ job' = [job EXCEPT ![j] = [NoRow EXCEPT !.state = "RECEIVED",
                                                     !.temp = c]]
      BY <1>5, Zenon DEF Accept, content
    <2>2. ~Awaited(j) /\ ~Running(j)
      BY <1>0, <2>1 DEF Accepted, Running, At
    <2>3. job[j].attempts = 0 /\ job[j].retry = FALSE /\ DocsOf(j) = {}
      BY <1>0, <2>1 DEF CalmKept, Unborn, RowsOK, JobRow
    <2>4. /\ job'[j].state = "RECEIVED" /\ job'[j].attempts = 0
          /\ job'[j].retry = FALSE
      BY <1>0, <2>1 DEF RowsOK, NoRow
    <2>5. \A i \in Jobs \ {j} : /\ job'[i] = job[i]
                                 /\ sending'[i] = sending[i]
      BY <1>0, <2>1 DEF RowsOK, BrokerOK
    <2>6. ready'[j] = 0
      BY <1>0, <2>1, <2>2 DEF Awaited, BrokerOK
    <2>7. Waiting(j)'
      BY BoundsAssumption, <1>1, <1>2, <2>1, <2>2, <2>3, <2>4, <2>6
      DEF Waiting, Fresh
    <2>8. Unborn(j)'
      BY <2>4 DEF Unborn
    <2>9. CalmKept' /\ OthersKept(j)
      BY <1>4, <2>1, <2>2, <2>5, <2>7, <2>8
    <2>10. Lifecycle!Next
      BY <1>1, <1>2, <2>1, <2>3, <2>4, <2>9, ReceiveStep
    <2> QED
      BY <2>9, <2>10 DEF Simulated
  <1>6. ASSUME NEW j \in Jobs, Publish(j) \/ PublishLost(j)
        PROVE  CalmKept' /\ Simulated
    <2>1. /\ sending[j] = 1 /\ ready[j] = 0 /\ ~Running(j) /\ Waiting(j)
      BY <1>0, <1>6 DEF Publish, PublishLost, FirstMessage, CalmKept
    <2>2. /\ wk' = wk /\ job' = job /\ doc' = doc
          /\ sending'[j] = 0 /\ ready'[j] \in {0, 1}
          /\ \A i \in Jobs \ {j} : sending'[i] = sending[i] /\ ready'[i] = ready[i]
      BY <1>0, <1>6, <2>1 DEF Publish, PublishLost, BrokerOK, content
    <2>3. Waiting(j)'
      BY <1>1, <1>2, <2>1, <2>2 DEF Waiting, Awaited, Fresh
    <2>4. Unborn(j)'
      BY <1>0, <1>1, <2>2 DEF CalmKept, Unborn
    <2>5. CalmKept'
      BY <1>4, <2>1, <2>2, <2>3, <2>4
    <2>6. UNCHANGED Lifecycle!vars
      BY <1>1, <1>2, <2>2, HiddenStep
    <2> QED
      BY <2>5, <2>6 DEF Simulated
  <1>7. ASSUME NEW j \in Jobs, LoseTempFile(j) PROVE CalmKept' /\ Simulated
    <2>1. /\ wk' = wk /\ doc' = doc /\ sending' = sending /\ ready' = ready
          /\ \A i \in Jobs : /\ job'[i].state = job[i].state
                             /\ job'[i].attempts = job[i].attempts
                             /\ job'[i].retry = job[i].retry
      BY <1>0, <1>7 DEF LoseTempFile, content, broker, RowsOK, JobRow
    <2>2. \A i \in Jobs : Waiting(i)' /\ Unborn(i)'
      BY <1>0, <1>1, <1>2, <2>1 DEF CalmKept, Waiting, Unborn, Awaited, Fresh
    <2>3. ASSUME NEW v \in Workers PROVE CalmRun(v)'
      <3>1. CASE wk[v].pc = "idle"
        BY <2>1, <3>1 DEF CalmRun, Writing, Written
      <3>2. CASE wk[v].pc # "idle"
        <4>1. PICK i \in Jobs : i = wk[v].job
          BY <1>0, <3>2
        <4>2. CalmRun(v)
          BY <1>0 DEF CalmKept
        <4> QED
          BY <1>1, <2>1, <4>1, <4>2 DEF CalmRun, Fresh, InStageOf, ToRetry
      <3> QED
        BY <3>1, <3>2
    <2>4. UNCHANGED Lifecycle!vars
      BY <1>1, <1>2, <2>1, HiddenStep
    <2> QED
      BY <2>2, <2>3, <2>4 DEF CalmKept, Simulated
  <1> QED
    BY <1>3, <1>5, <1>6, <1>7

LEMMA CalmStep ==
  ASSUME OneWorker, MaxAttempts # 0, CalmInv, [Next]_vars
  PROVE  CalmInv' /\ Simulated
  <1>0. SettledInv' /\ CountersGrow /\ TypeInv' /\ used \in [Events -> Nat]
    BY SettledStep, StepGrows DEF CalmInv, SettledInv, FileInv, LinkInv, TypeInv
  <1>1. Calm' => Calm
    BY <1>0 DEF Calm, Undisturbed, CountersGrow, Events
  <1>2. CASE ~Calm'
    BY <1>0, <1>2, DisturbedStep DEF CalmInv, Simulated
  <1>3. CASE UNCHANGED vars /\ Calm'
    <2>1. /\ \A i : DocsOf(i)' = DocsOf(i) /\ Running(i)' = Running(i)
          /\ job' = job
      BY <1>3 DEF vars, DocsOf, Running
    <2>2. UNCHANGED Lifecycle!vars
      BY <1>1, <1>3, <2>1, HiddenStep
    <2>3. CalmKept'
      BY <1>1, <1>3, <2>1
      DEF CalmInv, CalmKept, vars, Waiting, Awaited, Fresh, Unborn, CalmRun,
          InStageOf, ToRetry
    <2> QED
      BY <1>0, <2>2, <2>3 DEF CalmInv, Simulated
  <1>4. ASSUME Calm', Next PROVE CalmKept' /\ Simulated
    <2>1. ASSUME NEW kind \in {"kills", "children", "operator", "deletes"},
                 Count(kind)
          PROVE  FALSE
      <3>1. used'[kind] # 0
        BY <1>0, <2>1 DEF Count, Events
      <3> QED
        BY <1>4, <2>1, <3>1 DEF Calm, Undisturbed
    <2>2. ASSUME NEW w \in Workers, PipelineStep(w) \/ FailureStep(w) \/ FaultStep(w)
          PROVE  CalmKept' /\ Simulated
      <3>1. wk[w].pc # "idle"
        BY <2>2, StepsRun
      <3>2. PICK j \in Jobs : wk[w].job = j
        BY <3>1 DEF CalmInv, SettledInv, FileInv, LinkInv, TypeInv, WorkersOK, Sound
      <3>3. FaultStep(w) => PublishRetryFails(w)
        BY <2>1 DEF FaultStep, WorkerKilled, ChildKilled, Redeliver
      <3> QED
        BY <1>0, <1>1, <1>4, <2>2, <3>1, <3>2, <3>3, CalmPipeline, CalmFailure
    <2>3. ~\E j \in Jobs : OperatorStep(j)
      BY <2>1 DEF OperatorStep, Requeue, RecoverUpload, Reprocess
    <2>4. ~\E d \in Docs : DeleteDocument(d)
      BY <2>1 DEF DeleteDocument
    <2> QED
      BY <1>0, <1>1, <1>4, <2>2, <2>3, <2>4, CalmRequest DEF Next, WorkerStep
  <1> QED
    BY <1>0, <1>1, <1>2, <1>3, <1>4 DEF CalmInv

\* With one worker, and at least one attempt for each job, every behaviour of the
\* pipeline is one that JobLifecycle allows: until something interferes a job goes
\* through its stages in order, takes its attempts, makes one document before it
\* says INDEXED and never in a run that fails, and is left settled by every run.
THEOREM PipelineImplementsLifecycle ==
  ASSUME OneWorker, MaxAttempts # 0
  PROVE  Spec => ImplementsLifecycle
  <1>1. Init => CalmInv /\ Lifecycle!Init
    BY CalmInit
  <1>2. CalmInv /\ [Next]_vars => CalmInv' /\ [Lifecycle!Next]_Lifecycle!vars
    BY CalmStep DEF Simulated
  <1> QED
    BY <1>1, <1>2, PTL DEF Spec, ImplementsLifecycle, Lifecycle!Spec

=============================================================================
