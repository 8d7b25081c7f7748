--------------------------- MODULE BackupSchedule ---------------------------
(***************************************************************************)
(* The scheduled full backup. Celery beat sends a check every minute; the  *)
(* worker that takes it reads the one row of backup_schedule_settings, and *)
(* if a backup is due runs it and only then writes last_run_at. Meanwhile  *)
(* beat goes on, administrators save new settings, and 'run now' runs the  *)
(* same backup inside a request.                                           *)
(*                                                                         *)
(* Time is counted in slots, DaySlots to a day; a slot is many minutes.    *)
(*   row      the row: the schedule, and last_run_at (Never for null)      *)
(*   queue    checks sent and not taken                                    *)
(*   task     when each worker started the backup it is running            *)
(*   manual   the backup of 'run now' is under way                         *)
(*   ran      the day of the last scheduled run of this window (history)   *)
(*   plan     how long backups take, and what the behaviour may still have *)
(***************************************************************************)
EXTENDS Integers, FiniteSets

CONSTANTS
    Workers,        \* prefork children of the worker that may run a check
    Schedules,      \* settings an administrator may save
    DaySlots,
    MaxTime,        \* bound
    ScheduleSettings        \* the first schedule; brief: a check is taken and ends
                    \* before beat sends the next; and bounds: the checks that
                    \* may wait, changes, calls of 'run now', kills

ASSUME DaysAssumption == DaySlots \in Nat \ {0} /\ MaxTime \in Nat
ASSUME SchedulesAssumption ==
    \A s \in Schedules :
        /\ s.interval \in 1 .. 60 /\ s.slot \in 0 .. (DaySlots - 1)
        /\ s.enabled \in BOOLEAN
ASSUME ScheduleSettingsAssumption ==
    ScheduleSettings \subseteq [first: Schedules, brief: BOOLEAN, waiting: Nat,
                        changes: Nat, manuals: Nat, kills: Nat]

Never == -1

VARIABLES row, queue, task, manual, clock, ran, plan

scheduleVars == <<row, queue, task, manual, clock, ran, plan>>

ScheduleInit ==
    /\ plan \in ScheduleSettings
    /\ row = [schedule |-> plan.first, last |-> Never]
    /\ queue = 0
    /\ task = [w \in Workers |-> Never]
    /\ manual = FALSE
    /\ clock = 0
    /\ ran = Never

-----------------------------------------------------------------------------
Day(t) == t \div DaySlots
Running(w) == task[w] # Never

\* One of the events of a kind that the setting allows.
Spend(kind) ==
    /\ plan[kind] > 0
    /\ plan' = [plan EXCEPT ![kind] = @ - 1]

\* Fault: the interval counts from the moment of the last run, not from its day.
NextDue_FromLast ==
    LET s == row.schedule IN
    IF row.last = Never THEN Day(clock) * DaySlots + s.slot
    ELSE row.last + (s.interval - 1) * DaySlots + 1

\* When the next backup is due: today at run_time if none has run, otherwise
\* interval_days after the day of the last.
NextDue ==
    LET s == row.schedule
        day == IF row.last = Never THEN Day(clock) ELSE Day(row.last) + s.interval
    IN  DaySlots * day + s.slot

Due == clock >= NextDue

ClockTick ==
    /\ clock < MaxTime
    /\ clock' = clock + 1
    /\ UNCHANGED <<row, queue, task, manual, ran, plan>>

Beat ==
    /\ queue < plan.waiting
    /\ plan.brief => queue = 0 /\ \A w \in Workers : ~Running(w)
    /\ queue' = queue + 1
    /\ UNCHANGED <<row, task, manual, clock, ran, plan>>

\* A worker takes a check: disabled or not due, it skips.
Skip(w) ==
    /\ queue > 0 /\ ~Running(w)
    /\ ~row.schedule.enabled \/ ~Due
    /\ queue' = queue - 1
    /\ UNCHANGED <<row, task, manual, clock, ran, plan>>

Start(w) ==
    /\ queue > 0 /\ ~Running(w)
    /\ row.schedule.enabled /\ Due
    /\ queue' = queue - 1
    /\ task' = [task EXCEPT ![w] = clock]
    /\ ran' = Day(clock)
    /\ UNCHANGED <<row, manual, clock, plan>>

\* Fault: a failed backup does not count as a run.
Finish_FailedNotCounted(w, ok) ==
    /\ Running(w)
    /\ row' = IF ok THEN [row EXCEPT !.last = task[w]] ELSE row
    /\ task' = [task EXCEPT ![w] = Never]
    /\ UNCHANGED <<queue, manual, clock, ran, plan>>

\* The backup ends, well or badly, and is recorded as of its start.
Finish(w, ok) ==
    /\ Running(w)
    /\ row' = [row EXCEPT !.last = task[w]]
    /\ task' = [task EXCEPT ![w] = Never]
    /\ UNCHANGED <<queue, manual, clock, ran, plan>>

\* A worker is stopped and its unacknowledged check is delivered again.
Kill(w) ==
    /\ Running(w)
    /\ Spend("kills")
    /\ task' = [task EXCEPT ![w] = Never]
    /\ queue' = queue + 1
    /\ ran' = Never
    /\ UNCHANGED <<row, manual, clock>>

\* Settings are saved; a change restarts the window unless it disables.
Save(s) ==
    LET restart == s.enabled /\ s # row.schedule IN
    /\ Spend("changes")
    /\ row' = [schedule |-> s, last |-> IF restart THEN Never ELSE row.last]
    /\ ran' = IF restart THEN Never ELSE ran
    /\ UNCHANGED <<queue, task, manual, clock>>

AskRunNow ==
    /\ ~manual
    /\ Spend("manuals")
    /\ manual' = TRUE
    /\ UNCHANGED <<row, queue, task, clock, ran>>

\* Only a 'run now' that succeeds is recorded, as of its end.
RunNow(ok) ==
    /\ manual
    /\ manual' = FALSE
    /\ row' = IF ok THEN [row EXCEPT !.last = clock] ELSE row
    /\ UNCHANGED <<queue, task, clock, ran, plan>>

-----------------------------------------------------------------------------
ScheduleNext ==
    \/ ClockTick \/ Beat \/ AskRunNow
    \/ \E ok \in BOOLEAN : RunNow(ok)
    \/ \E w \in Workers : \/ Skip(w) \/ Start(w) \/ Kill(w)
                          \/ \E ok \in BOOLEAN : Finish(w, ok)
    \/ \E s \in Schedules : Save(s)

\* Beat keeps sending, an idle worker takes a check, a backup ends.
ScheduleFairness ==
    /\ WF_scheduleVars(Beat)
    /\ \A w \in Workers : /\ WF_scheduleVars(Skip(w)) /\ WF_scheduleVars(Start(w))
                          /\ WF_scheduleVars(\E ok \in BOOLEAN : Finish(w, ok))

ScheduleSpec == ScheduleInit /\ [][ScheduleNext]_scheduleVars
ScheduleFairSpec == ScheduleSpec /\ ScheduleFairness

-----------------------------------------------------------------------------
(* Properties.                                                             *)

\* No run is recorded, and none is under way, that has not begun.
Begun == {Never} \cup 0 .. clock
ScheduleTypeOK ==
    /\ row \in [schedule: Schedules, last: Begun]
    /\ queue \in Nat
    /\ task \in [Workers -> Begun]
    /\ manual \in BOOLEAN
    /\ clock \in 0 .. MaxTime
    /\ ran \in Begun
    /\ plan \in [first: Schedules, brief: BOOLEAN, waiting: Nat,
                    changes: Nat, manuals: Nat, kills: Nat]

\* 'A period of 1 to 60 days': when backups end before the next check, at least
\* interval_days pass between two scheduled backups of one window, whatever
\* 'run now', failures and redelivery do in between.
OncePerPeriod ==
    [][\A w \in Workers :
         plan.brief /\ ~Running(w) /\ task'[w] # Never /\ ran # Never
           => Day(clock) >= ran + row.schedule.interval]_scheduleVars

\* A backup that is due is run, or new settings make it not due: a failed
\* backup, a crash or a flood of checks does not keep it waiting or repeating.
DueIsRun == (row.schedule.enabled /\ Due) ~> (~Due \/ ~row.schedule.enabled)
=============================================================================
