-------------------------- MODULE MCAdministration --------------------------
(***************************************************************************)
(* The accounts, the backup schedule and the rule versions, which share no *)
(* state: a behaviour is about one of them, the others stay as they began. *)
(***************************************************************************)
EXTENDS Accounts, BackupSchedule, RuleVersions

VARIABLE scene

vars == <<accountVars, scheduleVars, ruleVars, scene>>

\* Two requests in flight while nobody is demoted; every update, one request at a
\* time, while locks expire; two in flight with every update.
Growing == [updates |-> {{"unlock"}, {"promote"}}, inFlight |-> 2,
            calls |-> 4, until |-> 1]
InTurn == [updates |-> {{"unlock", "activate"}, {"deactivate"}, {"demote"},
                        {"promote"}},
           inFlight |-> 1, calls |-> 5, until |-> 3]
Crossing == [InTurn EXCEPT !.inFlight = 2, !.calls = 3, !.until = 2]

AllSettings == {Growing, InTurn, Crossing}

\* Days of two slots; a daily and a two-day schedule, on and off.
Daily == [enabled |-> TRUE, interval |-> 1, slot |-> 1]
EveryOther == [enabled |-> TRUE, interval |-> 2, slot |-> 0]
Off == [enabled |-> FALSE, interval |-> 1, slot |-> 1]
AllSchedules == {Daily, EveryOther, Off}

\* Backups that end before the next check; and long ones with a second check.
Brief == [first |-> Daily, brief |-> TRUE, waiting |-> 1,
          changes |-> 2, manuals |-> 1, kills |-> 1]
Long == [first |-> EveryOther, brief |-> FALSE, waiting |-> 2,
         changes |-> 1, manuals |-> 1, kills |-> 1]
BriefAndLong == {Brief, Long}

\* Activations and imports one after the other, or in flight together.
Sequential == [inTurn |-> TRUE, activations |-> 3, updates |-> 1]
Overlapping == [inTurn |-> FALSE, activations |-> 2, updates |-> 1]
RulesOrders == {Sequential, Overlapping}

Init ==
    /\ AccountsInit
    /\ ScheduleInit
    /\ RulesInit
    /\ scene \in {"accounts", "schedule", "rules"}
    /\ scene = "accounts" \/ setting = InTurn
    /\ scene = "schedule" \/ plan = Brief
    /\ scene = "rules" \/ allowance = Sequential

InSchedule(Step) ==
    /\ scene = "schedule"
    /\ Step
    /\ UNCHANGED <<accountVars, ruleVars, scene>>

Next ==
    \/ /\ scene = "accounts"
       /\ AccountsNext
       /\ UNCHANGED <<scheduleVars, ruleVars, scene>>
    \/ InSchedule(ScheduleNext)
    \/ /\ scene = "rules"
       /\ RulesNext
       /\ UNCHANGED <<accountVars, scheduleVars, scene>>

\* ScheduleFairness, of the behaviours that are about the schedule.
Fairness ==
    /\ WF_vars(InSchedule(Beat))
    /\ \A w \in Workers :
         /\ WF_vars(InSchedule(Skip(w)))
         /\ WF_vars(InSchedule(Start(w)))
         /\ WF_vars(InSchedule(\E ok \in BOOLEAN : Finish(w, ok)))

FairSpec == Init /\ [][Next]_vars /\ Fairness
=============================================================================
