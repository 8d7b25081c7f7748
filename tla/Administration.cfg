SPECIFICATION FairSpec
CONSTANTS
    Users = {u1, u2, u3}
    FirstAdmins = {u1, u2}
    Referenced = {u3}
    Requests = {r1, r2}
    MaxFailed = 2
    LockFor = 2
    Settings <- AllSettings
    Workers = {w1, w2}
    Schedules <- AllSchedules
    DaySlots = 2
    MaxTime = 6
    ScheduleSettings <- BriefAndLong
    Rulesets = {s1, s2}
    FirstRuleset = s1
    Callers = {c1, c2}
    MaxVersion = 3
    RuleSettings <- RulesOrders
CHECK_DEADLOCK FALSE
INVARIANTS
    LockIsEarned
    RulesAsActivated
PROPERTIES
    DeleteKeepsAdmin
    OncePerPeriod
    DueIsRun
