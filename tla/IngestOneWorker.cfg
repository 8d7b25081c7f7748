SPECIFICATION FairSpec
CONSTANTS
    Jobs = {j1, j2}
    Docs = {d1, d2, d3}
    Contents = {c1, c2}
    Tags = {t1}
    Workers = {w1}
    NoJob = NoJob
    NoDoc = NoDoc
    NoContent = NoContent
    NoTag = NoTag
    MaxAttempts = 2
    ForceFlags = {TRUE, FALSE}
    Limits <- OneWorkerLimits
CHECK_DEADLOCK FALSE
INVARIANTS
    TypeOK
    NoStrandedJob
    DuplicatesFlagged
    PublishedHasFile
PROPERTIES
    ImplementsLifecycle
    EveryJobSettles
