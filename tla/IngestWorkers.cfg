SPECIFICATION Spec
CONSTANTS
    Jobs = {j1, j2}
    Docs = {d1, d2}
    Contents = {c1, c2}
    Tags = {t1}
    Workers = {w1, w2}
    NoJob = NoJob
    NoDoc = NoDoc
    NoContent = NoContent
    NoTag = NoTag
    MaxAttempts = 2
    ForceFlags = {TRUE, FALSE}
    Limits <- TwoWorkerLimits
CHECK_DEADLOCK FALSE
SYMMETRY Symmetry
INVARIANTS
    JobDocumentComplete
    SuccessHasDocument
    RowHasObject
