SPECIFICATION FairSpec
CONSTANTS
    Docs = {d1, d2}
    Workers = {w1}
    PageSize = 1
    Limits <- OneWorkerLimits
CHECK_DEADLOCK FALSE
INVARIANTS
    QuietMeansIndexed
PROPERTIES
    IndexCatchesUp
