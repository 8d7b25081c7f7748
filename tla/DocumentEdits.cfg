SPECIFICATION Spec
CONSTANTS
    Docs = {1, 2, 3}
    Texts = {"a", "b"}
    Cats = {"c1", "c2"}
    Tags = {"t1", "t2"}
    Keep = Keep
    Reasons = {"CLASSIFY_FAIL"}
    Rule <- RuleTable
    Editors = {e1, e2}
    Reviewers = {r1}
    Patches <- SomePatches
    Reviews <- SomeReviews
    BatchSize = 2
    Settings <- AllSettings
CHECK_DEADLOCK FALSE
SYMMETRY EditorsSymmetry
INVARIANTS
    VersionsConsistent
    QuietMeansTold
    BackfillCovers
PROPERTIES
    RulesApplied
