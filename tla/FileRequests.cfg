SPECIFICATION Spec
CONSTANTS
    Docs = {d1, d2}
    Contents = {c1, c2}
    NoDoc = NoDoc
    NoContent = NoContent
    MaxRequests = 4
    Settings <- AllSettings
CHECK_DEADLOCK FALSE
SYMMETRY Symmetry
INVARIANTS
    AttachmentsKept
    ReferencesHold
    NothingLeaks
