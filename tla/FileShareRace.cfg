SPECIFICATION Spec
CONSTANTS
    Docs = {d1, d2}
    Contents = {c1}
    NoDoc = NoDoc
    NoContent = NoContent
    MaxRequests = 3
    Settings <- ShareSettings
CHECK_DEADLOCK FALSE
SYMMETRY Symmetry
INVARIANTS
    LinkedReadable
