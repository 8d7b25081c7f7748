SPECIFICATION FairSpec
CONSTANTS
    Docs = {d1, d2}
    Contents = {c1, c2}
    NoDoc = NoDoc
    NoContent = NoContent
    MaxRequests = 4
    Settings <- EndSettings
CHECK_DEADLOCK FALSE
PROPERTIES
    UploadSettles
