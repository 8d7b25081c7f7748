SPECIFICATION FairSpec
CONSTANTS
    MaxCalls = 3
    Docs <- AllDocs
    Filters <- TwoFilters
    NoFilter = "all"
    Matches <- Matching
    PageSize <- Sizes
    NoDoc = 0
    Settings <- AllSettings
CHECK_DEADLOCK FALSE
INVARIANTS
    ShowsWhatWasAsked
    OwnChangesShown
    ChosenIsListed
PROPERTIES
    PageSettles
