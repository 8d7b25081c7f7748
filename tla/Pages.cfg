SPECIFICATION Spec
CONSTANTS
    MaxCalls = 4
    None = None
    Months = {1, 2}
    Tasks = {"t"}
    Forms <- TwoForms
    DefaultForm = "default"
    Window <- Covered
    Days = {1}
    LinkDocs = {"d", "e"}
    Rulesets = {"a", "b", "c"}
    Texts = {1, 2}
    RulesReads = {"test", "export"}
    Categories = {1, 2}
    Tags = {0, 1, 2}
    Untagged = 0
    MapPageSize = 1
    TagRows = 3
    MinNodes = 1
    MaxNodes = 2
    DefaultNodes = 1
    Kinds = {"db", "objects"}
    MaxFile = 3
    Plans = {1, 2}
    DocTexts = {1, 2}
    PageSize = 2
    ScanPages = 2
    MaxPosts = 5
    Files = {"f", "g"}
    MaxMade = 4
CHECK_DEADLOCK FALSE
INVARIANTS
    TasksShownAsAsked
    FormsKeepEachOther
    RulesBelongTogether
    SelectionIsShown
    RestoresTheChosen
    ShownAsAsked
    MediaPostHasFiles
    FilesPostedOnce
