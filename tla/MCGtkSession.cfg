SPECIFICATION Spec
CONSTANTS
    Newline = "newline"
    Trail = "trail"
    MaxDocument = 1
    MaxUndo = 100
    EditOverhead = 1
    TypingGap = 1
    LastRevision = 3
    Path = {p}
    Untitled = untitled
    Starter <- MCStarter
    Generated <- MCGenerated
    Keys <- MCKeys
    Foreign <- MCForeign
    MaxTabs = 2
    MaxWork = 3
INVARIANTS
    ViewShowsDocument
    CleanIsSaved
PROPERTIES
    SavedIsStable
    OtherWritesNoticed
    EditsAreJournalled
CHECK_DEADLOCK FALSE
