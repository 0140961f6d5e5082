SPECIFICATION Spec
CONSTANTS
    Newline = "n"
    Trail = "t"
    MaxDocument = 3
    MaxUndo = 100
    EditOverhead = 1
    TypingGap = 1
    LastRevision = 3
    WordByte <- MCWordByte
    LowerCase <- MCLowerCase
    MaxPlanEdits = 1
    MaxPlannedSpan = 2
    MaxPlanTotal = 4
    MaxCompositions = 1
    Opened <- MCOpened
    Keys <- MCKeys
    Pastes <- MCPastes
    Queries <- MCQueries
    Replacements <- MCReplacements
INVARIANTS
    MirrorIsDocument
    IndexTracks
PROPERTIES
    ReplacesAllOrNothing
CHECK_DEADLOCK FALSE
