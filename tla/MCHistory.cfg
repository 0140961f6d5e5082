SPECIFICATION HistorySpec
CONSTANTS
    Newline = "n"
    Trail = "t"
    MaxDocument = 3
    MaxUndo = 7
    EditOverhead = 2
    TypingGap = 1
    LastRevision = 4
    Start <- MCStart
    Words <- MCWords
    MaxEdits = 2
    Clock <- MCClock
INVARIANTS
    UndoReturns
    RedoReturns
    BudgetExact
CHECK_DEADLOCK FALSE
