SPECIFICATION Spec
CONSTANTS
    Newline = "newline"
    Trail = "trail"
    MaxDocument = 1
    MaxUndo = 100
    EditOverhead = 1
    TypingGap = 1
    LastRevision = 3
    Path = {p}
    Untitled = untitled
    Starter <- MCStarter
    Generated <- MCGenerated
    Keys <- MCKeys
    Foreign <- MCForeign
    MaxTabs = 2
    MaxWork = 3
\* What the GTK program gets wrong (README, Disagreements).
\* Each of these is violated; try one at a time.
PROPERTY PumpGoesOn
\* PROPERTY UnsavedIsAskedFor
\* PROPERTY RecoveredIsNewest
\* PROPERTY SaveKeySaves
\* PROPERTY PollGoesOn
\* PROPERTY OpenGoesOn
\* PROPERTY CommitsAreCurrent
\* INVARIANT StartsAgain
CHECK_DEADLOCK FALSE
