SPECIFICATION MenuSpec
CONSTANTS
    Path = {p}
    Untitled = untitled
    MaxOpen = 2
    MaxId = 1
    MaxText = 4
\* What the tabs of macOS get wrong (README, Disagreements).
\* Each of these is violated; try one at a time.
INVARIANT QuitAsks
\* PROPERTY PromptSavesItsTab
\* PROPERTY ClosingChecksDisk
\* PROPERTY SaveChecksDisk
\* PROPERTY UnsavedStays
\* INVARIANT StoreBound
\* INVARIANT PaneShowsDocument
CHECK_DEADLOCK FALSE
