SPECIFICATION Spec
CONSTANTS
    StartLines <- MCStartLines
    StartInline <- MCStartInline
    Stars <- MCStars
    WordBytes <- MCWordBytes
    MaxHeading = 6
    MaxPlanEdits = 3
    MaxCommands = 3
INVARIANTS
    TogglesCycle
    InlineReturns
PROPERTIES
    EnterNumbersOn
CHECK_DEADLOCK FALSE
