SPECIFICATION Spec
CONSTANTS
    StartLines <- MCStartLines
    StartInline <- MCStartInline
    Stars <- MCStars
    WordBytes <- MCWordBytes
    MaxHeading = 6
    MaxPlanEdits = 3
    MaxCommands = 3
\* Each of these is violated; try one at a time.
INVARIANT TogglesReturn
\* PROPERTY SelectionsNumberOn
CHECK_DEADLOCK FALSE
