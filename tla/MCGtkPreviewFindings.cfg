SPECIFICATION GtkFairSpec
CONSTANTS
    MaxDoc = 2
    MaxRev = 2
    MaxWakes = 2
\* What the GTK preview gets wrong (README, Disagreements).
\* Each of these is violated; try one at a time.
PROPERTY GtkCatchesUp
\* PROPERTY AcceptedIsCurrent
CHECK_DEADLOCK FALSE
