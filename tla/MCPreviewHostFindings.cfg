SPECIFICATION Spec
CONSTANTS
    MaxDoc = 2
    MaxRev = 1
    Capacity = 2
\* What the preview gets wrong (README, Disagreements).
\* Each of these is violated; try one at a time.
PROPERTY LateFramesAreDropped
\* PROPERTY HeardIsStaged
CHECK_DEADLOCK FALSE
