SPECIFICATION FairSpec
CONSTANTS
    MaxDoc = 3
    MaxRev = 2
    MaxTabs = 2
\* What the macOS preview gets wrong (README, Disagreements).
\* Each of these is violated; try one at a time.
PROPERTY AcceptedIsCurrent
\* PROPERTY PreviewCatchesUp
\* INVARIANT OneOutstanding
\* PROPERTY RecoveredIsQueued
\* PROPERTY TabIsRendered
\* INVARIANT AppSurvives
CHECK_DEADLOCK FALSE
