SPECIFICATION ReadingSpec
CONSTANTS
    Stream <- MCStream
    Pipes <- MCPipes
    MaxWritten <- MCMaxWritten
    PipeSize = 1
    Retained = 1
    Deadline = 0
    Grace = 1
    KillSettle = 1
    Steps = 3
    MaxAttempts = 2
    MinRepeats = 2
    Repeats = 2
    MaxBuilds = 2
    Kinds = {"dmg", "tar", "deb", "rootdeb"}
\* Where the package smoke row and its comments part (README, Disagreements).
\* Each of these is violated; try one at a time.
INVARIANT UninstallRuns
\* PROPERTY RowReaped
\* PROPERTY ExecuteReturns
CHECK_DEADLOCK FALSE
