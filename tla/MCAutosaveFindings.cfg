SPECIFICATION AutosaveSpec
CONSTANTS
    Proc = {p1, p2}
    b1 = b1
    b2 = b2
    Body = {b1, b2}
    NoFile = NoFile
    MaxSeq = 3
    Retention = 2
    TornAppends = TRUE
    Foreign <- ForeignLine
\* What the store gets wrong (README, Disagreements).
\* Each of these is violated; try one at a time.
INVARIANT AckedRecoverable
\* INVARIANT RejectedKept
