SPECIFICATION GtkFairSpec
CONSTANTS
    MaxDoc = 3
    MaxRev = 2
    MaxWakes = 2
INVARIANTS OneOutstanding CurrentInPipeline
PROPERTY JobsFinish
CHECK_DEADLOCK FALSE
