SPECIFICATION FairSpec
CONSTANTS
    MaxDoc = 2
    MaxRev = 1
    Capacity = 2
INVARIANT ScrollsAgree
PROPERTY PageIsPainted
CHECK_DEADLOCK FALSE
