SPECIFICATION FairSpec
CONSTANTS
    Proc = {p1, p2}
    b1 = b1
    b2 = b2
    Body = {b1}
    NoFile = NoFile
    MaxSeq = 2
    Retention = 1
    TornAppends = TRUE
    Foreign <- NoLines
PROPERTY CallsReturn
