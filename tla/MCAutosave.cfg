SPECIFICATION AutosaveSpec
CONSTANTS
    Proc = {p1, p2}
    b1 = b1
    b2 = b2
    Body = {b1, b2}
    NoFile = NoFile
    MaxSeq = 3
    Retention = 2
    TornAppends = FALSE
    Foreign <- NoLines
SYMMETRY Symmetric
INVARIANTS
    NewestBacked
PROPERTIES NeverForgets ImplementsRecoverable
