SPECIFICATION Spec
CONSTANTS
    Run = {r1, r2}
    Reader = {k1}
    Commit = {c1, c2}
    none = none
SYMMETRY Symmetry
INVARIANTS FailedNeverAuthorizes CommittedIsWhole OkIsDurable RetainedForGood
PROPERTIES PublishedIsAuthorized
