SPECIFICATION Spec
CONSTANTS
    MaxDoc = 2
    MaxRev = 4
    MaxTabs = 2
INVARIANTS FirstDocumentKept
PROPERTY NeverBackwards
CHECK_DEADLOCK FALSE
