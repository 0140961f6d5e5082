SPECIFICATION MenuSpec
CONSTANTS
    Path = {p, q}
    Untitled = untitled
    MaxOpen = 2
    MaxId = 1
    MaxText = 4
SYMMETRY Symmetry
INVARIANTS RopesMatchSlots StoreShared CleanIsSaved
PROPERTIES TextsKept NoTabLost
CHECK_DEADLOCK FALSE
