SPECIFICATION Spec
CONSTANTS
    Path = {p}
    Untitled = untitled
    MaxOpen = 2
    MaxId = 1
    MaxText = 3
PROPERTIES TextsKept
CHECK_DEADLOCK FALSE
