SPECIFICATION Spec
CONSTANTS
    Modes = {"wrap", "attach", "open"}
    Selections <- SomeSelections
    EventBufSize = 1
    InLoop = 2
    MaxActs = 3
CHECK_DEADLOCK FALSE
INVARIANTS AllCollected Released
PROPERTY Returns
