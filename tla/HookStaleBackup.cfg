SPECIFICATION Spec
CONSTANTS
    Foreign = {"a", "b"}
    MaxCommands = 3
    MaxOthers = 1
CHECK_DEADLOCK FALSE
INVARIANTS
    RestoredIsPrevious
