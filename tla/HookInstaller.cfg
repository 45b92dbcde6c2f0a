SPECIFICATION Spec
CONSTANTS
    Foreign = {"a", "b"}
    MaxCommands = 5
    MaxOthers = 3
CHECK_DEADLOCK FALSE
INVARIANTS
    TypeOK
    NothingIsLost
    UndoRestores
