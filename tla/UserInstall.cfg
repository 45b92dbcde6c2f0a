SPECIFICATION Spec
CONSTANTS
    Dirs = {"d1", "d2"}
    Releases = {"r1", "r2"}
    Shells = {"zsh"}
    MaxCommands = 3
    MaxActs = 2
CHECK_DEADLOCK FALSE
INVARIANTS
    ProfileIsUsers
    InstalledIsRecorded
PROPERTIES
    ForeignIsKept
    ReceiptGoesLast
