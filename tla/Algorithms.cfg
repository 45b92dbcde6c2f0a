SPECIFICATION Spec
CONSTANTS
    Limits = {"leaseTimeout", "snapshotMaxBytes"}
INVARIANTS
    ScriptIsShortest
    BlankLinesKeepIdentity
    PlainDiffIsRead
    NegationIsReached
    AmendNeverStacks
    OnlyOursIsReplaced
    EditsKeepTheRest
CHECK_DEADLOCK FALSE
