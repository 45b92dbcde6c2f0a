SPECIFICATION FairSpec
CONSTANTS
    Workers = {w1, w2, w3}
    Size = 4
CHECK_DEADLOCK FALSE
INVARIANTS
    EveryFileIsReported
    WorkersNeverBlock
PROPERTIES
    EverythingEnds
