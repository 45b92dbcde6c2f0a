SPECIFICATION Spec
CONSTANTS
  Callers = {c1}
  SessionIds = {s1, s2}
  Instances = {i1, i2}
  NoInstance = NoInstance
  Paths = {f1}
  Ops = {"start", "finish", "abandon", "heartbeat", "status"}
  LeaseTimeout = 10
  MaxActive = 1
  StoreMayFail = TRUE
  TicksPerSecond = 10
  Instants = {0, 10, 12, 20, 21, 35}
  MaxVersion = 2
SYMMETRY Symmetry
INVARIANTS
  TypeOK
  OnlyFinishedIsCredited
  NoEditCreditedTwice
  OverlapIsConflict
  WithinActiveLimit
  ActiveIsUncredited
PROPERTIES
  ImplementsLedger
