SPECIFICATION Spec
CONSTANTS
  Callers = {c1, c2}
  SessionIds = {s1}
  Instances = {i1}
  NoInstance = NoInstance
  Paths = {f1}
  Ops = {"start", "finish", "abandon", "heartbeat", "status"}
  LeaseTimeout = 2
  MaxActive = 0
  StoreMayFail = FALSE
  TicksPerSecond = 1
  Instants = {0, 1, 2, 3, 4, 5, 6}
  MaxVersion = 1
SYMMETRY Symmetry
INVARIANTS
  OnlyFinishedIsCredited
