SPECIFICATION Spec
CONSTANTS
  Callers = {c1, c2}
  SessionIds = {s1, s2}
  Instances = {i1}
  NoInstance = NoInstance
  Paths = {f1}
  Ops = {"start", "finish"}
  LeaseTimeout = 0
  MaxActive = 0
  StoreMayFail = FALSE
  TicksPerSecond = 1
  Instants = {0, 1, 2, 3, 4}
  MaxVersion = 1
SYMMETRY Symmetry
INVARIANTS
  BaselineHasFinishedChanges
