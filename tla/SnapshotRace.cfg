SPECIFICATION Spec
CONSTANTS
  Callers = {c1}
  SessionIds = {s1, s2, s3}
  Collectors = {g1}
  Nobody = Nobody
  Hashes = {h1}
  Quota = 0
  LockDuration = 1
  Interval = 1
  Retention = 1
  OlderThan = {}
  Grace = 0
  WithCli = FALSE
  MaxOrphans = 0
  TicksPerSecond = 1
  Instants = {0, 1, 2, 3}
SYMMETRY Symmetry
INVARIANTS
  ActiveIsComplete
CHECK_DEADLOCK FALSE
