SPECIFICATION Spec
CONSTANTS
  Callers = {c1}
  SessionIds = {s1, s2}
  Collectors = {g1, g2}
  Nobody = Nobody
  Hashes = {h1, h2}
  Quota = 1
  LockDuration = 20
  Interval = 20
  Retention = 20
  OlderThan = {10}
  Grace = 10
  WithCli = TRUE
  MaxOrphans = 1
  TicksPerSecond = 10
  Instants = {0, 2, 20}
SYMMETRY Symmetry
INVARIANTS
  TypeOK
  RetainedHasManifest
  UnracedIsComplete
  WithinQuota
  OneCollectorPerLease
  SweptIsClean
