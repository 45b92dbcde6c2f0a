SPECIFICATION FairSpec
CONSTANTS
  Callers = {c1, c2}
  SessionIds = {s1}
  Instances = {i1}
  NoInstance = NoInstance
  Paths = {f1}
  Ops = {"start", "finish", "abandon", "heartbeat"}
  LeaseTimeout = 20
  MaxActive = 0
  StoreMayFail = FALSE
  TicksPerSecond = 10
  Instants = {0, 22, 31, 40, 41}
  MaxVersion = 1
INVARIANTS
  LeaseNeverEarly
  FailureAnswerIsRecorded
PROPERTIES
  TerminalIsPermanent
  CallReturns
