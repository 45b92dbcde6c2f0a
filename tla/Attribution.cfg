SPECIFICATION Spec
CONSTANTS
  SessionIds = {1, 2, 3}
  Contents = {"x", ""}
  MaxLen = 3
  MaxEdits = 3
  MaxDiffEdits = 2
CHECK_DEADLOCK FALSE
INVARIANTS
  OnlyInsertedIsAI
  NeverOverCredited
  SerialIsCovered
  ReplacedAsOne
  VerifyAddsUp
