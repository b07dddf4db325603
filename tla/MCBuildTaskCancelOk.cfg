CONSTANTS
  a = a
  b = b
  c = c
  d = d
  ghost = ghost
  Steps <- ThreeSteps
  Names <- WithGhost
  NStages = 2
  StageOf <- TwoStages
  Waits <- Chain
  ErrIgnore <- NoIgnored
SPECIFICATION Spec
INVARIANTS
  CancelledIsNotOk
CHECK_DEADLOCK FALSE
