CONSTANTS
  a = a
  b = b
  c = c
  d = d
  ghost = ghost
  Steps <- ThreeSteps
  Names <- WithGhost
  NStages = 2
  StageOf <- TwoStages
  Waits <- Cycle
  ErrIgnore <- NoIgnored
SPECIFICATION Spec
PROPERTIES
  Terminates
CHECK_DEADLOCK FALSE
