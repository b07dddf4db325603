CONSTANTS
  a = a
  b = b
  c = c
  d = d
  ghost = ghost
  Steps <- FourSteps
  Names <- FourSteps
  NStages = 2
  StageOf <- FourStages
  Waits <- Fan
  ErrIgnore <- BIgnored
SPECIFICATION CalmSpec
INVARIANTS
  DispatchAfterWaits
PROPERTIES
  TerminatesInCalm
CHECK_DEADLOCK FALSE
