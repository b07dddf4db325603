CONSTANTS
  p1 = p1
  p2 = p2
  j1 = j1
  j2 = j2
  j3 = j3
  r1 = r1
  r2 = r2
  r3 = r3
  Jobs <- ThreeJobs
  Plugs <- TwoPlugs
  PlugOf <- MixedPlugs
  Runners <- ThreeRunners
  PlugsOf <- TheirPlugs
  MaxExecs = 2
SPECIFICATION MenuSpec
INVARIANTS
  TypeOK
  HandedOnce
PROPERTIES
  Drained
  Served
CHECK_DEADLOCK FALSE
