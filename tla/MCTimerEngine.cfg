CONSTANTS
  t1 = t1
  t2 = t2
  h1 = h1
  h2 = h2
  Trigs <- OneTrig
  Handlers <- TwoHandlers
  Rows <- AnyRow
  Periods <- TwoPeriods
  Unit <- Units
  Step <- Units
  MaxTime = 5
  MaxLate = 2
SPECIFICATION Spec
INVARIANTS
  TypeOK
PROPERTIES
  TickAhead
  FiredLeaves
CHECK_DEADLOCK FALSE
