CONSTANTS
  t1 = t1
  t2 = t2
  h1 = h1
  h2 = h2
  Trigs <- OneTrig
  Handlers <- OneHandler
  Rows <- AnyRow
  Periods <- TwoPeriods
  Unit <- Units
  Step <- Units
  MaxTime = 5
  MaxLate = 2
SPECIFICATION Spec
INVARIANTS
  EntryHasRow
CHECK_DEADLOCK FALSE
