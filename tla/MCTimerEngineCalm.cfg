CONSTANTS
  t1 = t1
  t2 = t2
  h1 = h1
  h2 = h2
  Trigs <- TwoTrigs
  Handlers <- OneHandler
  Rows <- CalmRows
  Periods <- TwoPeriods
  Unit <- Units
  Step <- Units
  MaxTime = 4
  MaxLate = 1
SPECIFICATION CalmSpec
INVARIANTS
  EntryHasRow
  Registered
CHECK_DEADLOCK FALSE
