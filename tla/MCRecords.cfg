CONSTANTS
  p1 = p1
  p2 = p2
  d1 = d1
  d2 = d2
  r1 = r1
  r2 = r2
  sa = sa
  sb = sb
  sh = sh
  Var = Var
  Blank = Blank
  Written <- Descriptions
  Values <- AllValues
  Labels <- AllLabels
  v1 = v1
  v2 = v2
  v3 = v3
  txt = txt
  Masked = Masked
  Empty = Blank
  VarNames <- ThreeVars
  Texts <- SomeTexts
  StoredVars <- SomeStored
  GivenValues <- SomeGiven
  Pipes <- TwoPipes
  Docs <- TwoDocs
  Sizes <- DocSizes
  WellFormed <- TwoDocs
  Editors <- OneEditor
  Requests <- TwoRequests
  MaxVersions = 3
  MaxRequests = 2
  MaxProcess = 2
  c1 = c1
  c2 = c2
  up = up
  fork = fork
  Commits = {c1, c2}
  NoSha = NoSha
  ZeroSha = ZeroSha
  Repos = {up, fork}
  NoRepo = NoRepo
  Triggers <- TheTriggers
  Deliveries <- SomeDeliveries
  WebSecrets <- TheSecrets
SYMMETRY Symmetries
SPECIFICATION Spec
INVARIANTS
  PutIsComplete
  OpenIsOwned
  NumbersRise
  DeletedIsNotRun
  RejectedForReason
  DanglingForReason
  NamedIsResolved
  HookBuildHasCommit
  BranchIsFiltered
  RowTellsOutcome
CHECK_DEADLOCK FALSE
