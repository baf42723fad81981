CONSTANTS
  x = x
  y = y
  q = q
  path = path
  None = None
  Base = {x, y, q}
  Proposals = {q}
  Deposits = {d1, d2}
  Fresh = {m1, m2}
  Similar <- MCSimilar
  Bodies <- MCBodies
  Paths = {path}
  Clients = {c1, c2}
  Runners = {l1}
  Lessons = {ev}
  MaxAttempts = 2
  MaxRequests = 2
  MaxCalls = 3
  MaxFailures = 2
  MaxRuns = 2
SYMMETRY Symmetry
SPECIFICATION Spec
CHECK_DEADLOCK FALSE
INVARIANTS
  TypeOK
  AcknowledgedIsStored
  VersionsAreGapless
  LineageMatchesStatus
  ProposalsStayInert
  BudgetIsKept
  MergedOnce
