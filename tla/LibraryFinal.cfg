CONSTANTS
  x = x
  y = y
  q = q
  path = path
  None = None
  Base = {x, y, q}
  Proposals = {q}
  Deposits = {d1}
  Fresh = {m1}
  Similar <- MCSimilar
  Bodies <- LossBodies
  Paths = {path}
  Clients = {c1}
  Runners = {l1}
  Lessons = {}
  MaxAttempts = 2
  MaxRequests = 1
  MaxCalls = 1
  MaxFailures = 1
  MaxRuns = 1
SPECIFICATION FairSpec
CHECK_DEADLOCK FALSE
PROPERTY OutcomesAreFinal
