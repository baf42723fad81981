CONSTANTS
  Rooms = {r1, r2}
  Hashes = {h1}
  Bytes <- MCBytes
  Ceiling = 2
  MaxFiles = 2
  MaxAttempts = 3
  Clients = {c1, c2}
  Sweeper = sweeper
  None = None
  Ops <- LossOps
  MaxRequests = 2
  MaxCrashes = 0
SPECIFICATION Spec
INVARIANT StoredBytesExist
