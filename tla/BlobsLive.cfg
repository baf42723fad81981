CONSTANTS
  Rooms = {r1}
  Hashes = {h1, h2}
  Bytes <- MCBytes
  Ceiling = 3
  MaxFiles = 2
  MaxAttempts = 3
  Clients = {c1, c2}
  Sweeper = sweeper
  None = None
  Ops <- AllOps
  MaxRequests = 2
  MaxCrashes = 0
SPECIFICATION FairSpec
PROPERTIES
  SessionsEnd
  GarbageIsCollected
