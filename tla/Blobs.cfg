CONSTANTS
  Rooms = {r1, r2}
  Hashes = {h1, h2}
  Bytes <- MCBytes
  Ceiling = 2
  MaxFiles = 2
  MaxAttempts = 3
  Clients = {c1, c2}
  Sweeper = sweeper
  None = None
  Ops <- AllOps
  MaxRequests = 3
  MaxCrashes = 1
SYMMETRY Symmetry
SPECIFICATION Spec
INVARIANTS
  TypeOK
  CounterIsExact
  LinkedBlobsStay
  LocksAreOrdered
PROPERTIES
  ImplementsBlobStore
