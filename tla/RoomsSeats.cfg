CONSTANTS
  Members = {a1, a2}
  Machines = {k1, k2}
  Clients = {c1, c2}
  Sweeper = sweeper
  Owner = Owner
  System = System
  None = None
  Modes <- MCFreeform
  GatedModes <- MCNoModes
  MaxMessages = 5
  ConsensusFloor = 1
  Deadlines <- NoDeadline
  Seatings <- AnySeating
  Ops <- SeatOps
  Kinds <- MessageKind
  Pollers = {a1, a2}
  Reasons <- OwnerReason
  MaxFiles = 1
  MaxSeq = 4
  MaxCrashes = 0
SPECIFICATION Spec
SYMMETRY FullSymmetry
CHECK_DEADLOCK FALSE
INVARIANTS
  SeatHandoverIsAnnounced
