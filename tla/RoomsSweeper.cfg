CONSTANTS
  Members = {a1, a2}
  Machines = {k1}
  Clients = {c1, c2}
  Sweeper = sweeper
  Owner = Owner
  System = System
  None = None
  Modes <- MCFreeform
  GatedModes <- MCNoModes
  MaxMessages = 2
  ConsensusFloor = 1
  Deadlines <- BothDeadlines
  Seatings <- OpenSeats
  Ops <- LiveOps
  Kinds <- MessageKind
  Pollers = {a1, a2}
  Reasons <- OwnerReason
  MaxFiles = 1
  MaxSeq = 2
  MaxCrashes = 1
SPECIFICATION FairSpec
CHECK_DEADLOCK FALSE
INVARIANTS
  NudgedAtMostOnce
PROPERTIES
  ExpiredRoomCloses
  RequestsComplete
