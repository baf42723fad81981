CONSTANTS
  Members = {a1, a2}
  Machines = {k1}
  Clients = {c1, c2}
  Sweeper = sweeper
  Owner = Owner
  System = System
  None = None
  Modes <- MCFreeform
  GatedModes <- MCNoModes
  MaxMessages = 2
  ConsensusFloor = 1
  Deadlines <- NoDeadline
  Seatings <- OpenSeats
  Ops <- PollOps
  Kinds <- MessageKind
  Pollers = {a1}
  Reasons <- OwnerReason
  MaxFiles = 1
  MaxSeq = 2
  MaxCrashes = 0
SPECIFICATION Spec
SYMMETRY ClientSymmetry
CHECK_DEADLOCK FALSE
INVARIANTS
  ClosedPollIsComplete
  PingedAtMostOnce
PROPERTIES
  NothingAppearsBehindACursor
  PingsAreNotStale
