CONSTANTS
  Members = {a1, a2}
  Machines = {k1}
  Clients = {c1}
  Sweeper = sweeper
  Owner = Owner
  System = System
  None = None
  Modes <- MCModes
  GatedModes <- MCGatedModes
  MaxMessages = 6
  ConsensusFloor = 4
  Deadlines <- NoDeadline
  Seatings <- OpenSeats
  Ops <- ModeOps
  Kinds <- VoteKinds
  Pollers = {a1, a2}
  Reasons <- OwnerReason
  MaxFiles = 1
  MaxSeq = 5
  MaxCrashes = 0
SPECIFICATION Spec
SYMMETRY MemberSymmetry
CHECK_DEADLOCK FALSE
INVARIANTS
  AgreedCloseIsEarned
