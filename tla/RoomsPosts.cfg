CONSTANTS
  Members = {a1, a2}
  Machines = {k1}
  Clients = {c1, c2}
  Sweeper = sweeper
  Owner = Owner
  System = System
  None = None
  Modes <- MCFreeform
  GatedModes <- MCNoModes
  MaxMessages = 2
  ConsensusFloor = 1
  Deadlines <- Deferred
  Seatings <- OpenSeats
  Ops <- PostOps
  Kinds <- PlainKinds
  Pollers = {a1, a2}
  Reasons <- OwnerReason
  MaxFiles = 1
  MaxSeq = 3
  MaxCrashes = 0
SPECIFICATION Spec
SYMMETRY MemberSymmetry
CHECK_DEADLOCK FALSE
INVARIANTS
  TypeOK
  LockedSnapshotIsCurrent
  CountIsLive
  CapHolds
  AgentsWaitForOwner
  DeferredOnlyWhileWaiting
PROPERTIES
  CloseIsFinal
  ClosedTranscriptFrozen
  ImplementsRoomLog
