CONSTANTS
  Uploads = {u1, u2, u3}
  MaxBytes = 3
  Floor = 3
  Disk = 9
  BufCap = 1
  ChunkSizes = {1, 2}
  MaxCrashes = 1
SYMMETRY Symmetry
SPECIFICATION Spec
INVARIANTS
  PledgesAddUp
  FloorHoldsUpToBuffers
