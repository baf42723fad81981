CONSTANTS
  g = g
  h = h
  None = None
  Rules = {g, h}
  Projects = {p}
  Machines = {m}
  Reserved = librarian
  Founding <- MCFounding
  Rulebooks <- MCRulebooks
  Overlays <- MCOverlays
  Procs = {p1, p2}
  Sessions = {s1, s2}
  MaxAttempts = 2
  Budget = 3
  Digest = 2
  MaxRequests = 3
  MaxCrashes = 1
SYMMETRY Symmetry
SPECIFICATION Spec
CHECK_DEADLOCK FALSE
INVARIANTS
  TypeOK
  SequencesAreGapless
  ConflictsAreReal
  FetchIsFaithful
  RevokedIsRefused
  PrintedTokenWorks
