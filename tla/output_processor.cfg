SPECIFICATION Spec
CONSTANTS
  Sizes = {0, 1, 2, 4}
  Jobs <- SmallJobs
  HeaderSize = 2
  PackedMin = 3
  Windows = {1, 3, 8, 40}
INVARIANTS
  EnsuresHold
  FinalIsTheFile
  SuccessIsWholeFile
PROPERTIES
  FinalizedStands
  FileFinishes
CHECK_DEADLOCK FALSE
