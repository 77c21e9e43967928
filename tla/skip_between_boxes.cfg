SPECIFICATION Spec
CONSTANTS
  Files <- AtSection
  HeaderSize = 2
  Pieces <- SmallPieces
  Skips = {"between"}
INVARIANTS
  AdvancesWithinInput
CHECK_DEADLOCK FALSE
