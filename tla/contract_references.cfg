SPECIFICATION Spec
CONSTANTS
  Files <- OneFile
  NoBuffer = NoBuffer
  NoInput = NoInput
  BufferSizes <- NoSizes
  Calls <- PixelCalls
  EventSets <- ListEvents
  Inputs <- WholeRaw
  SkipAmounts <- OneSkip
  MaxSkip = 1
  AllocMayFail = FALSE
  CarefulClient = TRUE
CHECK_DEADLOCK FALSE
PROPERTIES
  ShownOntoItsReferences
