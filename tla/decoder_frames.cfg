SPECIFICATION Spec
CONSTANTS
  Files <- FrameFiles
  NoBuffer = NoBuffer
  NoInput = NoInput
  BufferSizes <- NoSizes
  Calls <- FrameCalls
  EventSets <- FrameEvents
  Inputs <- Pieces
  SkipAmounts <- OneSkip
  MaxSkip = 1
  AllocMayFail = FALSE
  CarefulClient = TRUE
CHECK_DEADLOCK FALSE
INVARIANTS
  TypeOK
  RefsInOrder
  BufferOnlyForItsFrame
  SuccessIsComplete
PROPERTIES
  DeliversFrames
  SoundNeverFails
