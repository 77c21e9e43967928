SPECIFICATION FairSpec
CONSTANTS
  Files <- BufferFiles
  NoBuffer = NoBuffer
  NoInput = NoInput
  BufferSizes <- SmallSizes
  Calls <- BufferCalls
  EventSets <- BufferEvents
  Inputs <- OneUnit
  SkipAmounts <- OneSkip
  MaxSkip = 1
  AllocMayFail = TRUE
  CarefulClient = TRUE
CHECK_DEADLOCK FALSE
INVARIANTS
  SeedsInOrder
  NoBoxByteLost
  BoxCompleteIsWhole
  NoJpegByteLost
  EventOrder
  FullImageIsDelivered
PROPERTIES
  CallsReturn
