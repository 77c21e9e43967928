SPECIFICATION Spec
CONSTANTS
  GroupDim = 3
  Padding <- OnePixel
  Threads = {0, 1}
  Frames <- SmallFrames
  Details = {0, 1, 2, 3}
INVARIANTS
  DrawsFromSavedData
  AreasDisjoint
  NothingLeftUndrawn
  ImageIsComplete
  RecordsAgree
  StorageIsExclusive
PROPERTIES
  PausesAreExact
  FrameFinishes
CHECK_DEADLOCK FALSE
