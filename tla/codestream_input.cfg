SPECIFICATION Spec
CONSTANTS
  Files <- SmallFiles
  HeaderSize = 2
  Pieces <- SmallPieces
  Skips = {"inside"}
INVARIANTS
  SpanContinuesCodestream
  ReleaseIsExact
PROPERTIES
  FileEnds
CHECK_DEADLOCK FALSE
