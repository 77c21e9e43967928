SPECIFICATION Spec
CONSTANTS
  TaskLimit = 32
  Ranges <- SmallRanges
  MaxWorkers = 3
  Share = 1
  MaxDepth = 2
INVARIANTS
  TypeOK
  WorkersParked
  QuietBetweenCalls
  ThreadIdsFit
PROPERTIES
  RunsEachOnce
  CallsReturn
