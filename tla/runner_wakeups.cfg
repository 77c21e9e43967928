SPECIFICATION SpuriousSpec
CONSTANTS
  TaskLimit = 32
  Ranges <- OneRange
  MaxWorkers = 2
  Share = 1
  MaxDepth = 2
INVARIANTS
  SafeAgainstSpuriousWakeups
