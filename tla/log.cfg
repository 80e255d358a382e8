CONSTANTS
  Writers = {w1, w2}
  Flusher = flusher
  Nobody = Nobody
  MAX_LINES = 2
  Capacity = 1
  LastDay = 2
  MaxWrites = 3
SPECIFICATION FairSpec
INVARIANTS TypeOK PushNeverBlocks NoLineLost
PROPERTIES UsesBlockDeque WriteReturns QueueDrains
CHECK_DEADLOCK FALSE
