CONSTANTS
  SndBuf = 2
  MaxLen = 3
  MaxRequests = 3
SPECIFICATION FairSpec
INVARIANTS TypeOK WritingIffPending FinIsLast WholeMessages
PROPERTY OutputDrains
CHECK_DEADLOCK FALSE
