CONSTANTS
  SndBuf = 2
  MaxLen = 3
  MaxRequests = 3
SPECIFICATION Spec
PROPERTY SendArmsWriting
CHECK_DEADLOCK FALSE
