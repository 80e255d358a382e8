CONSTANTS
  Bytes <- TwoBytes
  Zero = 0
  kPrePendIndex = 1
  kInitialSize = 4
  ExtraSize = 2
  MaxBytes = 4
SPECIFICATION Spec
INVARIANT TypeOK
PROPERTIES GrowsOnlyWhenFull BytesInOrder ImplementsByteQueue
