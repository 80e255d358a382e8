CONSTANTS
  max_process_num = 2
  MAX_EVENTS_NUMBER = 2
  PipeCapacity = 1
  MaxClients = 3
  MaxData = 2
SPECIFICATION FairSpec
INVARIANTS TypeOK NotificationsBacked BlocksOnlyWhenAllFull
PROPERTY ClientServed
CHECK_DEADLOCK FALSE
