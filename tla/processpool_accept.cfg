CONSTANTS
  max_process_num = 2
  MAX_EVENTS_NUMBER = 1
  PipeCapacity = 1
  MaxClients = 2
  MaxData = 1
SPECIFICATION FairSpec
PROPERTY EveryClientAccepted
CHECK_DEADLOCK FALSE
