CONSTANTS
  base = base
  w1 = w1
  f1 = f1
  f2 = f2
  listen = listen
  conn = conn
  Base = base
  Loops <- BaseAndWorker
  Workers <- OneWorker
  Funcs <- TwoFuncs
  Channels <- TwoChannels
  ListenChannel = listen
  ConnChannel = conn
  WakeupChannel = wakeup
  NoOne = NoOne
  kDefaultEvents = 1
  MaxFuncs = 3
SPECIFICATION FairStartSpec
INVARIANTS StartTypeOK NoLostWakeup LoopsAreUp
PROPERTIES ImplementsTaskQueue ServerStarts QueuedFuncRuns
