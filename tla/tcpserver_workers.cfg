\* Two workers, two clients, two descriptors.
CONSTANTS
  base = base
  w1 = w1
  w2 = w2
  Base <- base
  Workers <- TwoWorkers
  MaxConn = 2
  MaxFd = 2
  NoOne = NoOne
  WakeupChannel = wakeup
  kDefaultEvents = 16
  MaxFuncs = 4
SPECIFICATION Spec
INVARIANTS TypeOK NoUseAfterFree FunctorsFindTheirState
\* Once the last client has gone every thread waits in epoll_wait.
CHECK_DEADLOCK FALSE
