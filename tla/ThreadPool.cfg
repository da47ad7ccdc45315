SPECIFICATION FairSpec
CONSTANTS
  Clients = {c1}
  Owner = Owner
  Tasks = {t0, t1}
  MainTask = t0
  NoTask = NoTask
  hardware_concurrency = 3
  limit = 1
  IntMax = 1
  MaxSize = 3
  MaxResize = 2
  MaxClose = 1
  MaxSuspend = 2
  MaxRefuse = 1
  WaitSize = 1
INVARIANTS TypeOK VectorInStep TaskInOnePlace
PROPERTIES JoinedBeforeDestroyed ResizeReturns PoolEnds
