SPECIFICATION FairSpec
CONSTANTS
  Producers = {p1, p2}
  Consumers = {c1}
  Pops = {"pop", "pop_hard"}
  LocalSize = 1
  MaxQueues = 2
  UnitSize = 2
  FreeSize = 1
  Attempts = 1
  MaxPush = 2
  MaxPushes = 3
  MaxHandles = 3
INVARIANTS TypeOK SingleProducer ScanMissesNothing
PROPERTIES Drained
