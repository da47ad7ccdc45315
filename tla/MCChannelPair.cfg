SPECIFICATION FairSpec
CONSTANTS
  Senders = {s1, s2}
  Receivers = {r1}
  BufferCapacity = 2
  MaxSend = 3
  MaxRecv = 3
  MayClose = TRUE
INVARIANTS TypeOK CapacityLimited WaiterIsQueued
PROPERTIES EveryCallReturns CloseEndsScheduler
