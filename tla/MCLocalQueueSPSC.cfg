SPECIFICATION Spec
CONSTANTS
  Producers = {p1}
  Consumers = {c1}
  Items = {x, y}
  NoItem = NoItem
  QueueSize = 2
  Width = 8
  MaxPush = 11
  MaxPop = 12
INVARIANTS WriteHitsFreeSlot
PROPERTIES ImplementsQueue
