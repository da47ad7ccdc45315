SPECIFICATION Spec
CONSTANTS
  Producers = {p1}
  Consumers = {c1, c2, c3}
  Items = {x}
  NoItem = NoItem
  QueueSize = 2
  Width = 16
  MaxPush = 3
  MaxPop = 4
SYMMETRY Symmetry
INVARIANTS TypeOK ReadsCommitted OccupancyBound BalancedAtRest
