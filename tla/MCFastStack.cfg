SPECIFICATION Spec
CONSTANTS
  Pushers = {p1, p2, p3}
  Readers = {r1}
  Items = {x, y}
  NoItem = NoItem
  unitSize = 2
  max_size = 3
  MaxPush = 4
SYMMETRY Symmetry
INVARIANTS NoDanglingBlock
PROPERTIES ImplementsCells
