SPECIFICATION ArenaSpec
CONSTANTS
  kSpanSlotSize = 4
  kLazySize = 3
  BinPages <- MCBinPages
  kPageTotal = 6
  InitPairs = 1
  InitMax = 0
  Page0Heads = {6}
  Sizes = {2700, 4084, 13000}
  MaxLive = 7
INVARIANTS ArenaTypeOK SpansAccounted ObjectsAccounted NoOverlap
