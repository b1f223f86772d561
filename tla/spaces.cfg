CONSTANTS
  Threads = {a, b}
  NFrames = 9
  PerTable = 2
  Ranges <- MCRanges
  HeapPage = 0
  MaxSlots = 2
  None = None
SYMMETRY MCSymmetry
SPECIFICATION Spec
INVARIANTS  OwnTables
PROPERTIES LossExplained
CHECK_DEADLOCK FALSE
