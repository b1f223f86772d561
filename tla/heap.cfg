CONSTANTS
  PageUnits = 4
  ChunkPages = 1
  MaxUnits = 28
  Sizes = {5, 20}
  MaxFrames = 5
  USizes = {5, 20}
  t1 = t1
  t2 = t2
  Tasks = {t1, t2}
SPECIFICATION MSpec
INVARIANTS HeapSound NothingLost UserBlocksSound
PROPERTIES  FaultsExplained
SYMMETRY Alike
