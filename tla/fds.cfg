CONSTANTS
  Threads = {t1, t2}
  Files = {f}
  Top = {}
  Texts <- MCTexts
  Modes = {"rw", "w+creat"}
  FdMax = 1
  Buffers = {b1, b2, b3}
  Offsets <- MCOffsets
  Gone = Gone
  NULL = NULL
SPECIFICATION Spec
INVARIANTS NoSharedBuffer NoBufferForgotten SnapshotFits
PROPERTY SnapshotStable
SYMMETRY MCSymmetry
CHECK_DEADLOCK FALSE
