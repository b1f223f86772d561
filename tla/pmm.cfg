CONSTANTS
  MemMap <- MCMemMap
  PageSize = 4
  WordBits = 4
  ByteBits = 2
  CountMod = 2
  Threads = {a, b}
  Contents <- MCContents
SYMMETRY MCSymmetry
SPECIFICATION Spec
INVARIANTS ExclusivePages UsablePagesOnly  ZeroPageKept
