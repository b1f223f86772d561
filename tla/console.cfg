CONSTANT MaxThreads = 3
SPECIFICATION FairSpec
PROPERTIES LiveOwnerKept DeadOwnerEvicted
