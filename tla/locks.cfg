CONSTANT MaxThreads = 3
SPECIFICATION FairSpec
INVARIANTS LocksMatchSections WaitsOnlyForInterrupted
 
CHECK_DEADLOCK FALSE
