\* Two threads, every operation, ticks in the switch window, a deadline that wraps.
CONSTANTS
  MaxThreads = 2
  TimeSlice = 2
  MaxTick = 3
  TickMod = 8
  Waits = {1, 2, 7}
  Ops <- AllOps
  WindowTicks = TRUE
SPECIFICATION Spec
INVARIANTS ThreadSeesItself IInv
PROPERTIES LockReleasedByOwner SleepIsLongEnough
CHECK_DEADLOCK FALSE
