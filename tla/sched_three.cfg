\* Three threads; no network block and no tick in the switch window.
CONSTANTS
  MaxThreads = 3
  TimeSlice = 1
  MaxTick = 2
  TickMod = 8
  Waits = {1, 2}
  Ops <- LocalOps
  WindowTicks = FALSE
SPECIFICATION Spec
INVARIANTS ReadyQueueExact WakeListExact NoStaleResume
CHECK_DEADLOCK FALSE
