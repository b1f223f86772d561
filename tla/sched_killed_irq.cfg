\* A thread killed inside its timer interrupt.
CONSTANTS
  MaxThreads = 2
  TimeSlice = 1
  MaxTick = 2
  TickMod = 100
  Waits = {1, 2}
  Ops <- KillOps
  WindowTicks = FALSE
SPECIFICATION CooperativeSpec
PROPERTIES SleeperWakes
CHECK_DEADLOCK FALSE
