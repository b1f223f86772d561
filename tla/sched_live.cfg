\* Liveness when threads cooperate.
CONSTANTS
  MaxThreads = 2
  TimeSlice = 1
  MaxTick = 2
  TickMod = 100
  Waits = {1, 2}
  Ops <- SleepOps
  WindowTicks = FALSE
SPECIFICATION CooperativeSpec
PROPERTIES ReadyThreadRuns SleeperWakes TimerComesBack
