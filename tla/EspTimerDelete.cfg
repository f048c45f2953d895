SPECIFICATION TimerSpec
CONSTANTS
  t1 = t1
  t2 = t2
  Timers = {t1}
  QueueLength = 10
  Apis <- AllApis
  MaxCalls = 5
  MaxFires = 3
CHECK_DEADLOCK FALSE
INVARIANT
  NoUseAfterFree
