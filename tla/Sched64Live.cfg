SPECIFICATION SteadySpec
CONSTANTS
  MaxTasks = 3
  NoKey = NoKey
  CondKey = CondKey
  Pids = {1}
  FutexKeys = {k1}
  Bits = {1}
  Masks = {{1}}
  MaxSleep = 1
  Ctx = {0}
  Ctx0 = 0
PROPERTIES
  EveryRunnableRuns
  TimedWaitEnds
