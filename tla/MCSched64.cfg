SPECIFICATION Spec
CONSTANTS
  MaxTasks = 3
  NoKey = NoKey
  CondKey = CondKey
  Pids = {1, 2}
  FutexKeys = {k1}
  Bits = {1, 2}
  Masks = {{1}, {1, 2}}
  MaxSleep = 2
  Ctx = {0, 1}
  Ctx0 = 0
CONSTRAINT Narrow
VIEW View
CHECK_DEADLOCK FALSE
INVARIANTS TypeOK CurrentRunnable IdleHasFuture TotalExact FrameConsistent ContextKept
