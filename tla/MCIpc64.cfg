SPECIFICATION Spec
CONSTANTS
  NoKey = NoKey
  CondKey = CondKey
  MaxTasks = 2
  Pids = {1, 2}
  Leader = 1
  MaxPipes = 2
  PipeBuf = 1
  Inflight = 1
  MaxSocks = 2
  Backlog = 1
  Files = {1}
  Paths = {"a"}
  Nodes = {1}
  MaxBatch = 2
  Rooms = {"ample", "short", "none"}
  Setups <- IpcSetups
CHECK_DEADLOCK FALSE
INVARIANTS NamesHeld  WriteExact
