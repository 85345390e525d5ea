SPECIFICATION Spec
CONSTANTS
  Pids = {1, 2, 3}
  NPages = 1
  PageUnits = 1
  BrkBase = 1
  MmapBase = 1
  Vals = {0, 1}
  Lengths = {1}
  Prots = {"read", "write"}
  Setups <- ShareSetups
VIEW Shape
CHECK_DEADLOCK FALSE
INVARIANTS OwnersExact WritableAlone
PROPERTIES ImplementsUserMemory
