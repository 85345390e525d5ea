SPECIFICATION Spec
CONSTANTS
  Pids = {1, 2}
  NPages = 2
  PageUnits = 2
  BrkBase = 2
  MmapBase = 4
  Vals = {1}
  Lengths = {1, 2}
  Prots = {"write"}
  Setups <- BrkSetups
CHECK_DEADLOCK FALSE
INVARIANT WritableAlone
