SPECIFICATION Spec
CONSTANTS
  Pids = {1}
  NPages = 4
  PageUnits = 1
  BrkBase = 1
  MmapBase = 2
  Vals = {1}
  Lengths = {1, 3}
  Prots = {"none", "write"}
  Setups <- MapSetups
CONSTRAINT FewFrames
VIEW Shape
CHECK_DEADLOCK FALSE
INVARIANTS OwnersExact ResvSorted
PROPERTIES ImplementsUserMemory PlacedOnFree
