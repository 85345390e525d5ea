SPECIFICATION Spec
CONSTANTS
  MaxTasks = 3
  NoKey = NoKey
  CondKey = CondKey
  ProcMax = 3
  MaxPid = 3
  Spaces = {s1, s2, s3}
  NoSpace = NoSpace
  Calls <- AllCalls
VIEW View
SYMMETRY SpaceSymmetry
CHECK_DEADLOCK FALSE
INVARIANTS SpacesHeld WaitersJustified SignalsNoticed
