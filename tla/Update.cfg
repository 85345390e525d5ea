SPECIFICATION UpdateSpec
CONSTANTS
  Releases = {1, 2}
  ImageSize = 2
  MaxUpdates = 2
CHECK_DEADLOCK FALSE
INVARIANT BootsWhole
