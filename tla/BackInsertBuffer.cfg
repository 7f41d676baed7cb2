SPECIFICATION Spec
CONSTANTS
  Capacity = {2}
  Filled = {0}
  Size <- Sizes
  MaxText = 9
  FlushedOnce = TRUE
INVARIANT DirectlyWritten
