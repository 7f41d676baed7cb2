SPECIFICATION Spec
CONSTANTS
  CacheSize = 2
  Room <- SmallRooms
  Limit = {0, 3, 5}
  Size <- Sizes
  MaxText = 8
INVARIANT PrefixInPrimary
