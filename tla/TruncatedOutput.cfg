SPECIFICATION Spec
CONSTANTS
  CacheSize = 2
  Room <- LargeRooms
  Limit = {0, 3, 5}
  Size <- Sizes
  MaxText = 8
INVARIANTS TypeOK PrefixInPrimary RestInCache CountsText
PROPERTIES EofIsJustified CallsReturn StreamsText
