SPECIFICATION Spec
CONSTANTS
  Room <- Rooms
  Limit = {0, 2, 5}
  Size <- Sizes
  Source <- Sources
  MaxText = 14
INVARIANTS TypeOK NothingLost SizeMatches
PROPERTIES EofIsJustified CallsReturn StreamsText
