SPECIFICATION Spec
CONSTANTS
  Buf = {b1, b2}
  Heap = {h1, h2, h3}
  x = x
  y = y
  Char = {x, y}
  Junk = Junk
  Storage = 2
  Chunk <- Chunks
  Capacity = {0, 3}
  MaxCapacity = 5
  AnyCopy = TRUE
  AnyMove = FALSE
INVARIANT AreaInsideBlock
