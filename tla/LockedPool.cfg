SPECIFICATION PoolSpec
CONSTANTS
  ARENA_SIZE = 12
  ARENA_ALIGN = 2
  Limit = 6
  Request = {1, 3, 5, 8}
  MaxArenas = 2
INVARIANTS RoomIsFound
PROPERTIES PoolKeepsBlocks
