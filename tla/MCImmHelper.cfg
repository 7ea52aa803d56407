CONSTANTS
  MaxTries = 3
  SearchKey = {"k=", "l="}
  Text = {"t", "0x0c"}
  Comma = ","
  NumberOf <- NumberRead
  MaxTokens = 5
  AttrName = {"a", "b"}
  MaxValues = 2
  MaxAttributes = 2
  IntBits = 3
  LongBits = 6
  CHUNK = 8
  Request = {0, 1, 4, 5, 8, 9}
  ChunkId = {c1, c2, c3, c4}
  MaxBlocks = 4
  NoChunk = NoChunk
SPECIFICATION CallerSpec
CHECK_DEADLOCK FALSE
INVARIANT HelperTypeOK
INVARIANT TriesAsProfiled
INVARIANT CarriedOutOnce
INVARIANT FatalAsProfiled
INVARIANT SameEachTry
INVARIANT HandlesValid
INVARIANT NothingForgotten
INVARIANT ValuesKept
INVARIANT BlocksInBounds
INVARIANT BlocksDisjoint
INVARIANT FreedTogether
PROPERTY FoundAsNamed
PROPERTY ComesBack
PROPERTY HelperEnds
