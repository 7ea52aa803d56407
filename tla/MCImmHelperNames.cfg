CONSTANTS
  MaxTries = 0
  SearchKey = {"k=", "l="}
  Text = {"t", "0x0c"}
  Comma = ","
  NumberOf <- NumberRead
  MaxTokens = 5
  AttrName = {"a", "b"}
  MaxValues = 0
  MaxAttributes = 0
  IntBits = 3
  LongBits = 6
  CHUNK = 8
  Request = {}
  ChunkId = {c1}
  MaxBlocks = 0
  NoChunk = NoChunk
SPECIFICATION CallerSpec
CHECK_DEADLOCK FALSE
INVARIANT NameKept
