CONSTANTS
  top = top
  child = child
  other = other
  v1 = v1
  v2 = v2
  absent = absent
  Absent = absent
  Object = {top, child, other}
  Value = {v1, v2}
  Parent <- Tree
  MEM_MINSIZE = 8
  Size = {3, 6}
  Word = 256
  MaxAsked = 12
SPECIFICATION Spec
INVARIANT SessionInStep
INVARIANT ArenaOutlivesCall
INVARIANT OwnedWhenChanged
PROPERTY ImplementsSession
