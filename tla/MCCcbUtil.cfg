CONSTANTS
  CcbId = {ccb1, ccb2}
  ShortName = {short}
  LongName = {long}
  NoName = NoName
  ItemId = {i1, i2}
  OpId = {o1, o2, o3}
  NameMem = {m1, m2}
  Null = Null
SPECIFICATION Spec
SYMMETRY Addresses
INVARIANT NoDanglingPointers
INVARIANT NamesIntact
PROPERTY LookupKeepsFirst
PROPERTY WalkIsComplete
PROPERTY ImplementsStore
