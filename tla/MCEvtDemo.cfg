CONSTANTS
  Process = {p1, p2}
SPECIFICATION Spec
INVARIANTS TypeOK EventsFreed
PROPERTIES NothingStale DemoEnds
CHECK_DEADLOCK FALSE
