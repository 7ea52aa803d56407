CONSTANTS
  NUM_MESSAGES_SENT = 3
  LOWEST = 1
SPECIFICATION Spec
INVARIANTS ReceivedInOrder QueuesRemoved
PROPERTIES SenderEnds AsyncLoopEnds
CHECK_DEADLOCK FALSE
