CONSTANTS
  LlpSize = 1
  UpSize = 2
  MaxPolls = 3
  MaxResets = 1
SPECIFICATION FairSpec
INVARIANTS TypeOK SlotAccounting FreshPackets PublishedInOrder
PROPERTIES ImplementsService HandedOrWaitCycle
CHECK_DEADLOCK FALSE
