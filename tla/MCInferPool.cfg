CONSTANTS
  PoolSize = 2
  QueueCap = 2
  MaxFrame = 4
SPECIFICATION FairSpec
INVARIANTS TypeOK NoSlotLeak NoSlotShared NoJobDropped WorkerReadsItsFrame
PROPERTIES SlotComesBack ImplementsChannel
CHECK_DEADLOCK FALSE
