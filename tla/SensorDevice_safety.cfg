SPECIFICATION Spec
CONSTANTS
  MAX_MSG_QUEUE_SIZE = 1
  MEM_POOL_SIZE = 1
  SentTypes <- MagneticTypes
  FlushHandles = {5}
  Counts = {1, 2}
  SpuriousWakeups = TRUE
  MaxClients = 2
  MaxMsgs = 3
  MaxFlushes = 2
INVARIANTS
  ReportedInOrder
  SlotIntegrity
  BufferBound
PROPERTIES
  PollReturnsEvents
  FlushLostOnlyByStore
  ImplementsEventStream
CHECK_DEADLOCK FALSE
