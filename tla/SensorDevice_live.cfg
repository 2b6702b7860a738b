SPECIFICATION FairSpec
CONSTANTS
  MAX_MSG_QUEUE_SIZE = 1
  MEM_POOL_SIZE = 1
  SentTypes = {"ACCELEROMETER"}
  FlushHandles = {0, 1}
  Counts = {1}
  SpuriousWakeups = FALSE
  MaxClients = 2
  MaxMsgs = 3
  MaxFlushes = 1
INVARIANTS
  CrashNeedsOverflow
PROPERTIES
  QueueDrains
CHECK_DEADLOCK FALSE
