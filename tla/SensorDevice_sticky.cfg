SPECIFICATION Spec
CONSTANTS
  MAX_MSG_QUEUE_SIZE = 1
  MEM_POOL_SIZE = 1
  SentTypes = {"ACCELEROMETER"}
  FlushHandles = {0}
  Counts = {1}
  SpuriousWakeups = FALSE
  MaxClients = 1
  MaxMsgs = 1
  MaxFlushes = 1
PROPERTIES
  MetaDataIsSticky
CHECK_DEADLOCK FALSE
