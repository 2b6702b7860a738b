SPECIFICATION FairSpec
CONSTANTS
  NClients = 2
  Msgs <- MCMsgs
  HeaderLen = 2
  MaxMsgs <- MCMaxMsgs
INVARIANTS
  FramingIsKept
  QueuedIsSent
  HangNeedsCutMessage
  QueuedInOrder
PROPERTIES
  WrittenIsQueued
