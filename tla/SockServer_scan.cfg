SPECIFICATION FairSpec
CONSTANTS
  Conns = {c1, c2, c3}
  NULL = NULL
  MAX_CLIENTS = 2
  SOCK_MAX_CLIENTS = 3
  MaxUnread = 1
INVARIANTS
  RegistryAgrees
  DefaultClientIsLive
  OverrunNeedsFullTable
PROPERTIES
  ClosedOnlyAtEOF
  DefaultIsStable
  ImplementsPresence
  ClientsAreServed
CHECK_DEADLOCK FALSE
