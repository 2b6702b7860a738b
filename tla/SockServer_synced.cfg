SPECIFICATION Spec
CONSTANTS
  Conns = {c1, c2}
  NULL = NULL
  MAX_CLIENTS = 2
  SOCK_MAX_CLIENTS = 3
  MaxUnread = 1
INVARIANTS
  ClientIsSynced
CHECK_DEADLOCK FALSE
