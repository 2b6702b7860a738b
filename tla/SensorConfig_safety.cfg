SPECIFICATION ConfigSpec
CONSTANTS
  Conns = {c1, c2}
  NULL = NULL
  MAX_CLIENTS = 2
  SOCK_MAX_CLIENTS = 2
  MaxUnread = 0
  ConfigHandles = {8}
  Periods <- MCPeriods
  NS_PER_MS = 10
  INT32_MAX = 3
INVARIANTS
  ConfigTypes
  DisabledIsKnown
  PeriodIsKnown
  RequestIsKnown
CHECK_DEADLOCK FALSE
