SPECIFICATION FairSpec
CONSTANTS
  Socks = {s1, s2}
  NULL = NULL
  m_conn_type = "INET"
  Len = 2
  MaxFaults = 3
INVARIANTS
  NothingLeaks
  AnnouncedFirst
  SendIsSafeWithoutDisconnect
PROPERTIES
  Reconnects
  StopReturns
CHECK_DEADLOCK FALSE
