SPECIFICATION FairSpec
CONSTANTS
  Conns = {c1, c2, c3}
  NULL = NULL
  SockTypes = {"INET", "UNIX"}
INVARIANTS
  NothingLeaks
  ListenerHasServer
  AddressIsReusable
PROPERTIES
  CloseReturns
