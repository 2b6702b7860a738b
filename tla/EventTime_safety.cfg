SPECIFICATION Spec
CONSTANTS
  Clients = {"behind", "ahead"}
  Skew <- TwoSkews
  BOOT_TIME = 1
  MaxTime = 5
  MaxQueue = 2
INVARIANTS
  TimestampIsPlausible
PROPERTIES
  ClientTimeIsMonotone
