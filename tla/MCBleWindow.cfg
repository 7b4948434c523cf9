\* A task counts on the advertising that the end of a window is about to stop.
CONSTANTS
  Hosts = {h1, h2}
  BondedBefore = {h1}
  None = None
  Window = 1
  ClearFirst = TRUE
  BleFaults = {}
  AuthOvertakes = FALSE
  MaxLinks = 2
  MaxAsks = 1
SPECIFICATION BleSpec
PROPERTIES
  AlwaysAdvertises
CHECK_DEADLOCK FALSE
