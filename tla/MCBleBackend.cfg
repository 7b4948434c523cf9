\* Two hosts, one of them bonded before or none; configuring the scan response
\* may fail.
CONSTANTS
  Hosts = {h1, h2}
  BondedBefore = {h1}
  None = None
  Window = 1
  ClearFirst = TRUE
  BleFaults = {"rsp"}
  AuthOvertakes = FALSE
  MaxLinks = 2
  MaxAsks = 1
SPECIFICATION BleSpec
INVARIANTS
  BleTypeOK
  OneBond
  ConnectedHasLink
PROPERTIES
  ReadyAfterPairing
  AdvertisesAgain
CHECK_DEADLOCK FALSE
