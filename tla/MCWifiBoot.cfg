\* A menuconfig network and one other; no call into ESP-IDF fails; one reset.
CONSTANTS
  Networks = {home}
  NoCfg = NoCfg
  MenuCfg = menu
  MaxRetry = 1
  StaTicks = 1
  PortalTicks = 1
  Faults = {}
  MaxResets = 1
  MaxEvents = 2
SPECIFICATION Spec
INVARIANTS
  ConnectedMeansLink
PROPERTIES
  PortalIsLastResort
  BootResolves
  AttemptsEnd
CHECK_DEADLOCK FALSE
