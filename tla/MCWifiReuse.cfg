\* The flash holds the network an earlier portal stored; one reset.
CONSTANTS
  Networks = {home}
  NoCfg = NoCfg
  MenuCfg = menu
  MaxRetry = 1
  StaTicks = 1
  PortalTicks = 1
  Faults = {}
  MaxResets = 1
  MaxEvents = 1
SPECIFICATION SafetySpec
PROPERTIES
  ProvisionedReused
CHECK_DEADLOCK FALSE
