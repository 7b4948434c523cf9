\* No menuconfig network, so that boot goes by the stored one or opens the
\* portal; every call into ESP-IDF may fail; one reset.
CONSTANTS
  Networks = {home, office}
  NoCfg = NoCfg
  MenuCfg = NoCfg
  MaxRetry = 1
  StaTicks = 1
  PortalTicks = 1
  Faults = {"configure", "connect", "services"}
  MaxResets = 1
  MaxEvents = 1
SPECIFICATION Spec
INVARIANTS
  ServedWhileActive
PROPERTIES
  PortalEnds
  ProvisionedReused
CHECK_DEADLOCK FALSE
