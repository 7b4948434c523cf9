\* The address arrives while a poll that saw the boot attempt fail opens the
\* portal.
CONSTANTS
  Networks = {home}
  NoCfg = NoCfg
  MenuCfg = menu
  MaxRetry = 1
  StaTicks = 1
  PortalTicks = 2
  Faults = {}
  MaxResets = 0
  MaxEvents = 1
SPECIFICATION SafetySpec
INVARIANTS
  StopFollowsConnection
CHECK_DEADLOCK FALSE
