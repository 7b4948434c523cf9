\* The deadline of a request may fall among the last ticks before the wrap.
CONSTANTS
  DefaultMode = "usb"
  BleEnabled = TRUE
  Persist = TRUE
  Delay = 2
  PassTicks = 2
  TickMod = 8
  Faults = {}
  MaxResets = 0
SPECIFICATION Spec
PROPERTIES
  SwitchAlwaysApplies
CHECK_DEADLOCK FALSE
