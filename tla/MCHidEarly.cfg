\* The web task has set the flag and not yet the deadline when the input task polls.
CONSTANTS
  DefaultMode = "usb"
  BleEnabled = TRUE
  Persist = TRUE
  Delay = 2
  PassTicks = 2
  TickMod = 8
  Faults = {}
  MaxResets = 1
SPECIFICATION SafetySpec
PROPERTIES
  RestartNotEarly
