\* The clock wraps after eight ticks and a pass takes up to two; saving and
\* starting BLE or USB may fail.
CONSTANTS
  DefaultMode = "usb"
  BleEnabled = TRUE
  Persist = TRUE
  Delay = 2
  PassTicks = 2
  TickMod = 8
  Faults = {"save", "ble", "usb"}
  MaxResets = 1
SPECIFICATION Spec
INVARIANTS
  OneKeyboard
  CommittedBeforePending
PROPERTIES
  SwitchApplies
CHECK_DEADLOCK FALSE
