\* Both tasks change the layer; a report has room for one key; reports get
\* lost; sending a consumer usage takes a tick, the rest of a pass one or two;
\* the clock wraps.
CONSTANTS
  KeyCount = 2
  Layers = {0, 1}
  Keymap <- MixedLayers
  Rollover = 1
  DebounceTicks = 2
  ConsumerTicks = 1
  PassTicks = {1, 2}
  TickMod = 6
  WebLayers = TRUE
  Faults = {"drop"}
SPECIFICATION MCSpec
INVARIANTS
  HostFollowsKeys
PROPERTIES
  EdgesAreDebounced
  HeldKeySeen
