\* A consumer key before a keyboard key, sent while the pass goes on.
CONSTANTS
  KeyCount = 2
  Layers = {0, 1}
  Keymap <- MixedLayers
  Rollover = 1
  DebounceTicks = 2
  ConsumerTicks = 1
  PassTicks = {1, 2}
  TickMod = 6
  WebLayers = FALSE
  Faults = {}
SPECIFICATION MCSpec
PROPERTIES
  DebouncedInFull
