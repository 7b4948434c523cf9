\* The HTTP server: starts and registrations that fail, a network that changes.
CONSTANTS
  StartStable = 3
  StartRetry = 2
  ControlSettings <- Control_MC
  WebFaults = {"start", "register"}
  MaxFailures = 2
  MaxFlips = 4
\* SNTP: two connections and a task that is not created.
CONSTANTS
  SntpDelay = 2
  SntpRecheck = 1
  SntpRetry = 1
  ServerNames = {TRUE, FALSE}
  Starters = {1, 2}
  MaxOnline = 2
  MaxCreateFailures = 1
\* Home Assistant: one event more than the queue holds.
CONSTANTS
  Ids = {e1, e2, e3}
  Nothing = Nothing
  MaxRetry = 1
  QueueSize = 2
  EntityStates = {on, off}
  MaxChanges = 1
  InitOutcomes = {"runs", "failed", "disabled"}
\* The log: lines longer than their entries, texts longer than the buffer.
CONSTANTS
  Entries = 2
  AccumMax = 3
  FormatMax = 4
  LineMax = 1
  Texts <- Texts_MC
  Newline = "n"
  DefaultLimit = 1
  MaxLimit = 2
  Queries = {0, 1, 2, 3}
  MaxHeard = 7
\* The buzzer: a ring of two tones, and a count that may exceed it.
CONSTANTS
  BuzzerSize = 2
  Melodies <- Melodies_MC
  ToggleOffTune = TRUE
  Bytes = 4
\* The encoder: four presses, so that a group may follow another.
CONSTANTS
  TapWindow = 2
  SingleDelay = 2
  PassTicks = {1, 2}
  TapActions <- TapActions_MC
  Detent = 2
  MaxTicks = 7
  MaxPresses = 4
  MaxPulses = 4
\* The slider: a gesture takes two passes, and a second one fits in as well.
CONSTANTS
  Samples <- Samples_MC
  NoiseFloor = 1
  TriggerDelta = 5
  ReleaseDelta = 3
  ContactTotal = 4
  ContactSide = 4
  VisitDelta = 5
  VisitPercent = 20
  DominanceDelta = 2
  TravelDelta = 3
  SequenceMin = 1
  ReorderMax = 4
  BothHold = 1
  StartDominant = 1
  MinSwipe = 2
  MinInterval = 1
  IdleReset = 2
  RequireBoth = TRUE
  LayerTouch <- LayerTouch_MC
  MaxTouchTicks = 7
CONSTANT
  Focuses = {"web", "sntp", "ha", "log", "buzzer", "button", "wheel", "touch"}
SPECIFICATION Spec
INVARIANTS
  ServicesTypeOK
  NoServerLeft
  AnsweredOnce
  InitialisedOnce
  LogIsFaithful
  SilentWhenDisabled
  RingIsQueue
  CountsAreTrue
  GesturesAreSlides
  RepeatsFollowGesture
PROPERTIES
  StartsWhenStable
  ServerFollowsNetwork
  SntpStarts
  ImplementsChannel
  EventsSettle
  DisplayFollows
  TonesEnd
\* Initialisation, logging and the clocks stop at the bounds of the model.
CHECK_DEADLOCK FALSE
