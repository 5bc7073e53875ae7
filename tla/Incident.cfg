SPECIFICATION Spec
CONSTANTS
  VolumeFloor = 30
  DwellWindows = 2
  Critical <- MCCritical
  Cases = {1, 2, 3}
  LongPlan = {1}
  Payers = {1}
  TicksPerWindow = 2
  Segments <- MCSegments
  Covers <- MCCovers
  Readings <- MCReadings
  Ramp <- MCRamp
  Jitter = 20
  Incidents = {1, 2}
  None = None
INVARIANTS
  SuppressedIsOwned
  QuietWhileParked
  TwinsWereRaced
  FlaggedApart
PROPERTIES
  SuppressedIsReleased
CHECK_DEADLOCK FALSE
