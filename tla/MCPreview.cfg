SPECIFICATION FairSpec
CONSTANTS
  c1 = c1
  c2 = c2
  Clients = {c1, c2}
  RingLimit = 2
  PendingLimit = 1
  Settings <- MCSettings
  QueueCapacity = 1
  KeyInterval = 2
  MaxPackets = 3
  Scenarios <- MCScenarios
CHECK_DEADLOCK FALSE
INVARIANTS
  SinkIsSound
  ReadersSeeWholePackets
PROPERTIES
  EventsNeverGoBack
  NewestEventArrives
  StopEndsUnlessHeld
