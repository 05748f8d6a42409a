SPECIFICATION Spec
CONSTANTS
  None = None
  Odd = Odd
  RingSize = 2
  StaleAfter = 1
  MaxTime = 2
  MaxEvents = 3
  MaxBoots = 2
  MaxStates = 2
  MaxQueue = 2
INVARIANTS
  TypeOK RingIsTail HiddenOnlyByRestart SnapshotConsistent
PROPERTIES
  EventStreamSpec StatesInOrder
CHECK_DEADLOCK FALSE
