SPECIFICATION Spec
CONSTANTS
  None = None
  Odd = Odd
  RingSize = 2
  StaleAfter = 1
  MaxTime = 2
  MaxEvents = 3
  MaxBoots = 2
  MaxStates = 2
  MaxQueue = 1
INVARIANTS StateWithinStaleAfter
CHECK_DEADLOCK FALSE
