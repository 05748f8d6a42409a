SPECIFICATION Spec
CONSTANT MaxSignals = 2
INVARIANTS
  HeartbeatStopIdempotent
CHECK_DEADLOCK FALSE
