SPECIFICATION Spec
CONSTANTS
  None = None
  NoObject = NoObject
  Timeouts <- MCTimeouts
  PollInterval = 2
  MaxLate = 1
  MayReadvertise = TRUE
  MaxMissed = 0
  MaxSilent = 7
INVARIANTS
  DeadmanKeptFromFiring
CHECK_DEADLOCK FALSE
