SPECIFICATION FairSpec
CONSTANTS
  None = None
  NoObject = NoObject
  Timeouts <- MCTimeouts
  PollInterval = 2
  MaxLate = 1
  MayReadvertise = TRUE
  MaxMissed = 2
  MaxSilent = 13
INVARIANTS
  TypeOK DeadmanQuiet SilenceBounded FirstBeatInTime OneBeatAfterStop
PROPERTIES
  AdvertHonoured
CHECK_DEADLOCK FALSE
