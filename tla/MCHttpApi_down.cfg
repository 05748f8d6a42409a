SPECIFICATION Spec
CONSTANTS
  c1 = c1
  c2 = c2
  r1 = r1
  r2 = r2
  estop = estop
  goto = goto
  None = None
  Heart = Heart
  BadAdvert = BadAdvert
  Calls <- MCCalls
  RequestIds <- MCIds
  Verbs <- MCOneVerb
  Adverts <- MCOneAdvert
  UniqueIds = TRUE
  PoolSize = 2
  Unasked <- MCSome
  MaxUnasked = 2
CHECK_DEADLOCK FALSE
PROPERTIES
  NoTimeoutWhenDown
