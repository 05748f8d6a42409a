SPECIFICATION Spec
CONSTANTS
  c1 = c1
  c2 = c2
  r1 = r1
  r2 = r2
  estop = estop
  goto = goto
  None = None
  Heart = Heart
  BadAdvert = BadAdvert
  Calls <- MCCalls
  RequestIds <- MCIds
  Verbs <- MCVerbs
  Adverts <- MCAdverts
  UniqueIds = TRUE
  PoolSize = 2
  Unasked <- MCEverything
  MaxUnasked = 1
CHECK_DEADLOCK FALSE
INVARIANTS
  TypeOK OwnReply WaiterReachable NoStrandedEntry HandUnresolved OneSender NeverStuck
PROPERTIES
  ToolCallSpec
SYMMETRY MCSymmetry
