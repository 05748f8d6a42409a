SPECIFICATION FairSpec
CONSTANT MaxSignals = 3
INVARIANTS
  TypeOK BothToldToStop LoopStopNeverRaises LoopStopNeverBlocks
  SignalRemembered
PROPERTIES
  ExitsWhenTold ShutdownForward
CHECK_DEADLOCK FALSE
