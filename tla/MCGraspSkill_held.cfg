SPECIFICATION Spec
CONSTANTS
  MaxCalls = 3
  Absent = Absent
  Torn = Torn
INVARIANTS
  HeldGraspRestored
CHECK_DEADLOCK FALSE
