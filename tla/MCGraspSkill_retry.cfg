SPECIFICATION Spec
CONSTANTS
  MaxCalls = 5
  Absent = Absent
  Torn = Torn
INVARIANTS
  TypeOK PlaceCanBeRetried PlacedIsForgotten
CHECK_DEADLOCK FALSE
