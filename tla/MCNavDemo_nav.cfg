SPECIFICATION FairSpec
CONSTANTS
  g1 = g1
  g2 = g2
  Goals <- MCGoals
  Drive = Drive
  None = None
  Bad = Bad
  Malformed = Malformed
  MaxDist = 1
  MaxTurn = 1
  Gate = 0
  QueueSize = 2
  EventQueueSize = 1
  MaxIntents = 3
CHECK_DEADLOCK FALSE
INVARIANTS
  TypeOK LastIntentWins
PROPERTIES
  GoalReached  NavBaseSpec
