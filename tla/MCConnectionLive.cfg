\* One message: what must happen under fairness.
CONSTANTS
  Messages = {m1}
  NoMsg = none
  MaxTasks = 1
SPECIFICATION FairSpec
PROPERTIES
  ClosedConnectionEnds
CHECK_DEADLOCK FALSE
