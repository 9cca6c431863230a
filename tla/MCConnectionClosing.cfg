\* One message whose write is under way when the connection closes.
CONSTANTS
  Messages = {m1}
  NoMsg = none
  MaxTasks = 1
SPECIFICATION FairSpec
PROPERTIES
  ClosingIsClosed
CHECK_DEADLOCK FALSE
