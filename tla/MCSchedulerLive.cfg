\* Two threads that add two events: what must happen under fairness.
CONSTANTS
  Clients = {c1, c2}
  Events = {e1, e2}
  MinTicks = 1
  MaxId = 2
  Delays <- MCDelays
  MaxTime = 3
  NoEvent = none
  Never = never
SPECIFICATION FairSpec
PROPERTIES
  EveryEventFires
  SchedulerEnds
CHECK_DEADLOCK FALSE
