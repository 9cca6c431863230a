\* Two threads that add events, three events over ids 1..2 (so that ids wrap),
\* a delay below SCHEDULER_MINTICKS and one above it.
CONSTANTS
  Clients = {c1, c2}
  Events = {e1, e2, e3}
  MinTicks = 1
  MaxId = 2
  Delays <- MCDelays
  MaxTime = 3
  NoEvent = none
  Never = never
SPECIFICATION Spec
SYMMETRY Symmetry
INVARIANTS
  Consistent
  NoLateWait
  TimeoutHasEvent
  IdsNameEvents
PROPERTIES
  ImplementsTimers
CHECK_DEADLOCK FALSE
