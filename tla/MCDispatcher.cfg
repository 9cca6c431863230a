\* Two foreign threads, the task that closes the server, Game::shutdown, one
\* task that never expires and two that may.
CONSTANTS
  Clients = {io, sched}
  Disp = disp
  Tasks = {close, shutdown, plain, d1, d2}
  Droppable = {d1, d2}
  CloseTask = close
  ShutdownTask = shutdown
  NoTask = none
SPECIFICATION FairSpec
INVARIANTS
  Consistent
  NoLostWakeup
  ClosingReachesShutdown
PROPERTIES
  ImplementsTaskQueue
  AcceptedTasksSettle
  ClosingEnds
CHECK_DEADLOCK FALSE
