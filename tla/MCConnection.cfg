\* Two messages, and one task of the protocol in the queue at a time.
CONSTANTS
  Messages = {m1, m2}
  NoMsg = none
  MaxTasks = 1
SPECIFICATION Spec
SYMMETRY Symmetry
INVARIANTS
  Consistent
  OneWrite
  BufferWaits
  TasksFindProtocol
  ProtocolUnreferenced
  SocketNotNull
  ConnectionOutlives
CHECK_DEADLOCK FALSE
