\* Saves of two statements beside two threads that execute single ones.
CONSTANTS
  IoThreads = {io1, io2}
  Dispatcher = dispatcher
  Nobody = nobody
  N = 2
  MaxLosses = 2
  MaxErrors = 1
SPECIFICATION Spec
SYMMETRY Symmetry
INVARIANTS
  LockAgrees
  SaveIsAtomic
  SuccessIsStored
