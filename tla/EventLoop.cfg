\* Both builds.  One chain and the accept fill the queue, two overflow it; allocations may fail.
CONSTANTS
  Fd = {f1, f2}
  ListenFd = lfd
  QD = 4
  AllocMayFail = TRUE
SPECIFICATION Spec
SYMMETRY FdSymmetry
INVARIANTS
  TypeOK
  NoDuplicateOperation
  ActionTellsOperation
  StepsCountOperations
  ClosedIsQuiet
  CleanBeforeParse
  OneAccept
  StoppedIsNeverResumed
  CrashHasCause
  IInv
PROPERTIES
  ImplementsLifecycle
