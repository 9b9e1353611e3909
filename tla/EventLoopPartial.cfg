\* __prepare_connection may fail between co_new and string_init.
CONSTANTS
  Fd = {f1, f2}
  ListenFd = lfd
  QD = 7
  AllocMayFail = TRUE
SPECIFICATION Spec
SYMMETRY FdSymmetry
INVARIANTS
  NoBufferMeansNeverAccepted
