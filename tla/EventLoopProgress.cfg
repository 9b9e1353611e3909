\* Both builds under fairness; no symmetry, for liveness.
CONSTANTS
  Fd = {f1, f2}
  ListenFd = lfd
  QD = 7
  AllocMayFail = TRUE
SPECIFICATION FairSpec
PROPERTIES
  ResponseEnds
  KeepsListening
