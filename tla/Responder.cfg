CONSTANTS
  Conn = {c1, c2}
  Routes <- MCRoutes
  Method = {"GET", "POST"}
  FileSz <- MCFileSz
  NoFile = "none"
SPECIFICATION Spec
INVARIANTS
  DynamicAnswerIsOwn
