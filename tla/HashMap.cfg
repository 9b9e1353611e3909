CONSTANTS
  W = 4
  GOLDEN_RATIO = 11
  bits = 1
  Key = {0, 1, 2, 5}
  Val = {v1, v2}
  NULL = NULL
SPECIFICATION Spec
INVARIANTS
  TypeOK
  WellLinked
  DeleteFreesAll
PROPERTIES
  KeepsEntries
