CONSTANTS
  Co = {c1, c2}
  Main = main
  Value = {0, 1}
SPECIFICATION Spec
INVARIANTS
  TypeOK
  LandsInCode
  SuspendedIsIntact
PROPERTIES
  ImplementsStack
