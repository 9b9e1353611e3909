CONSTANTS
  Key = {k1, k2}
  Val = {v1, v2}
  Sz = 1
  DefaultSz = 1
  MaxCapacity = 4
SPECIFICATION Spec
SYMMETRY KvSymmetry
INVARIANTS
  TypeOK
  HoldsAccepted
  FindsFirst
