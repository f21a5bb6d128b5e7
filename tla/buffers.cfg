\* two buffers over shared storage
SPECIFICATION Spec
CONSTANTS
  Buffers = {b1, b2}
  Allocs = {a1, a2, a3}
  NoAlloc = NoAlloc
  MaxLen = 2
SYMMETRY Symmetry
INVARIANTS
  TypeOK
  FactsTrue
PROPERTIES
  PrivateSpec
