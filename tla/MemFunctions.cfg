SPECIFICATION Spec
CONSTANTS
  Size = 4
  ByteValues = 2
  Ints = {0, 3}
INVARIANTS
  Progress
PROPERTIES
  ImplementsMemoryOps
