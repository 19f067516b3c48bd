SPECIFICATION Spec
CONSTANTS
  Capacity = 3
  Value = {0, 1}
  Default = 0
  MaxBulk = 4
INVARIANTS
  TailIsLast
  BulkIsLoop
PROPERTY
  ImplementsDeque
