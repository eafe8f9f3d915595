CONSTANTS
  Port <- AnyCaller
  Capacity = 3
  MaxBytes = 4
SPECIFICATION Spec
INVARIANT WireInOrder
CHECK_DEADLOCK FALSE
