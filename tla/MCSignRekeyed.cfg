SPECIFICATION Spec
CONSTANTS
  N = 2
  MaxSession = 2
  MaxBatch = 1
  MaxRedelivery = 0
INVARIANT OwnKeys
CHECK_DEADLOCK FALSE
