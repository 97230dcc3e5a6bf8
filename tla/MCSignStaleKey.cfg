SPECIFICATION Spec
CONSTANTS
  N = 2
  MaxSession = 2
  MaxBatch = 0
  MaxRedelivery = 0
INVARIANT GroupKeyOfSigners
CHECK_DEADLOCK FALSE
