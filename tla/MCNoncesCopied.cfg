SPECIFICATION Spec
CONSTANTS
  N = 2
  T = 2
  Holders = {1, 2}
  Nonces = 1
  Copied = TRUE
  MaxFaulty = 0
  MaxMessage = 2
INVARIANT NonceOnce
CHECK_DEADLOCK FALSE
