SPECIFICATION Spec
CONSTANTS
  h1 = h1
  h2 = h2
  h3 = h3
  N = 2
  T = 2
  Holders = {h1, h2, h3}
  Nonces = 2
  Copied = FALSE
  MaxFaulty = 1
  MaxMessage = 2
SYMMETRY Symmetry
INVARIANT TypeOK
INVARIANT NonceOnce
INVARIANT FinalizedInBounds
INVARIANT HonestNotNamed
CHECK_DEADLOCK FALSE
