SPECIFICATION Spec
CONSTANTS
  Q = 5
  G = 2
  N = 2
  T = 2
  N2 = 3
  T2 = 2
  OldRandoms = {1, 3}
  Randoms = {3}
  Nonces = {3}
  Hashes = {2}
  MaxFaulty = 1
  MaxDishonest = 1
  MaxFalse = 1
INVARIANT StaticKey
CHECK_DEADLOCK FALSE
