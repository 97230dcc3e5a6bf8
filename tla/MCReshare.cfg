SPECIFICATION FairSpec
CONSTANTS
  Q = 5
  G = 2
  N = 3
  T = 2
  N2 = 3
  T2 = 2
  OldRandoms = {1, 3}
  Randoms = {3}
  Nonces = {3}
  Hashes = {2}
  MaxFaulty = 2
  MaxDishonest = 1
  MaxFalse = 1
INVARIANT TypeOK
 
INVARIANT KeysBelong
INVARIANT GroupKeyKept
INVARIANT ThresholdSigns
PROPERTY AgreementSpec
PROPERTY Robust
CHECK_DEADLOCK FALSE
