SPECIFICATION FairSpec
CONSTANTS
  N = 4
  T = 3
  MaxFaulty = 2
  MaxFalse = 1
INVARIANT TypeOK
 
INVARIANT WholeKeyInRange
 
PROPERTY AgreementSpec
PROPERTY Robust
CHECK_DEADLOCK FALSE
