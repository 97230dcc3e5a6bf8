SPECIFICATION FairSpec
CONSTANTS
  N = 3
  MaxSession = 1
  MaxBatch = 1
  MaxRedelivery = 0
INVARIANT TypeOK
INVARIANT ProversSurvive
INVARIANT VerifierSurvives
PROPERTY EventuallyVerified
CHECK_DEADLOCK FALSE
