\* A bootstrap node, a relay and a verifier, with one prover or two.  The system may come
\* to rest when everybody has done everything.
CONSTANTS
  Nums = {4, 5}
  MaxCrash <- MCMaxCrash
SPECIFICATION FairSpec
INVARIANT TypeOK
INVARIANT NoCastLost
INVARIANT ListenersSurvive
INVARIANT OneElection
INVARIANT Agreement
 
PROPERTY Informed
CHECK_DEADLOCK FALSE
