SPECIFICATION Spec
CONSTANTS
  p1 = p1
  p2 = p2
  p3 = p3
  relay = relay
  Provers = {p1, p2, p3}
  Relay = relay
  MaxAnnounce = 1
  MaxRedelivery = 1
  Fifo = FALSE
SYMMETRY Symmetry
INVARIANT TypeOK
INVARIANT SameGroupKeyOnce
INVARIANT WholeKeyOnce
INVARIANT NoPanicOnce
INVARIANT NoShareMissedOnce
INVARIANT DealOnce
CHECK_DEADLOCK FALSE
