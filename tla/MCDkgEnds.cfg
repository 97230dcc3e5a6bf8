SPECIFICATION FairSpec
CONSTANTS
  p1 = p1
  p2 = p2
  p3 = p3
  relay = relay
  Provers = {p1, p2, p3}
  Relay = relay
  MaxAnnounce = 1
  MaxRedelivery = 0
  Fifo = TRUE
 
PROPERTY AgreementSpec
CHECK_DEADLOCK FALSE
